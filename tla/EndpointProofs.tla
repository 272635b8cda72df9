--------------------------- MODULE EndpointProofs ---------------------------
(***************************************************************************)
(* The two TCPConnections of TwoEndpoints over a network that loses,       *)
(* duplicates and reorders, with timeouts and aborts, for every length of  *)
(* the streams, every capacity and payload size and every size Mod of the  *)
(* sequence space that is large enough for them: each side delivers a      *)
(* prefix of what the other wrote, acknowledges only what was sent to it,  *)
(* and holds for retransmission what is not acknowledged.                  *)
(***************************************************************************)
EXTENDS TwoEndpoints, ConnectionLemmas

(* An endpoint: its connection is in order with its peer                   *)
(* (ConnectionLemmas), the application wrote no more than it has, and      *)
(* whatever is in the channel to p was sent by the peer, now or earlier.   *)
Ready(p) ==
    /\ Paired(conn[p], conn[Peer(p)])
    /\ Written(p) <= BytesFrom(p)
    /\ SentBy(chan[p], conn[Peer(p)])

(* The connections and the channels. *)
Net ==
    /\ conn \in [Endpoint -> Connections]
    /\ chan \in [Endpoint -> Seq(Packets)]
    /\ reliable \in BOOLEAN
    /\ \A p \in Endpoint : Ready(p)

(* The application of p got the bytes that were read. *)
Got(p) == got[p] = Substring(0, Inbound(p).num_read)

(* The inductive invariant of the two endpoints. *)
IInv == Net /\ DOMAIN got = Endpoint /\ \A p \in Endpoint : Got(p)

(* What a step of p may do: it leaves the connections and the channels in  *)
(* order, does not touch the connection of its peer, takes nothing out of  *)
(* the channel to it while somebody listens, and keeps account of what its *)
(* application got.                                                        *)
Step(p) ==
    /\ Net'
    /\ conn'[Peer(p)] = conn[Peer(p)]
    /\ conn[Peer(p)].active /\ chan[Peer(p)] # <<>> => chan'[Peer(p)] # <<>>
    /\ DOMAIN got = Endpoint /\ Got(p) =>
          DOMAIN got' = Endpoint /\ Got(p)' /\ got'[Peer(p)] = got[Peer(p)]

(* There are two endpoints. *)
LEMMA Peers ==
  ASSUME NEW p \in Endpoint
  PROVE  /\ Peer(p) \in Endpoint /\ Peer(p) # p /\ Peer(Peer(p)) = p
         /\ Endpoint = {p, Peer(p)}
BY DEF Endpoint, Peer

(* The constants of a connection, and the streams fit into the sequence    *)
(* space.                                                                  *)
LEMMA StreamsFit ==
  ASSUME reliable \in BOOLEAN, NEW p \in Endpoint
  PROVE  /\ BytesFrom(p) \in Nat /\ 2 * (BytesFrom(p) + 2) < Mod
         /\ 2 * 2 < Mod
<1>1. Capacity \in Nat /\ Mod \in Nat
  BY ConnectionConstants, ModAssumption
<1>2. BytesFrom(p) \in {ClientLen, ServerLen, LossyServerLen}
  BY DEF BytesFrom
<1>3. /\ ClientLen \in Nat /\ ServerLen \in Nat /\ LossyServerLen \in Nat
      /\ 2 * (2 * Capacity + ClientLen + ServerLen + 4) < Mod
      /\ 2 * (2 * Capacity + ClientLen + LossyServerLen + 4) < Mod
  BY EndpointConstants
<1> QED BY ONLY <1>1, <1>2, <1>3

(* Both directions, as far as p is concerned. *)
LEMMA Talking ==
  ASSUME Net, NEW p \in Endpoint
  PROVE  /\ Talks(conn[p], conn[Peer(p)])
         /\ SentBy(chan[p], conn[Peer(p)]) /\ SentBy(chan[Peer(p)], conn[p])
<1>1. Peer(p) \in Endpoint /\ Peer(Peer(p)) = p
  BY Peers
<1>2. Ready(p) /\ Ready(Peer(p))
  BY <1>1 DEF Net
<1> QED BY <1>1, <1>2 DEF Ready, Talks, Paired

(* Nothing but the connection of p and the channels change.                *)
LEMMA StepKeeps ==
  ASSUME Net, NEW p \in Endpoint, NEW d, Talks(d, conn[Peer(p)]),
         conn' = [conn EXCEPT ![p] = d], reliable' = reliable,
         d.sender.stream.num_written <= BytesFrom(p),
         chan' \in [Endpoint -> Seq(Packets)],
         SentBy(chan'[p], conn[Peer(p)]), SentBy(chan'[Peer(p)], d)
  PROVE  Net' /\ conn'[p] = d /\ conn'[Peer(p)] = conn[Peer(p)]
<1> DEFINE q == Peer(p)
<1>1. q \in Endpoint /\ q # p /\ Peer(q) = p /\ Endpoint = {p, q}
  BY Peers
<1>2. conn \in [Endpoint -> Connections] /\ Ready(p) /\ Ready(q)
  BY <1>1 DEF Net
<1> HIDE DEF q
<1>3. conn'[p] = d /\ conn'[q] = conn[q]
  BY <1>1, <1>2
<1>4. d \in Connections
  BY TalkTypes
<1>5. conn' \in [Endpoint -> Connections]
  BY <1>2, <1>4
<1>6. BytesFrom(p)' = BytesFrom(p) /\ BytesFrom(q)' = BytesFrom(q)
  BY DEF BytesFrom
<1>7. Ready(p)'
  <2>1. Paired(d, conn[q])
    BY DEF Talks, q
  <2> QED BY <1>1, <1>3, <1>6, <2>1 DEF Ready, Written, q
<1>8. Ready(q)'
  <2>1. Paired(conn[q], d)
    BY <1>1, <1>2, PeerPaired DEF Ready, q
  <2>2. Peer(q)' = p
    BY <1>1 DEF Peer
  <2> QED BY <1>1, <1>2, <1>3, <1>6, <2>1, <2>2 DEF Ready, Written, q
<1>9. reliable' \in BOOLEAN
  BY DEF Net
<1> QED BY <1>1, <1>3, <1>5, <1>7, <1>8, <1>9 DEF Net, q

(* p's connection becomes c, and what it has to send is sent.              *)
LEMMA CallKeeps ==
  ASSUME Net, NEW p \in Endpoint, NEW c, Talks(c, conn[Peer(p)]),
         Grows(conn[p].sender, c.sender), Progresses(conn[p].receiver, c.receiver),
         c.sender.stream.num_written <= BytesFrom(p),
         c.receiver.reassembler.output.num_read = Inbound(p).num_read,
         NEW rest, SentBy(rest, conn[Peer(p)]),
         Called(p, c, rest), UNCHANGED <<got, reliable>>
  PROVE  Step(p)
<1> DEFINE q == Peer(p)
           d == [c EXCEPT !.segments_out = <<>>]
           there == IF conn[q].active THEN chan[q] \o c.segments_out ELSE <<>>
           here == IF c.active THEN rest ELSE <<>>
<1>1. q \in Endpoint /\ q # p
  BY Peers
<1>2. chan \in [Endpoint -> Seq(Packets)]
  BY DEF Net
<1>3. Talks(conn[p], conn[q]) /\ SentBy(chan[p], conn[q]) /\ SentBy(chan[q], conn[p])
  BY Talking
<1>4. Talks(d, conn[q]) /\ d.sender = c.sender /\ d.receiver = c.receiver
  BY SentTalks
<1>5. conn' = [conn EXCEPT ![p] = d] /\ chan' = [chan EXCEPT ![p] = here, ![q] = there]
  BY DEF Called
<1> HIDE DEF q, d
<1>6. SentBy(there, c)
  <2>1. SentBy(chan[q], c)
    BY <1>3, SentByOn DEF q
  <2>2. SentBy(c.segments_out, c) /\ SentBy(<<>>, c)
    BY SentByQueue
  <2> QED BY <2>1, <2>2, SentByJoin
<1>7. SentBy(here, conn[q])
  <2>1. SentBy(<<>>, conn[q])
    BY DEF SentBy
  <2> QED BY <2>1 DEF q
<1>8. conn[q].active /\ chan[q] # <<>> => there # <<>>
  <2>1. chan[q] \in Seq(Packets) /\ c.segments_out \in Seq(Packets)
    BY <1>1, <1>2, TalkTypes
  <2> QED BY <2>1
<1> HIDE DEF here, there
<1>9. SentBy(there, d)
  BY <1>4, <1>6 DEF SentBy
<1>10. here \in Seq(Packets) /\ there \in Seq(Packets)
  BY <1>7, <1>9 DEF SentBy
<1>11. chan' \in [Endpoint -> Seq(Packets)] /\ chan'[p] = here /\ chan'[q] = there
  BY <1>1, <1>2, <1>5, <1>10
<1>12. Net' /\ conn'[p] = d /\ conn'[q] = conn[q]
  <2>1. d.sender.stream.num_written <= BytesFrom(p) /\ reliable' = reliable
    BY <1>4
  <2>2. SentBy(chan'[p], conn[Peer(p)]) /\ SentBy(chan'[Peer(p)], d)
    BY <1>7, <1>9, <1>11 DEF q
  <2> QED BY <1>4, <1>5, <1>11, <2>1, <2>2, StepKeeps, Zenon DEF q
<1>13. got' = got /\ (Got(p) => Got(p)')
  BY <1>4, <1>12 DEF Got, Inbound
<1> QED BY <1>8, <1>11, <1>12, <1>13 DEF Step, q

(* The same for a method that neither writes nor reads.                    *)
LEMMA AdvanceKeeps ==
  ASSUME Net, NEW p \in Endpoint, NEW c, Advances(conn[p], c, conn[Peer(p)]),
         NEW rest, SentBy(rest, conn[Peer(p)]),
         Called(p, c, rest), UNCHANGED <<got, reliable>>
  PROVE  Step(p)
<1>1. Written(p) <= BytesFrom(p)
  BY DEF Net, Ready
<1> QED BY <1>1, CallKeeps DEF Advances, Written, Inbound

(* The channel without its i-th segment. *)
LEMMA RemoveKeeps ==
  ASSUME NEW c, NEW ch, SentBy(ch, c), NEW i \in DOMAIN ch
  PROVE  SentBy(Without(ch, i), c) /\ InTransit(ch[i], c.sender, c.receiver)
<1>1. Len(ch) \in Nat /\ DOMAIN ch = 1 .. Len(ch)
  BY DEF SentBy
<1>2. /\ i \in 1 .. Len(ch) /\ i - 1 \in Nat /\ i - 1 <= Len(ch)
      /\ i + 1 \in Nat \ {0} /\ Len(ch) <= Len(ch)
  BY <1>1
<1>3. SentBy(SubSeq(ch, 1, i - 1), c) /\ SentBy(SubSeq(ch, i + 1, Len(ch)), c)
  BY <1>1, <1>2, SentByPart
<1> QED BY <1>2, <1>3, SentByJoin, Zenon DEF Without, SentBy

(* Rule 1: segment_received *)
LEMMA ReceiveStep ==
  ASSUME Net, NEW p \in Endpoint, NEW i \in DOMAIN chan[p], Receive(p, i)
  PROVE  Step(p)
<1> DEFINE e == conn[Peer(p)]
           c == segment_received(conn[p], chan[p][i])
<1>1. Talks(conn[p], e) /\ SentBy(chan[p], e)
  BY Talking
<1>2. SentBy(Without(chan[p], i), e) /\ InTransit(chan[p][i], e.sender, e.receiver)
  BY <1>1, RemoveKeeps
<1>3. Called(p, c, Without(chan[p], i)) /\ UNCHANGED <<got, reliable>>
  BY DEF Receive
<1>4. Advances(conn[p], c, e)
  BY <1>1, <1>2, SegmentReceivedAdvances
<1> HIDE DEF c
<1> QED BY <1>2, <1>3, <1>4, AdvanceKeeps

(* Rule 2: write *)
LEMMA WriteStep ==
  ASSUME Net, NEW p \in Endpoint, NEW n \in 1 .. Capacity, WriteApp(p, n)
  PROVE  Step(p)
<1> DEFINE e == conn[Peer(p)]
           c == conn[p]
           d == write_data(c, Substring(c.sender.stream.num_written, n))
<1>1. Talks(c, e) /\ SentBy(chan[p], e)
  BY Talking
<1>2. Called(p, d, chan[p]) /\ UNCHANGED <<got, reliable>>
  BY DEF WriteApp, Written
<1>3. /\ n \in Nat \ {0} /\ ~c.sender.stream.input_ended
      /\ n <= remaining_capacity(c.sender.stream)
      /\ c.sender.stream.num_written + n <= BytesFrom(p)
  BY ConnectionConstants DEF WriteApp, CanWrite, Written
<1>4. 2 * (c.sender.stream.num_written + n + 2) < Mod
  <2>1. c.sender.stream.num_written \in Nat
    BY <1>1, TalkTypes, SenderTypes
  <2>2. BytesFrom(p) \in Nat /\ 2 * (BytesFrom(p) + 2) < Mod /\ Mod \in Nat
    BY StreamsFit, ModAssumption DEF Net
  <2> QED BY ONLY <1>3, <2>1, <2>2
<1>5. /\ Talks(d, e) /\ Grows(c.sender, d.sender) /\ Progresses(c.receiver, d.receiver)
      /\ d.sender.stream.num_written = c.sender.stream.num_written + n
      /\ d.receiver.reassembler.output.num_read = c.receiver.reassembler.output.num_read
  <2>1. d = write_data(c, Substring(c.sender.stream.num_written, n))
    OBVIOUS
  <2> HIDE DEF c, d, e
  <2> QED BY ONLY <1>1, <1>3, <1>4, <2>1, WriteAdvances
<1> HIDE DEF d
<1> QED BY <1>1, <1>2, <1>3, <1>5, CallKeeps DEF Inbound

(* Rule 2: end_input_stream *)
LEMMA EndStep ==
  ASSUME Net, NEW p \in Endpoint, EndApp(p)
  PROVE  Step(p)
<1> DEFINE c == end_input_stream(conn[p])
<1>1. Talks(conn[p], conn[Peer(p)]) /\ SentBy(chan[p], conn[Peer(p)])
  BY Talking
<1>2. /\ Talks(c, conn[Peer(p)]) /\ Grows(conn[p].sender, c.sender)
      /\ Progresses(conn[p].receiver, c.receiver)
      /\ c.sender.stream.num_written = Written(p)
      /\ c.receiver.reassembler.output.num_read = Inbound(p).num_read
  BY <1>1, EndAdvances DEF Written, Inbound
<1>3. Called(p, c, chan[p]) /\ UNCHANGED <<got, reliable>>
  BY DEF EndApp
<1>4. Written(p) <= BytesFrom(p)
  BY DEF Net, Ready
<1> HIDE DEF c
<1> QED BY <1>1, <1>2, <1>3, <1>4, CallKeeps

(* _tcp_loop: tick *)
LEMMA TickStep ==
  ASSUME Net, NEW p \in Endpoint, Tick(p)
  PROVE  Step(p)
<1> DEFINE c == connection_tick(conn[p], 1)
<1>1. Talks(conn[p], conn[Peer(p)]) /\ SentBy(chan[p], conn[Peer(p)])
  BY Talking
<1>2. Advances(conn[p], c, conn[Peer(p)])
  BY <1>1, ConnectionTickAdvances
<1>3. Called(p, c, chan[p]) /\ UNCHANGED <<got, reliable>>
  BY DEF Tick
<1> HIDE DEF c
<1> QED BY <1>1, <1>2, <1>3, AdvanceKeeps

(* Rule 3: the application reads. *)
LEMMA ReadStep ==
  ASSUME Net, NEW p \in Endpoint, NEW n \in 1 .. Capacity, ReadApp(p, n)
  PROVE  Step(p)
<1> DEFINE c == conn[p]
           d == [c EXCEPT !.receiver.reassembler.output = pop_output(@, n)]
           q == Peer(p)
           x == c.receiver.reassembler
           y == d.receiver.reassembler
<1>1. Talks(c, conn[q]) /\ SentBy(chan[p], conn[q]) /\ SentBy(chan[q], c)
  BY Talking
<1>2. n \in Nat
  BY ConnectionConstants
<1>3. /\ Talks(d, conn[q]) /\ d.sender = c.sender /\ Progresses(c.receiver, d.receiver)
      /\ ReadEffect(x, y, Capacity, n)
  <2>1. d = [c EXCEPT !.receiver.reassembler.output = pop_output(@, n)]
    OBVIOUS
  <2> HIDE DEF c, d, q
  <2> QED BY <1>1, <1>2, <2>1, ReadAdvances, ZenonT(60)
<1>4. /\ conn \in [Endpoint -> Connections] /\ chan \in [Endpoint -> Seq(Packets)]
      /\ Written(p) <= BytesFrom(p)
  BY DEF Net, Ready
<1>5. conn' = [conn EXCEPT ![p] = d]
  BY <1>4 DEF ReadApp
<1>6. /\ chan' = chan /\ reliable' = reliable
      /\ got' = [got EXCEPT ![p] = got[p] \o peek_output(Inbound(p), n)]
  BY DEF ReadApp
<1> HIDE DEF d, q
<1>7. q \in Endpoint /\ q # p
  BY Peers DEF q
<1>8. Grows(c.sender, d.sender)
  BY <1>1, <1>3, TalkTypes, GrowsSelf
<1>9. SentBy(chan[q], d)
  BY <1>1, <1>3, <1>8, SentByOn
<1>10. Net' /\ conn'[p] = d /\ conn'[q] = conn[q]
  BY <1>1, <1>3, <1>4, <1>5, <1>6, <1>9, StepKeeps, ZenonT(60) DEF q, Written
<1>11. ASSUME DOMAIN got = Endpoint, Got(p)
       PROVE  DOMAIN got' = Endpoint /\ Got(p)' /\ got'[q] = got[q]
  <2>1. got[p] \o peek_output(Inbound(p), n) = Substring(0, y.output.num_read)
    BY <1>3, <1>11, ZenonT(60) DEF ReadEffect, Inbound, Got
  <2>2. got'[p] = Substring(0, y.output.num_read)
    BY <1>6, <1>11, <2>1
  <2> QED BY <1>6, <1>7, <1>10, <1>11, <2>2, Zenon DEF Got, Inbound
<1> QED BY <1>6, <1>10, <1>11 DEF Step, q

(* The network loses or duplicates a segment of the channel to p.          *)
LEMMA ChannelStep ==
  ASSUME Net, NEW p \in Endpoint, NEW ch, SentBy(ch, conn[Peer(p)]),
         chan' = [chan EXCEPT ![p] = ch], UNCHANGED <<conn, got, reliable>>
  PROVE  Step(p)
<1> DEFINE q == Peer(p)
<1>1. q \in Endpoint /\ q # p
  BY Peers
<1>2. /\ conn \in [Endpoint -> Connections] /\ chan \in [Endpoint -> Seq(Packets)]
      /\ Written(p) <= BytesFrom(p)
  BY DEF Net, Ready
<1>3. Talks(conn[p], conn[q]) /\ SentBy(chan[q], conn[p])
  BY Talking
<1>4. conn' = [conn EXCEPT ![p] = conn[p]]
  BY <1>2
<1>5. ch \in Seq(Packets)
  BY DEF SentBy
<1>6. chan' \in [Endpoint -> Seq(Packets)] /\ chan'[p] = ch /\ chan'[q] = chan[q]
  BY <1>1, <1>2, <1>5
<1> HIDE DEF q
<1>7. Net' /\ conn'[p] = conn[p] /\ conn'[q] = conn[q]
  BY <1>2, <1>3, <1>4, <1>6, StepKeeps, Zenon DEF q, Written
<1> QED BY <1>6, <1>7 DEF Step, Got, Inbound, q

(* The network loses a segment. *)
LEMMA LoseStep ==
  ASSUME Net, NEW p \in Endpoint, NEW i \in DOMAIN chan[p], Lose(p, i)
  PROVE  Step(p)
<1>1. SentBy(chan[p], conn[Peer(p)])
  BY Talking
<1>2. SentBy(Without(chan[p], i), conn[Peer(p)])
  BY <1>1, RemoveKeeps
<1> QED BY <1>2, ChannelStep, Zenon DEF Lose

(* The network duplicates a segment. *)
LEMMA DuplicateStep ==
  ASSUME Net, NEW p \in Endpoint, NEW i \in DOMAIN chan[p], Duplicate(p, i)
  PROVE  Step(p)
<1> DEFINE ch == chan[p]
           e == conn[Peer(p)]
<1>1. SentBy(ch, e)
  BY Talking
<1>2. InTransit(ch[i], e.sender, e.receiver)
  BY <1>1, RemoveKeeps
<1>3. SentBy(<<ch[i]>>, e)
  BY <1>2 DEF SentBy, InTransit
<1>4. SentBy(ch \o <<ch[i]>>, e)
  BY <1>1, <1>3, SentByJoin
<1>5. ch \o <<ch[i]>> = Append(ch, ch[i])
  BY <1>1, <1>3 DEF SentBy
<1> QED BY <1>4, <1>5, ChannelStep, Zenon DEF Duplicate

(* _abort: the connection is destroyed. *)
LEMMA AbortStep ==
  ASSUME Net, NEW p \in Endpoint, Abort(p)
  PROVE  Step(p)
<1> DEFINE q == Peer(p)
           c == destroy(conn[p])
           d == [c EXCEPT !.segments_out = <<>>]
<1>1. q \in Endpoint /\ q # p
  BY Peers
<1>2. /\ conn \in [Endpoint -> Connections] /\ chan \in [Endpoint -> Seq(Packets)]
      /\ Written(p) <= BytesFrom(p)
  BY DEF Net, Ready
<1>3. Talks(conn[p], conn[q]) /\ SentBy(chan[q], conn[p])
  BY Talking
<1>4. Advances(conn[p], c, conn[q])
  BY <1>3, DestroyAdvances
<1>5. conn' = [conn EXCEPT ![p] = d] /\ chan' = [chan EXCEPT ![p] = <<>>] /\ got' = got
      /\ reliable' = reliable
  BY DEF Abort
<1> HIDE DEF c, q
<1>6. Talks(c, conn[q])
  BY <1>4 DEF Advances
<1>7. Talks(d, conn[q]) /\ d.sender = c.sender /\ d.receiver = c.receiver
  BY <1>6, SentTalks
<1> HIDE DEF d
<1>8. SentBy(chan[q], d)
  BY <1>3, <1>4, <1>7, SentByOn DEF Advances
<1>9. <<>> \in Seq(Packets) /\ SentBy(<<>>, conn[q])
  BY DEF SentBy
<1>10. chan' \in [Endpoint -> Seq(Packets)] /\ chan'[p] = <<>> /\ chan'[q] = chan[q]
  BY <1>1, <1>2, <1>5, <1>9
<1>11. Net' /\ conn'[p] = d /\ conn'[q] = conn[q]
  BY <1>2, <1>4, <1>5, <1>7, <1>8, <1>9, <1>10, StepKeeps, Zenon DEF Advances, q, Written
<1>12. Inbound(p)'.num_read = Inbound(p).num_read
  BY <1>4, <1>7, <1>11 DEF Advances, Inbound
<1> QED BY <1>5, <1>10, <1>11, <1>12 DEF Step, Got, q

(* The client has connected, the server listens. *)
LEMMA InitReady ==
  ASSUME Init
  PROVE  IInv
<1> DEFINE new == NewConnection(RtTimeout, ClientIsn)
           server == NewConnection(RtTimeout, ServerIsn)
           c == connect(new)
           d == [c EXCEPT !.segments_out = <<>>]
<1>1. /\ conn = [p \in Endpoint |-> IF p = "client" THEN d ELSE server]
      /\ chan = [p \in Endpoint |-> IF p = "server" THEN c.segments_out ELSE <<>>]
      /\ got = [p \in Endpoint |-> <<>>] /\ reliable \in BOOLEAN
  BY DEF Init
<1>2. "client" \in Endpoint /\ "server" \in Endpoint /\ "client" # "server"
      /\ Peer("client") = "server" /\ Peer("server") = "client"
  BY DEF Endpoint, Peer
<1>3. 2 * 2 < Mod /\ BytesFrom("client") \in Nat /\ BytesFrom("server") \in Nat
  BY <1>1, <1>2, StreamsFit
<1>4. RtTimeout \in Nat /\ ClientIsn \in WrappingInt /\ ServerIsn \in WrappingInt
  BY EndpointConstants DEF RtTimeout
<1>5. Talks(new, server) /\ Talks(server, new)
  BY <1>3, <1>4, NewTalks
<1>6. Advances(new, c, server)
  BY <1>5, ConnectAdvances
<1>7. /\ new.sender.stream.num_written = 0 /\ new.receiver.reassembler.output.num_read = 0
      /\ server.sender.stream.num_written = 0
      /\ server.receiver.reassembler.output.num_read = 0
  BY DEF NewConnection, NewSender, NewReceiver, NewReassembler, NewByteStream
<1> HIDE DEF new, server, c
<1>8. Talks(c, server) /\ c.sender.stream.num_written = 0
      /\ c.receiver.reassembler.output.num_read = 0
  BY <1>6, <1>7 DEF Advances
<1>9. Talks(d, server) /\ d.sender = c.sender /\ d.receiver = c.receiver
  BY <1>8, SentTalks
<1> HIDE DEF d
<1>10. Paired(server, d)
  BY <1>5, <1>9, PeerPaired DEF Talks
<1>11. SentBy(c.segments_out, d) /\ SentBy(<<>>, server)
  <2>1. SentBy(c.segments_out, c)
    BY <1>8, SentByQueue
  <2>2. SentBy(<<>>, server)
    BY DEF SentBy
  <2> QED BY <1>9, <2>1, <2>2 DEF SentBy
<1>12. Substring(0, 0) = <<>>
  BY DEF Substring
<1>13. conn["client"] = d /\ conn["server"] = server /\ chan["client"] = <<>>
       /\ chan["server"] = c.segments_out /\ got["client"] = <<>> /\ got["server"] = <<>>
  BY <1>1, <1>2
<1>14. Ready("client") /\ Got("client")
  BY <1>2, <1>3, <1>8, <1>9, <1>11, <1>12, <1>13 DEF Ready, Got, Written, Inbound, Talks
<1>15. Ready("server") /\ Got("server")
  BY <1>2, <1>3, <1>7, <1>10, <1>11, <1>12, <1>13 DEF Ready, Got, Written, Inbound
<1>16. d \in Connections /\ server \in Connections
  BY <1>5, <1>9, TalkTypes
<1>17. c.segments_out \in Seq(Packets) /\ <<>> \in Seq(Packets)
  BY <1>8, TalkTypes
<1> QED BY <1>1, <1>14, <1>15, <1>16, <1>17 DEF IInv, Net, Endpoint

(* A step of p keeps the inductive invariant. *)
LEMMA StepReady ==
  ASSUME IInv, NEW p \in Endpoint, Step(p)
  PROVE  IInv'
<1>1. /\ Peer(p) \in Endpoint /\ Endpoint = {p, Peer(p)}
      /\ Got(p) /\ Got(Peer(p)) /\ DOMAIN got = Endpoint
  BY Peers DEF IInv
<1>2. DOMAIN got' = Endpoint /\ Got(p)'
  BY <1>1 DEF Step
<1>3. Got(Peer(p))'
  BY <1>1 DEF Step, Got, Inbound, Peer
<1> QED BY <1>1, <1>2, <1>3 DEF IInv, Step

(* No step of the endpoints, the applications or the network leaves the    *)
(* inductive invariant.                                                    *)
LEMMA NextReady ==
  ASSUME IInv, [Next]_vars
  PROVE  IInv'
<1>1. Net
  BY DEF IInv
<1>2. ASSUME NEW p \in Endpoint, Application(p)
      PROVE  Step(p)
  BY <1>1, <1>2, WriteStep, ReadStep, EndStep DEF Application
<1>3. CASE UNCHANGED vars
  BY <1>3 DEF vars, IInv, Net, Ready, Got, Written, Inbound, BytesFrom
<1>4. CASE Next
  <2>1. \E p \in Endpoint : Step(p)
    BY <1>1, <1>2, <1>4, ReceiveStep, LoseStep, DuplicateStep, TickStep, AbortStep DEF Next
  <2> QED BY <2>1, StepReady
<1> QED BY <1>3, <1>4

(* The invariant holds in every reachable state. *)
THEOREM Inductive == Spec => []IInv
<1>1. Init => IInv
  BY InitReady
<1>2. IInv /\ [Next]_vars => IInv'
  BY NextReady
<1> QED BY <1>1, <1>2, PTL DEF Spec

(* What an application gets, and what is buffered for it, is a prefix of   *)
(* what the other side wrote, whatever the network and the timers do.      *)
THEOREM Delivery == Spec => []DeliveredIsPrefix
<1>1. IInv => DeliveredIsPrefix
  <2> SUFFICES ASSUME IInv, NEW p \in Endpoint
               PROVE  /\ got[p] \o Inbound(p).buffer = Substring(0, Inbound(p).num_written)
                      /\ Inbound(p).num_written <= Written(Peer(p))
    BY Zenon DEF DeliveredIsPrefix
  <2>1. Link(conn[Peer(p)].sender, conn[p].receiver)
    BY Talking, TalkTypes DEF IInv
  <2>2. got[p] = Substring(0, Inbound(p).num_read)
    BY DEF IInv, Got
  <2> QED BY <2>1, <2>2, LinkDelivers, Zenon DEF Inbound, Written
<1> QED BY <1>1, Inductive, PTL

(* A receiver acknowledges only what was sent to it, and what it has not   *)
(* acknowledged the sender holds for retransmission.                       *)
THEOREM Acknowledgement == Spec => []AckedWasSent
<1>1. IInv => AckedWasSent
  <2> SUFFICES ASSUME IInv, NEW p \in Endpoint, has_ackno(conn[Peer(p)].receiver)
               PROVE  LET snd == conn[p].sender
                          rcv == conn[Peer(p)].receiver
                      IN  /\ abs_ackno(rcv) <= snd.next_seqno
                          /\ snd.next_seqno - snd.bytes_in_flight <= abs_ackno(rcv)
    BY DEF AckedWasSent
  <2>1. Link(conn[p].sender, conn[Peer(p)].receiver)
    BY Talking, TalkTypes DEF IInv
  <2> QED BY <2>1, LinkDelivers, Zenon DEF has_ackno
<1> QED BY <1>1, Inductive, PTL
=============================================================================
