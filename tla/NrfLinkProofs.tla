--------------------------- MODULE NrfLinkProofs ---------------------------
(***************************************************************************)
(* What the operators of NrfLink preserve, for every record h and every    *)
(* value of the constants: Good is the inductive invariant of a node, and  *)
(* there is one lemma per operator, "a good record stays good".  Modules   *)
(* that hold a link layer cite the lemmas of the calls they make.          *)
(***************************************************************************)
EXTENDS NrfLink, SequenceTheorems, TLAPS

(* A driver that is not open has no pipe in use and starts over.           *)
HalIdle(h) ==
    h.drv # "open" => h.state = "START_MGMT" /\ \A p \in Pipe : ~Allocated(h, p)

(* A connection is reported with the address of its initiator, so that the *)
(* access address which hal_comm_accept opens is never 0.                  *)
HalNamed(h) == h.mgmt_rx.evt = "connected" => h.mgmt_rx.mac # NoMac

Good(h) ==
    /\ HalType(h)
    /\ HalPipesAgree(h)
    /\ HalKeepaliveBounded(h)
    /\ HalFifoOfChannel(h)
    /\ HalNamed(h)
    /\ HalIdle(h)

(* Going from h to g a waiting event stays where it is.                    *)
SlotKept(h, g) == h.mgmt_rx # NoEvent => g.mgmt_rx = h.mgmt_rx

(* A step of running(): a waiting event stays and no pipe is opened.       *)
Steady(h, g) ==
    /\ SlotKept(h, g)
    /\ \A p \in Pipe : Allocated(g, p) => Allocated(h, p)

(* Going from h to g a pipe that was free has empty buffers and counters.  *)
Fresh(h, g) ==
    \A p \in Pipe : ~Allocated(h, p) /\ Allocated(g, p) =>
        /\ g.peers[p].rx = NoMac
        /\ g.peers[p].tx = NoMac
        /\ g.peers[p].keepalive = 0

(* A call: a waiting event stays or is taken, pipes it opens are fresh.    *)
Kept(h, g) ==
    /\ h.mgmt_rx # NoEvent => g.mgmt_rx \in {h.mgmt_rx, NoEvent}
    /\ Fresh(h, g)

(* A call that opens no pipe.                                              *)
Calm(h, g) ==
    /\ h.mgmt_rx # NoEvent => g.mgmt_rx \in {h.mgmt_rx, NoEvent}
    /\ \A p \in Pipe : Allocated(g, p) => Allocated(h, p)

---------------------------------------------------------------------------
(* A change of other fields than those that Good relates.                  *)
LEMMA Frame ==
    ASSUME NEW h, Good(h), NEW g, g \in Hal,
           g.drv = h.drv, g.bits = h.bits, g.open = h.open, g.state = h.state,
           g.chan = h.chan, g.mgmt_rx = h.mgmt_rx, g.fifo = h.fifo,
           \A p \in Pipe : /\ g.peers[p].pipe = h.peers[p].pipe
                           /\ g.peers[p].keepalive = h.peers[p].keepalive
    PROVE  Good(g)
<1>1. HalType(g)
  BY DEF Good, HalType
<1>2. HalPipesAgree(g) /\ HalIdle(g)
  BY DEF Good, HalPipesAgree, HalIdle, Allocated
<1>3. HalKeepaliveBounded(g)
  BY DEF Good, HalKeepaliveBounded
<1>4. HalFifoOfChannel(g) /\ HalNamed(g)
  BY DEF Good, HalFifoOfChannel, HalNamed
<1> QED BY <1>1, <1>2, <1>3, <1>4 DEF Good

(* Transmitting changes what is on the air only.                           *)
LEMMA SendGood ==
    ASSUME NEW h, Good(h), NEW pipe \in 0..N, NEW pdu \in PDU, NEW ok \in BOOLEAN
    PROVE  /\ Good(Send(h, pipe, pdu, ok))
           /\ Send(h, pipe, pdu, ok).drv = h.drv
<1> DEFINE s == [pipe |-> pipe, chan |-> h.chan, pdu |-> pdu, ok |-> ok]
           g == Send(h, pipe, pdu, ok)
<1>1. h \in Hal
  BY DEF Good, HalType
<1>2. Append(h.out, s) \in Seq(Sent)
  <2>1. s \in Sent
    BY <1>1 DEF Hal, Sent
  <2> QED BY <1>1, <2>1 DEF Hal
<1>3. g = [h EXCEPT !.out = Append(h.out, s), !.rxon = TRUE]
  BY DEF Send
<1> HIDE DEF s, g
<1>4. g \in Hal
  BY <1>1, <1>2, <1>3 DEF Hal
<1>5. /\ g.drv = h.drv /\ g.bits = h.bits /\ g.open = h.open /\ g.state = h.state
      /\ g.chan = h.chan /\ g.mgmt_rx = h.mgmt_rx /\ g.fifo = h.fifo
      /\ g.peers = h.peers
  BY <1>1, <1>3 DEF Hal
<1>6. Good(g)
  BY <1>4, <1>5, Frame
<1> QED BY <1>5, <1>6 DEF g

(* Giving a pipe up takes it out of all three records.                     *)
LEMMA FreePipeGood ==
    ASSUME NEW h, Good(h), NEW p \in Pipe
    PROVE  Good(FreePipe(h, p)) /\ FreePipe(h, p).drv = h.drv
<1> DEFINE peer == [h.peers[p] EXCEPT !.pipe = -1, !.keepalive = 0]
           g == FreePipe(h, p)
<1>1. h \in Hal
  BY DEF Good, HalType
<1>2. g = [h EXCEPT !.bits = h.bits \ {p}, !.peers = [h.peers EXCEPT ![p] = peer],
                    !.open = [h.open EXCEPT ![p] = NoAA], !.rxon = TRUE,
                    !.raw_for = (h.bits \ {p}) \ {0}]
  <2> DEFINE f == [h EXCEPT !.bits = h.bits \ {p}, !.peers[p].pipe = -1,
                            !.peers[p].keepalive = 0]
  <2>1. f = [h EXCEPT !.bits = h.bits \ {p}, !.peers = [h.peers EXCEPT ![p] = peer]]
    <3>1. h.peers \in [Pipe -> Peer]
      BY <1>1 DEF Hal
    <3>2. [[h.peers EXCEPT ![p].pipe = -1] EXCEPT ![p].keepalive = 0]
            = [h.peers EXCEPT ![p] = peer]
      BY <3>1
    <3> QED BY <1>1, <3>1, <3>2 DEF Hal
  <2>2. g = NewRawTime(ResetPipe(f, p))
    BY DEF FreePipe
  <2> HIDE DEF f, g, peer
  <2>3. f.open = h.open /\ f.bits = h.bits \ {p}
    BY <1>1, <2>1 DEF Hal
  <2> QED BY <1>1, <2>1, <2>2, <2>3 DEF NewRawTime, ResetPipe, RawPipes, Hal
<1>3. peer \in Peer
  <2>1. h.peers[p] \in Peer
    BY <1>1 DEF Hal
  <2> QED BY <2>1 DEF Peer
<1>4. /\ NoAA \in AA
      /\ (h.bits \ {p}) \in SUBSET (0..N)
      /\ ((h.bits \ {p}) \ {0}) \in SUBSET Pipe
  <2>1. h.bits \in SUBSET (0..N)
    BY <1>1 DEF Hal
  <2>2. NoAA \in AA
    BY DEF AA, NoAA, MacOrNone
  <2> QED BY <2>1, <2>2, NAssumption DEF Pipe
<1>5. /\ [h.peers EXCEPT ![p] = peer] \in [Pipe -> Peer]
      /\ [h.open EXCEPT ![p] = NoAA] \in [Pipe -> AA]
  BY <1>1, <1>3, <1>4 DEF Hal
<1>6. peer.pipe = -1 /\ peer.keepalive = 0
  BY <1>1 DEF Hal, Peer
<1> HIDE DEF peer, g
<1>7. g \in Hal
  BY <1>1, <1>2, <1>4, <1>5 DEF Hal
<1>8. /\ g.drv = h.drv /\ g.state = h.state
      /\ g.chan = h.chan /\ g.mgmt_rx = h.mgmt_rx /\ g.fifo = h.fifo
      /\ g.bits = h.bits \ {p}
      /\ g.peers = [h.peers EXCEPT ![p] = peer]
      /\ g.open = [h.open EXCEPT ![p] = NoAA]
  BY <1>1, <1>2 DEF Hal
<1>9. h.peers \in [Pipe -> Peer] /\ h.open \in [Pipe -> AA]
  BY <1>1 DEF Hal
<1>10. HalType(g) /\ HalFifoOfChannel(g) /\ HalNamed(g)
  BY <1>7, <1>8 DEF Good, HalType, HalFifoOfChannel, HalNamed
<1>11. HalPipesAgree(g)
  BY <1>6, <1>8, <1>9, NAssumption DEF Good, HalPipesAgree, Allocated, Pipe
<1>12. HalKeepaliveBounded(g)
  BY <1>6, <1>8, <1>9, TimeoutAssumption DEF Good, HalKeepaliveBounded
<1>13. HalIdle(g)
  BY <1>6, <1>8, <1>9 DEF Good, HalIdle, Allocated
<1>14. Good(g)
  BY <1>10, <1>11, <1>12, <1>13 DEF Good
<1> QED BY <1>8, <1>14 DEF g

(* Allocating a free pipe and opening it in the radio enters it in all     *)
(* three records.                                                          *)
LEMMA OpenPipeGood ==
    ASSUME NEW h, Good(h), h.drv = "open", NEW p \in FirstFree(h),
           NEW aa \in AA, aa # NoAA
    PROVE  LET g == SetPipe(AllocPipe(h, p), p, aa)
           IN  /\ Good(g)
               /\ g.drv = "open" /\ g.mgmt_rx = h.mgmt_rx
               /\ p \in Pipe
               /\ g.peers[p].rx = NoMac /\ g.peers[p].tx = NoMac
               /\ g.peers[p].keepalive = 0
               /\ \A q \in Pipe : q # p => g.peers[q] = h.peers[q]
<1> DEFINE peer == [FreePeer EXCEPT !.pipe = p]
           f == AllocPipe(h, p)
           new == IF f.open[p] = NoAA THEN aa ELSE f.open[p]
           g == SetPipe(f, p, aa)
<1>1. h \in Hal /\ p \in Pipe
  BY DEF Good, HalType, FirstFree
<1>2. peer \in Peer /\ peer.pipe = p /\ peer.keepalive = 0
        /\ peer.rx = NoMac /\ peer.tx = NoMac
  BY <1>1, TimeoutAssumption DEF Peer, FreePeer, MacOrNone
<1>3. f = [h EXCEPT !.peers = [h.peers EXCEPT ![p] = peer], !.bits = h.bits \cup {p}]
  BY <1>1 DEF AllocPipe, Hal
<1> HIDE DEF peer, f
<1>4. f.open = h.open
  BY <1>1, <1>3 DEF Hal
<1>5. new \in AA /\ new # NoAA
  BY <1>1, <1>4 DEF Hal
<1>6. g = [h EXCEPT !.peers = [h.peers EXCEPT ![p] = peer], !.bits = h.bits \cup {p},
                    !.open = [h.open EXCEPT ![p] = new], !.rxon = TRUE]
  BY <1>1, <1>3, <1>4 DEF SetPipe, Hal
<1>7. /\ [h.peers EXCEPT ![p] = peer] \in [Pipe -> Peer]
      /\ [h.open EXCEPT ![p] = new] \in [Pipe -> AA]
      /\ h.peers \in [Pipe -> Peer] /\ h.open \in [Pipe -> AA]
  BY <1>1, <1>2, <1>5 DEF Hal
<1>8. (h.bits \cup {p}) \in SUBSET (0..N)
  <2>1. h.bits \in SUBSET (0..N)
    BY <1>1 DEF Hal
  <2> QED BY <1>1, <2>1, NAssumption DEF Pipe
<1> HIDE DEF new, g
<1>9. g \in Hal
  BY <1>1, <1>6, <1>7, <1>8 DEF Hal
<1>10. /\ g.drv = h.drv /\ g.state = h.state
       /\ g.chan = h.chan /\ g.mgmt_rx = h.mgmt_rx /\ g.fifo = h.fifo
       /\ g.bits = h.bits \cup {p}
       /\ g.peers = [h.peers EXCEPT ![p] = peer]
       /\ g.open = [h.open EXCEPT ![p] = new]
  BY <1>1, <1>6 DEF Hal
<1>11. HalType(g) /\ HalFifoOfChannel(g) /\ HalNamed(g) /\ HalIdle(g)
  BY <1>9, <1>10 DEF Good, HalType, HalFifoOfChannel, HalNamed, HalIdle
<1>12. HalPipesAgree(g)
  BY <1>1, <1>2, <1>5, <1>7, <1>10, NAssumption DEF Good, HalPipesAgree, Allocated, Pipe
<1>13. HalKeepaliveBounded(g)
  BY <1>2, <1>7, <1>10, TimeoutAssumption DEF Good, HalKeepaliveBounded
<1>14. Good(g)
  BY <1>11, <1>12, <1>13 DEF Good
<1>15. g.peers[p] = peer /\ \A q \in Pipe : q # p => g.peers[q] = h.peers[q]
  BY <1>1, <1>7, <1>10
<1> QED BY <1>1, <1>2, <1>10, <1>14, <1>15 DEF g, f

---------------------------------------------------------------------------
(* Hopping: the FIFO is empty after it, or the channel is the same.        *)
LEMMA HopGood ==
    ASSUME NEW h, Good(h), h.drv = "open",
           NEW chan \in {"mgmt", "raw"}, NEW st \in {"MGMT", "RAW"},
           st = "MGMT" <=> chan = "mgmt"
    PROVE  LET g == [SetChannel(h, chan) EXCEPT !.win = FALSE, !.state = st]
           IN  Good(g) /\ g.drv = h.drv
<1> DEFINE q == IF h.chan = chan THEN h.fifo ELSE <<>>
           g == [SetChannel(h, chan) EXCEPT !.win = FALSE, !.state = st]
<1>1. h \in Hal /\ Len(h.fifo) <= FifoDepth
  BY DEF Good, HalType
<1>2. g = [h EXCEPT !.fifo = q, !.chan = chan, !.rxon = TRUE, !.win = FALSE, !.state = st]
  BY <1>1 DEF SetChannel, Hal
<1>3. q \in Seq(Received) /\ Len(q) <= FifoDepth
  BY <1>1, FifoAssumption DEF Hal
<1>4. st \in RunState
  BY DEF RunState
<1>5. /\ h.chan = chan => q = h.fifo
      /\ h.chan # chan => q = <<>>
  OBVIOUS
<1> HIDE DEF q, g
<1>6. g \in Hal
  BY <1>1, <1>2, <1>3, <1>4 DEF Hal
<1>7. /\ g.drv = h.drv /\ g.bits = h.bits /\ g.open = h.open /\ g.peers = h.peers
      /\ g.mgmt_rx = h.mgmt_rx /\ g.fifo = q /\ g.chan = chan /\ g.state = st
  BY <1>1, <1>2 DEF Hal
<1>8. HalType(g) /\ HalNamed(g) /\ HalIdle(g) /\ HalKeepaliveBounded(g)
  BY <1>3, <1>6, <1>7 DEF Good, HalType, HalNamed, HalIdle, HalKeepaliveBounded
<1>9. HalPipesAgree(g)
  BY <1>7 DEF Good, HalPipesAgree, Allocated
<1>10. HalFifoOfChannel(g)
  BY <1>5, <1>7 DEF Good, HalFifoOfChannel
<1>11. Good(g)
  BY <1>8, <1>9, <1>10 DEF Good
<1> QED BY <1>7, <1>11 DEF g

(* START_MGMT and START_RAW.                                               *)
LEMMA StartGood ==
    ASSUME NEW h, Good(h), h.drv = "open"
    PROVE  /\ Good(StartMgmt(h)) /\ StartMgmt(h).drv = h.drv
           /\ Good(StartRaw(h)) /\ StartRaw(h).drv = h.drv
  BY HopGood DEF StartMgmt, StartRaw

---------------------------------------------------------------------------
(* A packet fewer in the FIFO and another event in the slot.               *)
LEMMA ConsumeGood ==
    ASSUME NEW h, Good(h), NEW q \in Seq(Received), NEW e \in Event,
           Len(q) <= Len(h.fifo),
           \A i \in 1..Len(q) : \E j \in 1..Len(h.fifo) : q[i] = h.fifo[j],
           e.evt = "connected" => e.mac # NoMac
    PROVE  LET g == [h EXCEPT !.fifo = q, !.mgmt_rx = e]
           IN  Good(g) /\ g.drv = h.drv
<1> DEFINE g == [h EXCEPT !.fifo = q, !.mgmt_rx = e]
<1>1. h \in Hal /\ Len(h.fifo) <= FifoDepth
  BY DEF Good, HalType
<1>2. g \in Hal
  BY <1>1 DEF Hal
<1>3. /\ g.drv = h.drv /\ g.bits = h.bits /\ g.open = h.open /\ g.peers = h.peers
      /\ g.mgmt_rx = e /\ g.fifo = q /\ g.chan = h.chan /\ g.state = h.state
  BY <1>1 DEF Hal
<1>4. h.fifo \in Seq(Received)
  BY <1>1 DEF Hal
<1> HIDE DEF g
<1>5. HalType(g)
  BY <1>1, <1>2, <1>3, <1>4, FifoAssumption DEF HalType
<1>6. HalNamed(g) /\ HalIdle(g) /\ HalKeepaliveBounded(g) /\ HalPipesAgree(g)
  BY <1>3 DEF Good, HalNamed, HalIdle, HalKeepaliveBounded, HalPipesAgree, Allocated
<1>7. HalFifoOfChannel(g)
  BY <1>3, <1>4 DEF Good, HalFifoOfChannel
<1>8. Good(g)
  BY <1>5, <1>6, <1>7 DEF Good
<1> QED BY <1>3, <1>8 DEF g

(* read_mgmt.                                                              *)
LEMMA ReadMgmtGood ==
    ASSUME NEW h, Good(h)
    PROVE  Good(ReadMgmt(h)) /\ ReadMgmt(h).drv = h.drv
<1>1. CASE h.fifo = <<>> \/ Head(h.fifo).pipe # 0
  BY <1>1 DEF ReadMgmt
<1>2. CASE ~(h.fifo = <<>> \/ Head(h.fifo).pipe # 0)
  <2> DEFINE pdu == Head(h.fifo).pdu
             event == CASE pdu.type = "presence" /\ ~h.listen ->
                             Evt("presence", pdu.src, 0)
                        [] pdu.type = "connect_req" /\ pdu.dst = h.mac ->
                             Evt("connected", pdu.src, pdu.idx)
                        [] OTHER -> NoEvent
             e == IF h.mgmt_rx = NoEvent THEN event ELSE h.mgmt_rx
  <2>1. h \in Hal /\ h.fifo \in Seq(Received) /\ h.mgmt_rx \in Event
    BY DEF Good, HalType, Hal
  <2>2. Head(h.fifo) \in Received
    BY <1>2, <2>1
  <2>3. pdu.src \in Mac /\ pdu.idx \in Nat
    BY <2>2 DEF Received
  <2>4. event \in Event /\ (event.evt = "connected" => event.mac # NoMac)
    BY <2>3, MacAssumption DEF Event, Evt, NoEvent, MacOrNone
  <2>5. ReadMgmt(h) = [h EXCEPT !.fifo = Tail(h.fifo), !.mgmt_rx = e]
    BY <1>2 DEF ReadMgmt
  <2> HIDE DEF event, pdu
  <2>6. e \in Event /\ (e.evt = "connected" => e.mac # NoMac)
    BY <2>1, <2>4 DEF Good, HalNamed
  <2>7. /\ Tail(h.fifo) \in Seq(Received)
        /\ Len(Tail(h.fifo)) <= Len(h.fifo)
        /\ \A i \in 1..Len(Tail(h.fifo)) :
              \E j \in 1..Len(h.fifo) : Tail(h.fifo)[i] = h.fifo[j]
    <3>1. Len(Tail(h.fifo)) = Len(h.fifo) - 1 /\ Tail(h.fifo) \in Seq(Received)
      BY <1>2, <2>1
    <3>2. \A i \in 1..Len(Tail(h.fifo)) :
              i + 1 \in 1..Len(h.fifo) /\ Tail(h.fifo)[i] = h.fifo[i + 1]
      <4>1. Len(h.fifo) \in Nat
        BY <2>1
      <4>2. Len(Tail(h.fifo)) = Len(h.fifo) - 1
              /\ \A i \in 1..Len(Tail(h.fifo)) : Tail(h.fifo)[i] = h.fifo[i + 1]
        BY <1>2, <2>1, HeadTailProperties
      <4> QED BY <4>1, <4>2
    <3>3. Len(h.fifo) \in Nat
      BY <2>1
    <3> QED BY <3>1, <3>2, <3>3
  <2> DEFINE q == Tail(h.fifo)
  <2> HIDE DEF e, q
  <2>8. /\ q \in Seq(Received) /\ Len(q) <= Len(h.fifo)
        /\ \A i \in 1..Len(q) : \E j \in 1..Len(h.fifo) : q[i] = h.fifo[j]
    BY <2>7, Zenon DEF q
  <2>9. /\ Good([h EXCEPT !.fifo = q, !.mgmt_rx = e])
        /\ [h EXCEPT !.fifo = q, !.mgmt_rx = e].drv = h.drv
    BY <2>6, <2>8, ConsumeGood, Zenon
  <2> QED BY <2>5, <2>9 DEF q
<1> QED BY <1>1, <1>2

(* write_mgmt.                                                             *)
LEMMA WriteMgmtGood ==
    ASSUME NEW h, Good(h)
    PROVE  Good(WriteMgmt(h)) /\ WriteMgmt(h).drv = h.drv
<1>1. CASE h.mgmt_tx = NoRequest
  BY <1>1 DEF WriteMgmt
<1>2. CASE h.mgmt_tx # NoRequest
  <2> DEFINE pdu == Pdu("connect_req", h.mac, h.mgmt_tx.dst, h.mgmt_tx.idx)
             f == Send(h, 0, pdu, TRUE)
             g == [f EXCEPT !.mgmt_tx = NoRequest]
  <2>1. pdu \in PDU
    <3>1. h.mac \in MacOrNone /\ h.mgmt_tx \in Request
      BY DEF Good, HalType, Hal
    <3> QED BY <3>1 DEF PDU, Pdu, MgmtType, Request
  <2>2. WriteMgmt(h) = g
    BY <1>2 DEF WriteMgmt
  <2> HIDE DEF pdu
  <2>3. Good(f) /\ f.drv = h.drv
    <3>1. 0 \in 0..N
      BY NAssumption
    <3> QED BY <2>1, <3>1, SendGood, Zenon
  <2> HIDE DEF f
  <2>4. f \in Hal /\ NoRequest \in Request
    BY <2>3 DEF Good, HalType, Request, NoRequest, MacOrNone
  <2>5. g \in Hal
    BY <2>4 DEF Hal
  <2>6. /\ g.drv = f.drv /\ g.bits = f.bits /\ g.open = f.open /\ g.state = f.state
        /\ g.chan = f.chan /\ g.mgmt_rx = f.mgmt_rx /\ g.fifo = f.fifo
        /\ g.peers = f.peers
    BY <2>4 DEF Hal
  <2> HIDE DEF g
  <2>7. Good(g)
    BY <2>3, <2>5, <2>6, Frame
  <2> QED BY <2>2, <2>3, <2>6, <2>7
<1> QED BY <1>1, <1>2

(* presence_connect.                                                       *)
LEMMA PresenceConnectGood ==
    ASSUME NEW h, Good(h)
    PROVE  Good(PresenceConnect(h)) /\ PresenceConnect(h).drv = h.drv
<1> DEFINE pdu == Pdu("presence", h.mac, NoMac, 0)
           s == Send(h, 0, pdu, TRUE)
<1>1. pdu \in PDU
  <2>1. h.mac \in MacOrNone
    BY DEF Good, HalType, Hal
  <2> QED BY <2>1 DEF PDU, Pdu, MgmtType, MacOrNone
<1> HIDE DEF pdu
<1>2. Good(s) /\ s.drv = h.drv
  <2>1. 0 \in 0..N
    BY NAssumption
  <2> QED BY <1>1, <2>1, SendGood, Zenon
<1> HIDE DEF s
<1>3. h \in Hal /\ s \in Hal
  BY <1>2 DEF Good, HalType
<1> DEFINE g == PresenceConnect(h)
           Framed(f) == /\ f \in Hal
                        /\ f.drv = h.drv /\ f.bits = h.bits /\ f.open = h.open
                        /\ f.state = h.state /\ f.chan = h.chan
                        /\ f.mgmt_rx = h.mgmt_rx /\ f.fifo = h.fifo
                        /\ f.peers = h.peers
<1>4. Framed(h) /\ Framed(s)
  BY <1>3 DEF Hal, s, Send
<1>5. Framed(g)
  <2> HIDE DEF g
  <2>1. ASSUME NEW f, Framed(f), NEW b \in 0..2, NEW x \in BcastState, NEW r \in BOOLEAN
        PROVE  /\ Framed([f EXCEPT !.btime = b, !.pstate = x])
               /\ Framed([f EXCEPT !.pstate = x, !.prev = "BURST_WINDOW"])
               /\ Framed([f EXCEPT !.pstate = x, !.prev = "TIMEOUT_INTERVAL"])
               /\ Framed([f EXCEPT !.rxon = r, !.pstate = x])
    <3>1. Framed([f EXCEPT !.btime = b, !.pstate = x])
      BY <2>1 DEF Hal
    <3>2. Framed([f EXCEPT !.pstate = x, !.prev = "BURST_WINDOW"])
      BY <2>1 DEF Hal, BcastState
    <3>3. Framed([f EXCEPT !.pstate = x, !.prev = "TIMEOUT_INTERVAL"])
      BY <2>1 DEF Hal, BcastState
    <3>4. Framed([f EXCEPT !.rxon = r, !.pstate = x])
      BY <2>1 DEF Hal
    <3> QED BY <3>1, <3>2, <3>3, <3>4
  <2>2. h.btime \in 0..2 /\ s.btime \in 0..2 /\ h.pstate \in BcastState
    BY <1>3 DEF Hal
  <2>3. CASE h.pstate = "PRESENCE" /\ h.mac # NoMac
    <3> DEFINE b == IF s.prev = "TIMEOUT_INTERVAL" THEN 0 ELSE s.btime
    <3>1. g = [s EXCEPT !.btime = b, !.pstate = "BURST_WINDOW"]
      BY <1>3, <2>3 DEF g, PresenceConnect, Hal, s, pdu, Send
    <3>2. b \in 0..2 /\ "BURST_WINDOW" \in BcastState
      BY <2>2 DEF BcastState
    <3> HIDE DEF Framed, b
    <3> QED BY <1>4, <2>1, <3>1, <3>2
  <2>4. CASE h.pstate = "BURST_WINDOW"
    <3>1. g = [h EXCEPT !.pstate = IF h.btime >= 1 THEN "STANDBY" ELSE h.pstate,
                        !.prev = "BURST_WINDOW"]
      BY <2>4 DEF g, PresenceConnect
    <3> HIDE DEF Framed
    <3> QED BY <1>4, <2>1, <2>2, <3>1 DEF BcastState
  <2>5. CASE h.pstate = "STANDBY"
    <3>1. g = [h EXCEPT !.rxon = FALSE, !.pstate = "TIMEOUT_INTERVAL"]
      BY <2>5 DEF g, PresenceConnect
    <3> HIDE DEF Framed
    <3> QED BY <1>4, <2>1, <2>2, <3>1 DEF BcastState
  <2>6. CASE h.pstate = "TIMEOUT_INTERVAL"
    <3>1. g = [h EXCEPT !.pstate = IF BeaconDue(h) THEN "PRESENCE" ELSE h.pstate,
                        !.prev = "TIMEOUT_INTERVAL"]
      BY <2>6 DEF g, PresenceConnect
    <3> HIDE DEF Framed
    <3> QED BY <1>4, <2>1, <2>2, <3>1 DEF BcastState
  <2>7. CASE h.pstate = "PRESENCE" /\ h.mac = NoMac
    BY <1>4, <2>7 DEF g, PresenceConnect
  <2> QED BY <2>2, <2>3, <2>4, <2>5, <2>6, <2>7 DEF BcastState
<1> HIDE DEF g
<1>6. Good(g)
  BY <1>5, Frame
<1> QED BY <1>5, <1>6 DEF g

(* The MGMT state of running().                                            *)
LEMMA RunMgmtGood ==
    ASSUME NEW h, Good(h), h.state = "MGMT"
    PROVE  Good(RunMgmt(h)) /\ RunMgmt(h).drv = h.drv
<1> DEFINE w == WriteMgmt(ReadMgmt(h))
           g == IF h.listen THEN PresenceConnect(w) ELSE w
           f == [g EXCEPT !.state = "START_RAW"]
<1>1. Good(w) /\ w.drv = h.drv
  BY ReadMgmtGood, WriteMgmtGood
<1>2. Good(g) /\ g.drv = h.drv
  BY <1>1, PresenceConnectGood
<1>3. w.state = "MGMT" /\ g.state = "MGMT"
  <2>1. h \in Hal
    BY DEF Good, HalType
  <2>2. ReadMgmt(h).state = h.state /\ ReadMgmt(h) \in Hal
    <3>1. ReadMgmt(h) \in Hal
      BY ReadMgmtGood DEF Good, HalType
    <3>2. ReadMgmt(h).state = h.state
      BY <2>1 DEF ReadMgmt, Hal
    <3> QED BY <3>1, <3>2
  <2>3. w.state = h.state
    BY <2>2 DEF WriteMgmt, Send, Hal
  <2>4. w \in Hal
    BY <1>1 DEF Good, HalType
  <2> HIDE DEF w
  <2>5. PresenceConnect(w).state = w.state
    BY <2>4 DEF PresenceConnect, Send, Hal
  <2> QED BY <2>3, <2>5
<1>4. RunMgmt(h) \in {f, g}
  BY DEF RunMgmt
<1> HIDE DEF w, g
<1>5. Good(f) /\ f.drv = g.drv
  <2>1. g \in Hal
    BY <1>2 DEF Good, HalType
  <2>2. f \in Hal
    BY <2>1 DEF Hal, RunState
  <2>3. /\ f.drv = g.drv /\ f.bits = g.bits /\ f.open = g.open /\ f.state = "START_RAW"
        /\ f.chan = g.chan /\ f.mgmt_rx = g.mgmt_rx /\ f.fifo = g.fifo
        /\ f.peers = g.peers
    BY <2>1 DEF Hal
  <2> HIDE DEF f
  <2>4. HalType(f) /\ HalNamed(f) /\ HalKeepaliveBounded(f) /\ HalPipesAgree(f)
    BY <1>2, <2>2, <2>3
       DEF Good, HalType, HalNamed, HalKeepaliveBounded, HalPipesAgree, Allocated
  <2>5. HalFifoOfChannel(f) /\ HalIdle(f)
    BY <1>2, <1>3, <2>3 DEF Good, HalFifoOfChannel, HalIdle
  <2> QED BY <2>3, <2>4, <2>5 DEF Good
<1> QED BY <1>2, <1>4, <1>5

---------------------------------------------------------------------------
(* Another content of a peer, its pipe the same and its keepalive counter  *)
(* within bounds.                                                          *)
LEMMA PeerGood ==
    ASSUME NEW h, Good(h), NEW s \in Pipe, NEW peer \in Peer,
           peer.pipe = h.peers[s].pipe, peer.keepalive <= KeepaliveTimeout,
           ~Gateway => peer.keepalive = 0
    PROVE  LET g == [h EXCEPT !.peers = [h.peers EXCEPT ![s] = peer]]
           IN  Good(g) /\ g.drv = h.drv
<1> DEFINE g == [h EXCEPT !.peers = [h.peers EXCEPT ![s] = peer]]
<1>1. h \in Hal /\ h.peers \in [Pipe -> Peer]
  BY DEF Good, HalType, Hal
<1>2. [h.peers EXCEPT ![s] = peer] \in [Pipe -> Peer]
  BY <1>1
<1>3. g \in Hal
  BY <1>1, <1>2 DEF Hal
<1>4. /\ g.drv = h.drv /\ g.bits = h.bits /\ g.open = h.open /\ g.state = h.state
      /\ g.chan = h.chan /\ g.mgmt_rx = h.mgmt_rx /\ g.fifo = h.fifo
      /\ g.peers = [h.peers EXCEPT ![s] = peer]
  BY <1>1 DEF Hal
<1> HIDE DEF g
<1>5. \A p \in Pipe : g.peers[p] = IF p = s THEN peer ELSE h.peers[p]
  BY <1>1, <1>4
<1>6. HalType(g) /\ HalFifoOfChannel(g) /\ HalNamed(g)
  BY <1>3, <1>4 DEF Good, HalType, HalFifoOfChannel, HalNamed
<1>7. HalPipesAgree(g) /\ HalIdle(g)
  BY <1>4, <1>5 DEF Good, HalPipesAgree, HalIdle, Allocated
<1>8. HalKeepaliveBounded(g)
  BY <1>5 DEF Good, HalKeepaliveBounded
<1>9. Good(g)
  BY <1>6, <1>7, <1>8 DEF Good
<1> QED BY <1>4, <1>9 DEF g

(* One drain of the FIFO by read_raw.                                      *)
LEMMA DrainGood ==
    ASSUME NEW h, Good(h), NEW s \in Pipe, NEW k \in 0..Len(h.fifo), NEW ok \in BOOLEAN
    PROVE  Good(Drain(h, s, k, ok)) /\ Drain(h, s, k, ok).drv = h.drv
<1> DEFINE q == h.fifo
           peer == h.peers[s]
           source(type) == q[CHOOSE i \in FirstOf(q, k, type) : TRUE].pdu.src
           alive == \E i \in 1..k : q[i].pdu.type \in {"ka_rsp", "data"}
           asked == \E i \in 1..k : q[i].pdu = Pdu("ka_req", peer.mac, h.mac, 0)
           rx == IF peer.rx = NoMac /\ FirstOf(q, k, "data") # {}
                 THEN source("data") ELSE peer.rx
           event == IF h.mgmt_rx = NoEvent /\ FirstOf(q, k, "disconnect") # {}
                    THEN Evt("disconnected", source("disconnect"), 0) ELSE h.mgmt_rx
           keepalive == IF alive /\ peer.keepalive # 0 THEN 1 ELSE peer.keepalive
           served == IF k = 0 THEN peer
                     ELSE [peer EXCEPT !.rx = rx, !.age = 0, !.keepalive = keepalive]
           answer == Pdu("ka_rsp", h.mac, peer.mac, 0)
           f == IF asked THEN Send(h, s, answer, ok) ELSE h
           rest == SubSeq(q, k + 1, Len(q))
           x == [f EXCEPT !.fifo = rest, !.mgmt_rx = event]
<1>1. h \in Hal /\ peer \in Peer /\ q \in Seq(Received) /\ h.mac \in MacOrNone
        /\ h.mgmt_rx \in Event
  BY DEF Good, HalType, Hal
<1>2. Drain(h, s, k, ok) =
        [f EXCEPT !.fifo = rest, !.mgmt_rx = event, !.peers[s] = served]
  BY Zenon DEF Drain, WriteKeepalive
<1>3. ASSUME NEW type, FirstOf(q, k, type) # {}
      PROVE  source(type) \in Mac
  <2> DEFINE i == CHOOSE i \in FirstOf(q, k, type) : TRUE
  <2>1. i \in FirstOf(q, k, type)
    BY <1>3
  <2> HIDE DEF i
  <2>2. i \in 1..k
    BY <2>1 DEF FirstOf
  <2>3. i \in 1..Len(q)
    BY <1>1, <2>2
  <2>4. q[i] \in Received
    BY <1>1, <2>3
  <2>5. q[i].pdu.src \in Mac
    BY <2>4 DEF Received
  <2> QED BY <2>5 DEF i
<1> HIDE DEF source
<1>4. rx \in MacOrNone
  BY <1>1, <1>3 DEF Peer, MacOrNone
<1>5. event \in Event /\ (event.evt = "connected" => event.mac # NoMac)
  BY <1>1, <1>3 DEF Event, Evt, MacOrNone, Good, HalNamed
<1>6. /\ keepalive \in Nat /\ keepalive <= KeepaliveTimeout /\ (~Gateway => keepalive = 0)
      /\ peer.keepalive <= KeepaliveTimeout /\ (~Gateway => peer.keepalive = 0)
  BY <1>1, TimeoutAssumption DEF Good, HalKeepaliveBounded, Peer
<1>7. rest \in Seq(Received) /\ Len(rest) <= Len(q)
        /\ \A i \in 1..Len(rest) : \E j \in 1..Len(q) : rest[i] = q[j]
  <2>1. Len(q) \in Nat /\ k \in Nat /\ k <= Len(q)
    BY <1>1
  <2>2. /\ rest \in Seq(Received)
        /\ Len(rest) = Len(q) - k
        /\ \A i \in 1..Len(rest) : rest[i] = q[k + i]
    BY <1>1, <2>1
  <2> HIDE DEF rest, q
  <2>3. \A i \in 1..Len(rest) : k + i \in 1..Len(q)
    BY <2>1, <2>2
  <2>4. \A i \in 1..Len(rest) : \E j \in 1..Len(q) : rest[i] = q[j]
    BY <2>2, <2>3
  <2> QED BY <2>1, <2>2, <2>4
<1> HIDE DEF rx, keepalive, event, rest, asked
<1>8. served \in Peer /\ served.pipe = peer.pipe
        /\ served.keepalive \in {peer.keepalive, keepalive}
  <2> DEFINE fed == [peer EXCEPT !.rx = rx, !.age = 0, !.keepalive = keepalive]
  <2>1. peer \in Peer /\ rx \in MacOrNone /\ keepalive \in Nat
          /\ 0 \in 0..KeepaliveTimeout
    BY <1>1, <1>4, <1>6, TimeoutAssumption
  <2> HIDE DEF peer
  <2>2. fed \in Peer
    BY <2>1 DEF Peer
  <2>3. fed.pipe = peer.pipe /\ fed.keepalive = keepalive
    BY <2>1 DEF Peer
  <2> HIDE DEF fed
  <2>4. served = IF k = 0 THEN peer ELSE fed
    BY DEF fed
  <2> QED BY <2>1, <2>2, <2>3, <2>4
<1>9. Good(f) /\ f.drv = h.drv /\ f \in Hal /\ f.fifo = h.fifo /\ f.peers = h.peers
  <2>1. answer \in PDU
    BY <1>1 DEF PDU, Pdu, RawType, Peer
  <2>2. s \in 0..N
    BY NAssumption DEF Pipe
  <2>3. Good(Send(h, s, answer, ok)) /\ Send(h, s, answer, ok).drv = h.drv
    BY <2>1, <2>2, SendGood
  <2>4. Send(h, s, answer, ok).fifo = h.fifo /\ Send(h, s, answer, ok).peers = h.peers
    BY <1>1 DEF Send, Hal
  <2> QED BY <1>1, <2>3, <2>4 DEF Good, HalType
<1> HIDE DEF f, served
<1>10. Good(x) /\ x.drv = f.drv
  <2>1. /\ rest \in Seq(Received) /\ Len(rest) <= Len(f.fifo)
        /\ \A i \in 1..Len(rest) : \E j \in 1..Len(f.fifo) : rest[i] = f.fifo[j]
    BY <1>7, <1>9, Zenon
  <2> QED BY <1>5, <1>9, <2>1, ConsumeGood, Zenon
<1>11. x.peers = h.peers
  BY <1>9 DEF Hal
<1>12. Drain(h, s, k, ok) = [x EXCEPT !.peers = [x.peers EXCEPT ![s] = served]]
  BY <1>2, <1>9 DEF Hal
<1> HIDE DEF x
<1>13. served.keepalive <= KeepaliveTimeout /\ (~Gateway => served.keepalive = 0)
  BY <1>6, <1>8
<1> QED BY <1>8, <1>9, <1>10, <1>11, <1>12, <1>13, PeerGood

(* read_raw: whatever run of packets it drains, and whether or not the     *)
(* answer to a keepalive request is acknowledged.                          *)
LEMMA ReadRawGood ==
    ASSUME NEW h, Good(h), NEW s \in Pipe, NEW g \in ReadRaw(h, s)
    PROVE  Good(g) /\ g.drv = h.drv
<1>1. PICK k \in RunLengths(h.fifo, s) : g \in {Drain(h, s, k, ok) : ok \in BOOLEAN}
  BY DEF ReadRaw
<1>2. PICK ok \in BOOLEAN : g = Drain(h, s, k, ok)
  BY <1>1
<1>3. k \in 0..Len(h.fifo)
  BY <1>1 DEF RunLengths
<1> QED BY <1>2, <1>3, DrainGood

(* write_raw.                                                              *)
LEMMA WriteRawGood ==
    ASSUME NEW h, Good(h), NEW s \in Pipe, NEW g \in WriteRaw(h, s)
    PROVE  Good(g) /\ g.drv = h.drv
<1> DEFINE pdu == Pdu("data", h.mac, h.peers[s].tx, 0)
           f(ok) == Send(h, s, pdu, ok)
           peer == [h.peers[s] EXCEPT !.tx = NoMac]
<1>1. CASE h.peers[s].tx = NoMac
  BY <1>1 DEF WriteRaw
<1>2. CASE h.peers[s].tx # NoMac
  <2>1. PICK ok \in BOOLEAN : g = [f(ok) EXCEPT !.peers[s].tx = NoMac]
    BY <1>2 DEF WriteRaw
  <2>2. h \in Hal /\ h.peers[s] \in Peer /\ h.mac \in MacOrNone
    BY DEF Good, HalType, Hal
  <2>3. pdu \in PDU
    BY <2>2 DEF PDU, Pdu, RawType, Peer
  <2>4. s \in 0..N
    BY NAssumption DEF Pipe
  <2> HIDE DEF pdu
  <2>5. Good(f(ok)) /\ f(ok).drv = h.drv
    BY <2>3, <2>4, SendGood, Zenon
  <2>6. f(ok).peers = h.peers
    BY <2>2 DEF Send, Hal
  <2>7. f(ok) \in Hal
    BY <2>5 DEF Good, HalType
  <2> HIDE DEF f
  <2>8. g = [f(ok) EXCEPT !.peers = [f(ok).peers EXCEPT ![s] = peer]]
    BY <2>1, <2>6, <2>7 DEF Hal
  <2>9. /\ peer \in Peer /\ peer.pipe = h.peers[s].pipe
        /\ peer.keepalive = h.peers[s].keepalive
    BY <2>2 DEF Peer, MacOrNone
  <2> HIDE DEF peer
  <2>10. peer.keepalive <= KeepaliveTimeout /\ (~Gateway => peer.keepalive = 0)
    BY <2>9 DEF Good, HalKeepaliveBounded
  <2> QED BY <2>5, <2>6, <2>8, <2>9, <2>10, PeerGood
<1> QED BY <1>1, <1>2

(* check_keepalive and the expiry in running().  The counter grows only    *)
(* while it is below the age, which is below the expiry period.            *)
LEMMA CheckKeepaliveGood ==
    ASSUME NEW h, Good(h), NEW s \in Pipe, NEW g \in CheckKeepalive(h, s)
    PROVE  Good(g) /\ g.drv = h.drv
<1> DEFINE old == h.peers[s]
           pdu == Pdu("ka_req", h.mac, old.mac, 0)
           f(ok) == Send(h, s, pdu, ok)
           peer == [old EXCEPT !.keepalive = old.keepalive + 1]
           e == Evt("disconnected", old.mac, 0)
<1>1. /\ h \in Hal /\ old \in Peer /\ h.mac \in MacOrNone
      /\ h.fifo \in Seq(Received)
  BY DEF Good, HalType, Hal
<1>2. CASE Expired(h, s)
  <2>1. g = FreePipe([h EXCEPT !.mgmt_rx = e], s)
    <3>1. ~KeepaliveDue(h, s)
      BY <1>1, <1>2, TimeoutAssumption DEF Expired, KeepaliveDue, Peer
    <3> QED BY <1>2, <3>1 DEF CheckKeepalive
  <2>2. e \in Event /\ e.evt # "connected"
    BY <1>1 DEF Event, Evt, Peer
  <2> HIDE DEF e
  <2>3. [h EXCEPT !.mgmt_rx = e] = [h EXCEPT !.fifo = h.fifo, !.mgmt_rx = e]
    BY <1>1 DEF Hal
  <2>4. Len(h.fifo) <= Len(h.fifo)
          /\ \A i \in 1..Len(h.fifo) : \E j \in 1..Len(h.fifo) : h.fifo[i] = h.fifo[j]
    BY <1>1
  <2>5. /\ Good([h EXCEPT !.mgmt_rx = e])
        /\ [h EXCEPT !.mgmt_rx = e].drv = h.drv
    <3>1. /\ Good([h EXCEPT !.fifo = h.fifo, !.mgmt_rx = e])
          /\ [h EXCEPT !.fifo = h.fifo, !.mgmt_rx = e].drv = h.drv
      BY <1>1, <2>2, <2>4, ConsumeGood, Zenon
    <3> QED BY <2>3, <3>1
  <2> QED BY <2>1, <2>5, FreePipeGood
<1>3. CASE KeepaliveDue(h, s)
  <2>1. ~Expired(h, s)
    BY <1>1, <1>3, TimeoutAssumption DEF Expired, KeepaliveDue, Peer
  <2>2. PICK ok \in BOOLEAN : g = [f(ok) EXCEPT !.peers[s].keepalive = @ + 1]
    BY <1>3, <2>1 DEF CheckKeepalive, WriteKeepalive
  <2>3. pdu \in PDU
    BY <1>1 DEF PDU, Pdu, RawType, Peer
  <2>4. s \in 0..N
    BY NAssumption DEF Pipe
  <2> HIDE DEF pdu
  <2>5. Good(f(ok)) /\ f(ok).drv = h.drv
    BY <2>3, <2>4, SendGood, Zenon
  <2>6. f(ok).peers = h.peers
    BY <1>1 DEF Send, Hal
  <2>7. f(ok) \in Hal
    BY <2>5 DEF Good, HalType
  <2> HIDE DEF f
  <2>8. g = [f(ok) EXCEPT !.peers = [f(ok).peers EXCEPT ![s] = peer]]
    BY <2>2, <2>6, <2>7 DEF Hal
  <2>9. peer \in Peer /\ peer.pipe = old.pipe /\ peer.keepalive = old.keepalive + 1
    BY <1>1 DEF Peer
  <2>10. old.age \in Nat /\ old.keepalive \in Nat /\ KeepaliveTimeout \in Nat
    BY <1>1, TimeoutAssumption DEF Peer
  <2>11. ~Gateway => old.keepalive = 0
    BY DEF Good, HalKeepaliveBounded
  <2> HIDE DEF peer
  <2>12. peer.keepalive <= KeepaliveTimeout /\ (~Gateway => peer.keepalive = 0)
    BY <1>3, <2>9, <2>10, <2>11 DEF KeepaliveDue
  <2> QED BY <2>5, <2>6, <2>8, <2>9, <2>12, PeerGood
<1>4. CASE ~Expired(h, s) /\ ~KeepaliveDue(h, s)
  BY <1>4 DEF CheckKeepalive
<1> QED BY <1>2, <1>3, <1>4

(* The RAW state of running().                                             *)
LEMMA RunRawGood ==
    ASSUME NEW h, Good(h), NEW g \in RunRaw(h)
    PROVE  Good(g) /\ g.drv = h.drv
<1> DEFINE s == h.sock
           b == IF MayLeaveRaw(h) THEN [h EXCEPT !.state = "START_MGMT"] ELSE h
           served == IF ~Allocated(h, s) THEN {b}
                     ELSE UNION {UNION {CheckKeepalive(w, s) : w \in WriteRaw(r, s)} :
                                 r \in ReadRaw(b, s)}
           next == NextSock(h)
<1>1. h \in Hal /\ s \in Pipe
  BY DEF Good, HalType, Hal
<1>2. PICK f \in served : g = [f EXCEPT !.sock = next]
  BY DEF RunRaw
<1>3. Good(b) /\ b.drv = h.drv
  <2> DEFINE m == [h EXCEPT !.state = "START_MGMT"]
  <2>1. m \in Hal
    BY <1>1 DEF Hal, RunState
  <2>2. /\ m.drv = h.drv /\ m.bits = h.bits /\ m.open = h.open
        /\ m.state = "START_MGMT" /\ m.chan = h.chan /\ m.mgmt_rx = h.mgmt_rx
        /\ m.fifo = h.fifo /\ m.peers = h.peers
    BY <1>1 DEF Hal
  <2> HIDE DEF m
  <2>3. HalType(m) /\ HalNamed(m) /\ HalKeepaliveBounded(m) /\ HalPipesAgree(m)
    BY <2>1, <2>2
       DEF Good, HalType, HalNamed, HalKeepaliveBounded, HalPipesAgree, Allocated
  <2>4. HalFifoOfChannel(m) /\ HalIdle(m)
    BY <2>2 DEF Good, HalFifoOfChannel, HalIdle, Allocated
  <2>5. Good(m) /\ m.drv = h.drv
    BY <2>2, <2>3, <2>4 DEF Good
  <2> QED BY <2>5 DEF m
<1> HIDE DEF b
<1>4. Good(f) /\ f.drv = h.drv
  <2>1. CASE ~Allocated(h, s)
    BY <1>3, <2>1
  <2>2. CASE Allocated(h, s)
    <3>1. PICK r \in ReadRaw(b, s) :
              f \in UNION {CheckKeepalive(w, s) : w \in WriteRaw(r, s)}
      BY <2>2
    <3>2. PICK w \in WriteRaw(r, s) : f \in CheckKeepalive(w, s)
      BY <3>1
    <3>3. Good(r) /\ r.drv = h.drv
      BY <1>1, <1>3, ReadRawGood
    <3>4. Good(w) /\ w.drv = h.drv
      BY <1>1, <3>3, WriteRawGood
    <3> QED BY <1>1, <3>2, <3>4, CheckKeepaliveGood
  <2> QED BY <2>1, <2>2
<1>5. next \in Pipe
  BY <1>1, NAssumption DEF NextSock, Pipe
<1> HIDE DEF next, served
<1>6. f \in Hal
  BY <1>4 DEF Good, HalType
<1>7. g \in Hal
  BY <1>2, <1>5, <1>6 DEF Hal
<1>8. /\ g.drv = f.drv /\ g.bits = f.bits /\ g.open = f.open /\ g.state = f.state
      /\ g.chan = f.chan /\ g.mgmt_rx = f.mgmt_rx /\ g.fifo = f.fifo
      /\ g.peers = f.peers
  BY <1>2, <1>6 DEF Hal
<1>9. Good(g)
  BY <1>4, <1>7, <1>8, Frame
<1> QED BY <1>4, <1>8, <1>9

(* running(): every outcome of a step of the background machine.           *)
LEMMA RunningGood ==
    ASSUME NEW h, Good(h), h.drv = "open", NEW g \in Running(h)
    PROVE  Good(g) /\ g.drv = "open"
<1>4. h.state \in RunState
  BY DEF Good, HalType, Hal
<1>5. g \in (CASE h.state = "START_MGMT" -> {StartMgmt(h)}
               [] h.state = "MGMT" -> {RunMgmt(h)}
               [] h.state = "START_RAW" -> {StartRaw(h)}
               [] h.state = "RAW" -> RunRaw(h))
  BY DEF Running
<1>7. CASE h.state = "START_MGMT"
  BY <1>5, <1>7, StartGood
<1>8. CASE h.state = "MGMT"
  BY <1>5, <1>8, RunMgmtGood
<1>9. CASE h.state = "START_RAW"
  BY <1>5, <1>9, StartGood
<1>10. CASE h.state = "RAW"
  BY <1>5, <1>10, RunRawGood
<1> QED BY <1>4, <1>7, <1>8, <1>9, <1>10 DEF RunState

---------------------------------------------------------------------------
(* The calls of hal/comm.h.                                                *)

(* Forgetting what was transmitted.                                        *)
LEMMA QuietGood ==
    ASSUME NEW h, Good(h)
    PROVE  /\ Good([h EXCEPT !.out = <<>>])
           /\ [h EXCEPT !.out = <<>>].drv = h.drv
           /\ [h EXCEPT !.out = <<>>].peers = h.peers
           /\ [h EXCEPT !.out = <<>>].mac = h.mac
           /\ [h EXCEPT !.out = <<>>].mgmt_pipe = h.mgmt_pipe
<1> DEFINE g == [h EXCEPT !.out = <<>>]
<1>1. h \in Hal
  BY DEF Good, HalType
<1>2. g \in Hal
  <2>1. <<>> \in Seq(Sent)
    OBVIOUS
  <2> QED BY <1>1, <2>1 DEF Hal
<1>3. /\ g.drv = h.drv /\ g.bits = h.bits /\ g.open = h.open /\ g.state = h.state
      /\ g.chan = h.chan /\ g.mgmt_rx = h.mgmt_rx /\ g.fifo = h.fifo
      /\ g.peers = h.peers /\ g.mac = h.mac /\ g.mgmt_pipe = h.mgmt_pipe
  BY <1>1 DEF Hal
<1> HIDE DEF g
<1>4. Good(g)
  BY <1>2, <1>3, Frame
<1> QED BY <1>3, <1>4 DEF g

(* The program starts with a good record.                                  *)
LEMMA BootGood == Good(HalBoot)
<1>1. 1 \in Pipe
  BY NAssumption DEF Pipe
<1>2. FreePeer \in Peer /\ FreePeer.pipe = -1 /\ FreePeer.keepalive = 0
  BY TimeoutAssumption DEF FreePeer, Peer, MacOrNone
<1>3. NoAA \in AA /\ NoEvent \in Event /\ NoRequest \in Request /\ NoMac \in MacOrNone
  BY DEF NoAA, AA, NoEvent, Event, NoRequest, Request, MacOrNone
<1>4. [p \in Pipe |-> FreePeer] \in [Pipe -> Peer] /\ [p \in Pipe |-> NoAA] \in [Pipe -> AA]
  BY <1>2, <1>3
<1>5. {0} \in SUBSET (0..N) /\ {} \in SUBSET Pipe
  BY NAssumption
<1>6. /\ <<>> \in Seq(Received) /\ <<>> \in Seq(Sent) /\ Len(<<>>) = 0
      /\ "START_MGMT" \in RunState /\ "PRESENCE" \in BcastState
      /\ "TIMEOUT_INTERVAL" \in BcastState
  BY DEF RunState, BcastState
<1>7. HalBoot \in Hal
  BY <1>1, <1>3, <1>4, <1>5, <1>6 DEF HalBoot, Hal
<1>8. /\ HalBoot.drv = "closed" /\ HalBoot.bits = {0} /\ HalBoot.state = "START_MGMT"
      /\ HalBoot.chan = "none" /\ HalBoot.mgmt_rx = NoEvent /\ HalBoot.fifo = <<>>
      /\ HalBoot.peers = [p \in Pipe |-> FreePeer]
  BY DEF HalBoot
<1>9. HalType(HalBoot)
  BY <1>6, <1>7, <1>8, FifoAssumption DEF HalType
<1>10. HalPipesAgree(HalBoot) /\ HalIdle(HalBoot)
  BY <1>2, <1>8, NAssumption DEF HalPipesAgree, HalIdle, Allocated, Pipe
<1>11. HalKeepaliveBounded(HalBoot)
  BY <1>2, <1>8, TimeoutAssumption DEF HalKeepaliveBounded
<1>12. HalFifoOfChannel(HalBoot) /\ HalNamed(HalBoot)
  BY <1>6, <1>8 DEF HalFifoOfChannel, HalNamed, NoEvent
<1> QED BY <1>9, <1>10, <1>11, <1>12 DEF Good

(* hal_comm_init: a driver that is not open has no pipe in use, so it may  *)
(* find the radio with none enabled.                                       *)
LEMMA CommInitGood ==
    ASSUME NEW h, Good(h), NEW mac \in Mac, NEW g \in CommInit(h, mac)
    PROVE  Good(g)
<1>1. CASE h.drv # "closed"
  BY <1>1 DEF CommInit
<1>2. CASE h.drv = "closed"
  <2> DEFINE f == [h EXCEPT !.drv = "failed"]
             o == [h EXCEPT !.drv = "open", !.mac = mac, !.chan = "none",
                            !.rxon = FALSE, !.open = [p \in Pipe |-> NoAA],
                            !.fifo = <<>>]
  <2>1. g \in {h, f, o}
    BY <1>2 DEF CommInit
  <2>2. h \in Hal
    BY DEF Good, HalType
  <2>3. h.state = "START_MGMT" /\ \A p \in Pipe : ~Allocated(h, p)
    BY <1>2 DEF Good, HalIdle
  <2>4. Good(f)
    <3>1. f \in Hal
      BY <2>2 DEF Hal
    <3>2. /\ f.drv = "failed" /\ f.bits = h.bits /\ f.state = h.state
          /\ f.chan = h.chan /\ f.mgmt_rx = h.mgmt_rx /\ f.fifo = h.fifo
          /\ f.peers = h.peers
      BY <2>2 DEF Hal
    <3> HIDE DEF f
    <3>3. HalType(f) /\ HalNamed(f) /\ HalKeepaliveBounded(f) /\ HalFifoOfChannel(f)
      BY <3>1, <3>2 DEF Good, HalType, HalNamed, HalKeepaliveBounded, HalFifoOfChannel
    <3>4. HalPipesAgree(f) /\ HalIdle(f)
      BY <2>3, <3>2 DEF Good, HalPipesAgree, HalIdle, Allocated
    <3> QED BY <3>3, <3>4 DEF Good
  <2>5. Good(o)
    <3>1. NoAA \in AA /\ mac \in MacOrNone
      BY DEF AA, NoAA, MacOrNone
    <3>2. <<>> \in Seq(Received) /\ Len(<<>>) = 0
      OBVIOUS
    <3>3. o \in Hal
      BY <2>2, <3>1, <3>2 DEF Hal
    <3>4. /\ o.drv = "open" /\ o.bits = h.bits /\ o.state = h.state
          /\ o.chan = "none" /\ o.mgmt_rx = h.mgmt_rx /\ o.fifo = <<>>
          /\ o.peers = h.peers /\ o.open = [p \in Pipe |-> NoAA]
      BY <2>2 DEF Hal
    <3> HIDE DEF o
    <3>5. HalType(o) /\ HalNamed(o) /\ HalKeepaliveBounded(o)
      BY <3>2, <3>3, <3>4, FifoAssumption
         DEF Good, HalType, HalNamed, HalKeepaliveBounded
    <3>6. HalFifoOfChannel(o)
      BY <2>3, <3>2, <3>4 DEF HalFifoOfChannel
    <3>7. HalPipesAgree(o) /\ HalIdle(o)
      BY <2>3, <3>4 DEF Good, HalPipesAgree, HalIdle, Allocated
    <3> QED BY <3>5, <3>6, <3>7 DEF Good
  <2> QED BY <2>1, <2>4, <2>5
<1> QED BY <1>1, <1>2

(* hal_comm_deinit.                                                        *)
LEMMA CommDeinitGood ==
    ASSUME NEW h, Good(h), NEW g \in CommDeinit(h)
    PROVE  Good(g)
<1> DEFINE d == [h EXCEPT !.drv = "closed", !.peers = [p \in Pipe |-> FreePeer],
               !.mgmt_rx = NoEvent, !.mgmt_tx = NoRequest, !.mgmt_pipe = -1,
               !.bits = {0}, !.state = "START_MGMT", !.pstate = "PRESENCE",
               !.prev = "TIMEOUT_INTERVAL", !.rxon = FALSE]
<1>1. g \in {h, d}
  BY DEF CommDeinit
<1>2. h \in Hal
  BY DEF Good, HalType
<1>3. FreePeer \in Peer /\ FreePeer.pipe = -1 /\ FreePeer.keepalive = 0
  BY TimeoutAssumption DEF FreePeer, Peer, MacOrNone
<1>4. /\ [p \in Pipe |-> FreePeer] \in [Pipe -> Peer]
      /\ NoEvent \in Event /\ NoRequest \in Request
      /\ {0} \in SUBSET (0..N)
      /\ "START_MGMT" \in RunState /\ "PRESENCE" \in BcastState
      /\ "TIMEOUT_INTERVAL" \in BcastState
  BY <1>3, NAssumption
     DEF NoEvent, Event, NoRequest, Request, MacOrNone, RunState, BcastState
<1>5. d \in Hal
  BY <1>2, <1>4 DEF Hal
<1>6. /\ d.drv = "closed" /\ d.bits = {0} /\ d.state = "START_MGMT"
      /\ d.chan = h.chan /\ d.mgmt_rx = NoEvent /\ d.fifo = h.fifo
      /\ d.peers = [p \in Pipe |-> FreePeer]
  BY <1>2 DEF Hal
<1> HIDE DEF d
<1>7. HalType(d) /\ HalFifoOfChannel(d)
  BY <1>5, <1>6 DEF Good, HalType, HalFifoOfChannel
<1>8. HalPipesAgree(d) /\ HalIdle(d)
  BY <1>3, <1>6, NAssumption DEF HalPipesAgree, HalIdle, Allocated, Pipe
<1>9. HalKeepaliveBounded(d) /\ HalNamed(d)
  BY <1>3, <1>6, TimeoutAssumption DEF HalKeepaliveBounded, HalNamed, NoEvent
<1> QED BY <1>1, <1>7, <1>8, <1>9 DEF Good

(* hal_comm_socket: the management pipe, and a data pipe of its own.       *)
LEMMA CommSocketMgmtGood ==
    ASSUME NEW h, Good(h), NEW g \in CommSocketMgmt(h)
    PROVE  Good(g) /\ g.drv = h.drv
<1>1. h \in Hal /\ h.rxon \in BOOLEAN
  BY DEF Good, HalType, Hal
<1> DEFINE r == IF h.mgmt_pipe = 0 THEN h.rxon ELSE TRUE
           f == [h EXCEPT !.mgmt_pipe = 0, !.rxon = r]
<1>2. g = f
  BY DEF CommSocketMgmt
<1>3. r \in BOOLEAN
  BY <1>1, Zenon
<1> HIDE DEF r
<1>4. f \in Hal
  BY <1>1, <1>3 DEF Hal
<1>5. /\ f.drv = h.drv /\ f.bits = h.bits /\ f.open = h.open /\ f.state = h.state
      /\ f.chan = h.chan /\ f.mgmt_rx = h.mgmt_rx /\ f.fifo = h.fifo
      /\ f.peers = h.peers
  BY <1>1 DEF Hal
<1> HIDE DEF f
<1>6. Good(f)
  BY <1>4, <1>5, Frame
<1> QED BY <1>2, <1>5, <1>6

(* hal_comm_socket for a data pipe, which is pipe 0 the first time.        *)
LEMMA CommSocketRawGood ==
    ASSUME NEW h, Good(h), h.drv = "open", NEW g \in CommSocketRaw(h)
    PROVE  Good(g) /\ g.drv = "open"
<1>1. CASE h.mgmt_pipe = -1
  BY <1>1, CommSocketMgmtGood DEF CommSocketRaw
<1>2. CASE h.mgmt_pipe # -1
  <2> DEFINE aa(p) == [mac |-> h.mac, idx |-> p]
             opened(p) == SetPipe(AllocPipe(h, p), p, aa(p))
  <2>1. g \in {opened(p) : p \in FirstFree(h)}
    BY <1>2 DEF CommSocketRaw
  <2>2. PICK p \in FirstFree(h) : g = opened(p)
    BY <2>1
  <2>3. p \in Pipe /\ h.mac \in MacOrNone
    BY DEF FirstFree, Good, HalType, Hal
  <2>4. aa(p) \in AA /\ aa(p) # NoAA
    BY <2>3, NAssumption DEF AA, NoAA, Pipe
  <2> HIDE DEF aa
  <2> QED BY <2>2, <2>4, OpenPipeGood
<1> QED BY <1>1, <1>2

(* hal_comm_close.                                                         *)
LEMMA CommCloseGood ==
    ASSUME NEW h, Good(h), NEW s \in Pipe, NEW g \in CommClose(h, s)
    PROVE  Good(g) /\ g.drv = h.drv
<1> DEFINE pdu == Pdu("disconnect", h.mac, h.peers[s].mac, 0)
           told == IF h.mac = NoMac THEN {h}
                   ELSE {Send(h, s, pdu, ok) : ok \in Acked(h)}
<1>1. g \in IF Allocated(h, s) THEN {FreePipe(f, s) : f \in told} ELSE {h}
  BY DEF CommClose, WriteDisconnect
<1>3. pdu \in PDU
  <2>1. h.mac \in MacOrNone /\ h.peers[s] \in Peer
    BY DEF Good, HalType, Hal
  <2> QED BY <2>1 DEF PDU, Pdu, RawType, Peer
<1> HIDE DEF pdu
<1>4. ASSUME NEW f \in told
      PROVE  Good(f) /\ f.drv = h.drv
  <2>1. s \in 0..N
    BY NAssumption DEF Pipe
  <2>2. \A ok \in Acked(h) : ok \in BOOLEAN
    BY Zenon DEF Acked
  <2>3. \A ok \in BOOLEAN : Good(Send(h, s, pdu, ok)) /\ Send(h, s, pdu, ok).drv = h.drv
    BY <1>3, <2>1, SendGood
  <2>4. CASE h.mac = NoMac
    BY <1>4, <2>4
  <2>5. CASE h.mac # NoMac
    <3>1. PICK ok \in Acked(h) : f = Send(h, s, pdu, ok)
      BY <1>4, <2>5
    <3> QED BY <2>2, <2>3, <3>1
  <2> QED BY <2>4, <2>5
<1> HIDE DEF told
<1>5. CASE ~Allocated(h, s)
  BY <1>1, <1>5
<1>6. CASE Allocated(h, s)
  <2>1. PICK f \in told : g = FreePipe(f, s)
    BY <1>1, <1>6
  <2> QED BY <1>4, <2>1, FreePipeGood
<1> QED BY <1>5, <1>6

(* Consuming the event in the slot.                                        *)
LEMMA NoEventGood ==
    ASSUME NEW h, Good(h)
    PROVE  LET g == [h EXCEPT !.mgmt_rx = NoEvent]
           IN  /\ Good(g) /\ g.drv = h.drv /\ g.peers = h.peers
<1> DEFINE g == [h EXCEPT !.mgmt_rx = NoEvent]
<1>1. h \in Hal
  BY DEF Good, HalType
<1>2. NoEvent \in Event
  BY DEF NoEvent, Event, MacOrNone
<1>3. g \in Hal
  BY <1>1, <1>2 DEF Hal
<1>4. /\ g.drv = h.drv /\ g.bits = h.bits /\ g.open = h.open /\ g.peers = h.peers
      /\ g.mgmt_rx = NoEvent /\ g.fifo = h.fifo /\ g.chan = h.chan /\ g.state = h.state
  BY <1>1 DEF Hal
<1> HIDE DEF g
<1>5. HalType(g) /\ HalFifoOfChannel(g) /\ HalNamed(g)
  BY <1>3, <1>4 DEF Good, HalType, HalFifoOfChannel, HalNamed, NoEvent
<1>6. HalIdle(g) /\ HalKeepaliveBounded(g) /\ HalPipesAgree(g)
  BY <1>4 DEF Good, HalIdle, HalKeepaliveBounded, HalPipesAgree, Allocated
<1>7. Good(g)
  BY <1>5, <1>6 DEF Good
<1> QED BY <1>4, <1>7 DEF g

(* hal_comm_read on the management socket.                                 *)
LEMMA CommReadMgmtGood ==
    ASSUME NEW h, Good(h), h.drv = "open", NEW g \in CommReadMgmt(h)
    PROVE  Good(g) /\ g.drv = "open"
<1>1. PICK f \in Running(h) : g = [f EXCEPT !.mgmt_rx = NoEvent]
  BY DEF CommReadMgmt
<1>2. Good(f) /\ f.drv = "open"
  BY RunningGood
<1> QED BY <1>1, <1>2, NoEventGood

(* hal_comm_read and hal_comm_write on a data pipe: a buffer is emptied or *)
(* filled.                                                                 *)
LEMMA BufferGood ==
    ASSUME NEW h, Good(h), NEW s \in Pipe, NEW m \in MacOrNone
    PROVE  /\ Good([h EXCEPT !.peers[s].rx = m])
           /\ [h EXCEPT !.peers[s].rx = m].drv = h.drv
           /\ Good([h EXCEPT !.peers[s].tx = m])
           /\ [h EXCEPT !.peers[s].tx = m].drv = h.drv
<1> DEFINE r == [h.peers[s] EXCEPT !.rx = m]
           t == [h.peers[s] EXCEPT !.tx = m]
<1>1. h \in Hal /\ h.peers[s] \in Peer
  BY DEF Good, HalType, Hal
<1>2. /\ r \in Peer /\ r.pipe = h.peers[s].pipe /\ r.keepalive = h.peers[s].keepalive
      /\ t \in Peer /\ t.pipe = h.peers[s].pipe /\ t.keepalive = h.peers[s].keepalive
  BY <1>1 DEF Peer
<1>3. /\ [h EXCEPT !.peers[s].rx = m] = [h EXCEPT !.peers = [h.peers EXCEPT ![s] = r]]
      /\ [h EXCEPT !.peers[s].tx = m] = [h EXCEPT !.peers = [h.peers EXCEPT ![s] = t]]
  BY <1>1 DEF Hal
<1> HIDE DEF r, t
<1>4. /\ r.keepalive <= KeepaliveTimeout /\ (~Gateway => r.keepalive = 0)
      /\ t.keepalive <= KeepaliveTimeout /\ (~Gateway => t.keepalive = 0)
  BY <1>2 DEF Good, HalKeepaliveBounded
<1> QED BY <1>2, <1>3, <1>4, PeerGood

(* hal_comm_read on a data pipe.                                           *)
LEMMA CommReadGood ==
    ASSUME NEW h, Good(h), h.drv = "open", NEW s \in Pipe, NEW g \in CommRead(h, s)
    PROVE  Good(g) /\ g.drv = "open"
<1>1. PICK f \in Running(h) : g = [f EXCEPT !.peers[s].rx = NoMac]
  BY DEF CommRead
<1>2. NoMac \in MacOrNone
  BY DEF MacOrNone
<1>3. Good(f) /\ f.drv = "open"
  BY RunningGood
<1> QED BY <1>1, <1>2, <1>3, BufferGood

(* hal_comm_write.                                                         *)
LEMMA CommWriteGood ==
    ASSUME NEW h, Good(h), h.drv = "open", NEW s \in Pipe, NEW m \in MacOrNone,
           NEW g \in CommWrite(h, s, m)
    PROVE  Good(g) /\ g.drv = "open"
<1>1. PICK f \in Running(h) :
        g = [f EXCEPT !.peers[s].tx = IF f.peers[s].tx = NoMac THEN m ELSE f.peers[s].tx]
  BY DEF CommWrite
<1>2. Good(f) /\ f.drv = "open"
  BY RunningGood
<1>3. f.peers[s].tx \in MacOrNone
  <2>1. f.peers[s] \in Peer
    BY <1>2 DEF Good, HalType, Hal
  <2> QED BY <2>1 DEF Peer
<1> DEFINE t == IF f.peers[s].tx = NoMac THEN m ELSE f.peers[s].tx
<1>4. t \in MacOrNone
  BY <1>3
<1> HIDE DEF t
<1>5. g = [f EXCEPT !.peers[s].tx = t]
  BY <1>1 DEF t
<1> QED BY <1>2, <1>4, <1>5, BufferGood

(* hal_comm_listen sets bit 0, which is no pipe's.                         *)
LEMMA CommListenGood ==
    ASSUME NEW h, Good(h), NEW g \in CommListen(h)
    PROVE  Good(g) /\ g.drv = h.drv
<1> DEFINE b == h.bits \cup {0}
           f == [h EXCEPT !.listen = TRUE, !.bits = b]
<1>1. g = f
  BY DEF CommListen
<1>2. h \in Hal
  BY DEF Good, HalType
<1>3. b \in SUBSET (0..N)
  <2>1. h.bits \in SUBSET (0..N)
    BY <1>2 DEF Hal
  <2> QED BY <2>1, NAssumption
<1>4. \A p \in Pipe : p \in b <=> p \in h.bits
  BY NAssumption DEF Pipe
<1> HIDE DEF b
<1>5. f \in Hal
  BY <1>2, <1>3 DEF Hal
<1>6. /\ f.drv = h.drv /\ f.bits = b /\ f.open = h.open /\ f.peers = h.peers
      /\ f.mgmt_rx = h.mgmt_rx /\ f.fifo = h.fifo /\ f.chan = h.chan /\ f.state = h.state
  BY <1>2 DEF Hal
<1> HIDE DEF f
<1>7. HalType(f) /\ HalFifoOfChannel(f) /\ HalNamed(f) /\ HalKeepaliveBounded(f)
  BY <1>5, <1>6 DEF Good, HalType, HalFifoOfChannel, HalNamed, HalKeepaliveBounded
<1>8. HalIdle(f) /\ HalPipesAgree(f)
  BY <1>4, <1>6 DEF Good, HalIdle, HalPipesAgree, Allocated
<1> QED BY <1>1, <1>6, <1>7, <1>8 DEF Good

(* A peer's keepalive started anew.                                        *)
LEMMA PeerRestarted ==
    ASSUME NEW peer \in Peer, NEW m \in MacOrNone, NEW k \in Nat
    PROVE  /\ Restarted(peer, m, k) \in Peer
           /\ Restarted(peer, m, k).pipe = peer.pipe
           /\ Restarted(peer, m, k).keepalive = k
           /\ Restarted(peer, m, k).rx = peer.rx
           /\ Restarted(peer, m, k).tx = peer.tx
<1>1. 0 \in 0..KeepaliveTimeout
  BY TimeoutAssumption
<1> QED BY <1>1 DEF Restarted, Peer

(* hal_comm_accept.                                                        *)
LEMMA AcceptGood ==
    ASSUME NEW h, Good(h), h.drv = "open", NEW x \in Accept(h)
    PROVE  /\ Good(x) /\ x.drv = "open"
           /\ Kept(h, x)
<1> DEFINE e == h.mgmt_rx
           g == [h EXCEPT !.mgmt_rx = NoEvent]
           aa == [mac |-> e.mac, idx |-> e.idx]
           opened(p) == SetPipe(AllocPipe(g, p), p, aa)
           unheard(p) == [opened(p) EXCEPT !.listen = FALSE]
           connection(p) ==
             LET a == unheard(p)
             IN  [NewRawTime(a) EXCEPT !.peers[p] = Restarted(@, e.mac, 0)]
<1>1. x \in IF e.evt = "connected" /\ FirstFree(g) # {}
            THEN {connection(p) : p \in FirstFree(g)} ELSE {g}
  BY DEF Accept
<1>2. /\ Good(g) /\ g.drv = "open" /\ g.mgmt_rx = NoEvent
      /\ g.peers = h.peers /\ g.bits = h.bits /\ g.raw_for = h.raw_for
  <2>1. h \in Hal
    BY DEF Good, HalType
  <2>2. g.mgmt_rx = NoEvent /\ g.bits = h.bits /\ g.raw_for = h.raw_for
    BY <2>1 DEF Hal
  <2> QED BY <2>2, NoEventGood
<1>3. CASE ~(e.evt = "connected" /\ FirstFree(g) # {})
  <2>1. x = g
    BY <1>1, <1>3
  <2> HIDE DEF g
  <2> QED BY <1>2, <2>1 DEF Kept, Fresh, Allocated
<1>4. CASE e.evt = "connected" /\ FirstFree(g) # {}
  <2>1. PICK p \in FirstFree(g) : x = connection(p)
    BY <1>1, <1>4
  <2>2. e \in Event /\ e.mac # NoMac
    BY <1>4 DEF Good, HalType, Hal, HalNamed
  <2>3. aa \in AA /\ aa # NoAA /\ e.mac \in MacOrNone
    BY <2>2 DEF AA, NoAA, Event
  <2> HIDE DEF aa, g, e
  <2>4. /\ Good(opened(p)) /\ opened(p).drv = "open" /\ p \in Pipe
        /\ opened(p).mgmt_rx = NoEvent
        /\ opened(p).peers[p].rx = NoMac /\ opened(p).peers[p].tx = NoMac
        /\ \A q \in Pipe : q # p => opened(p).peers[q] = h.peers[q]
    BY <1>2, <2>3, OpenPipeGood
  <2> HIDE DEF opened
  <2>5. opened(p) \in Hal
    BY <2>4 DEF Good, HalType
  <2> DEFINE o == opened(p)
             a == unheard(p)
             f == [o EXCEPT !.listen = FALSE, !.raw_for = RawPipes(a)]
             peer == Restarted(o.peers[p], e.mac, 0)
  <2>6. a.peers = o.peers /\ a.bits = o.bits
    BY <2>5 DEF Hal
  <2>7. RawPipes(a) \in SUBSET Pipe
    <3>1. o.bits \in SUBSET (0..N)
      BY <2>5 DEF Hal
    <3> HIDE DEF o, a
    <3> QED BY <2>6, <3>1, NAssumption DEF RawPipes, Pipe
  <2>8. x = [f EXCEPT !.peers = [f.peers EXCEPT ![p] = peer]]
    <3>1. /\ f.peers = o.peers /\ a.peers = o.peers
          /\ a = [o EXCEPT !.listen = FALSE]
      BY <2>5 DEF Hal
    <3>3. /\ NewRawTime(a) = [a EXCEPT !.raw_for = RawPipes(a)]
          /\ NewRawTime(a).peers = o.peers
      BY <2>5, <3>1 DEF Hal, NewRawTime
    <3>2. x = [a EXCEPT !.raw_for = RawPipes(a), !.peers = [o.peers EXCEPT ![p] = peer]]
      BY <2>1, <2>5, <3>1, <3>3 DEF Hal
    <3> HIDE DEF peer
    <3> QED BY <2>5, <3>1, <3>2 DEF Hal
  <2> HIDE DEF unheard, o, a
  <2>9. f \in Hal
    BY <2>5, <2>7 DEF Hal, o
  <2>10. /\ f.drv = o.drv /\ f.bits = o.bits /\ f.open = o.open /\ f.state = o.state
         /\ f.chan = o.chan /\ f.mgmt_rx = o.mgmt_rx /\ f.fifo = o.fifo
         /\ f.peers = o.peers /\ f.raw_for = RawPipes(o)
    BY <2>5, <2>6 DEF Hal, o, RawPipes
  <2> HIDE DEF f
  <2>11. Good(f) /\ f.drv = "open"
    BY <2>4, <2>9, <2>10, Frame DEF o
  <2>12. /\ peer \in Peer /\ peer.pipe = f.peers[p].pipe /\ peer.keepalive = 0
         /\ peer.rx = o.peers[p].rx /\ peer.tx = o.peers[p].tx
    <3>1. o.peers[p] \in Peer
      BY <2>4, <2>5 DEF Hal, o
    <3>2. 0 \in Nat /\ f.peers[p] = o.peers[p]
      BY <2>10
    <3> QED BY <2>3, <3>1, <3>2, PeerRestarted
  <2> HIDE DEF peer
  <2>13. peer.keepalive <= KeepaliveTimeout
    BY <2>12, TimeoutAssumption
  <2>14. Good(x) /\ x.drv = "open"
    BY <2>4, <2>8, <2>11, <2>12, <2>13, PeerGood
  <2>15. /\ x.mgmt_rx = f.mgmt_rx /\ x.bits = f.bits /\ x.raw_for = f.raw_for
         /\ x.peers = [f.peers EXCEPT ![p] = peer]
    BY <2>8, <2>9 DEF Hal
  <2>16. x.peers[p] = peer /\ \A q \in Pipe : q # p => x.peers[q] = h.peers[q]
    <3>1. f.peers \in [Pipe -> Peer]
      BY <2>9 DEF Hal
    <3> QED BY <2>4, <2>10, <2>15, <3>1 DEF o
  <2>17. Kept(h, x)
    BY <2>4, <2>10, <2>12, <2>15, <2>16 DEF Kept, Fresh, Allocated, o
  <2> QED BY <2>14, <2>17
<1> QED BY <1>3, <1>4

(* hal_comm_accept as it is called: a step of running() comes first.       *)
LEMMA CommAcceptGood ==
    ASSUME NEW h, Good(h), h.drv = "open", NEW g \in CommAccept(h)
    PROVE  Good(g) /\ g.drv = "open"
<1>1. PICK f \in Running(h) : g \in Accept(f)
  BY DEF CommAccept
<1>2. Good(f) /\ f.drv = "open"
  BY RunningGood
<1> QED BY <1>1, <1>2, AcceptGood

(* hal_comm_connect starts the keepalive counter: a gateway's call.        *)
LEMMA CommConnectGood ==
    ASSUME NEW h, Good(h), h.drv = "open", Gateway, NEW s \in Pipe, NEW m \in MacOrNone,
           NEW g \in CommConnect(h, s, m)
    PROVE  Good(g) /\ g.drv = "open"
<1>1. PICK r \in Running(h) : g = Connect(r, s, m)
  BY DEF CommConnect
<1>2. Good(r) /\ r.drv = "open"
  BY RunningGood
<1>3. CASE r.mgmt_tx # NoRequest
  BY <1>1, <1>2, <1>3 DEF Connect
<1>4. CASE r.mgmt_tx = NoRequest
  <2> DEFINE f == [r EXCEPT !.mgmt_tx = [dst |-> m, idx |-> s]]
             peer == Restarted(r.peers[s], m, 1)
  <2>1. r \in Hal /\ r.peers[s] \in Peer
    BY <1>2 DEF Good, HalType, Hal
  <2>2. [dst |-> m, idx |-> s] \in Request
    BY NAssumption DEF Request, Pipe
  <2>3. f \in Hal
    BY <2>1, <2>2 DEF Hal
  <2>4. /\ f.drv = r.drv /\ f.bits = r.bits /\ f.open = r.open /\ f.state = r.state
        /\ f.chan = r.chan /\ f.mgmt_rx = r.mgmt_rx /\ f.fifo = r.fifo
        /\ f.peers = r.peers
    BY <2>1 DEF Hal
  <2>5. g = [f EXCEPT !.peers = [f.peers EXCEPT ![s] = peer]]
    <3> HIDE DEF peer
    <3> QED BY <1>1, <1>4, <2>1 DEF Connect, Hal, peer
  <2> HIDE DEF f
  <2>6. Good(f)
    BY <1>2, <2>3, <2>4, Frame
  <2>7. peer \in Peer /\ peer.pipe = r.peers[s].pipe /\ peer.keepalive = 1
    <3>1. r.peers[s] \in Peer /\ 1 \in Nat
      BY <2>1
    <3> QED BY <3>1, PeerRestarted
  <2> HIDE DEF peer
  <2>8. peer.keepalive <= KeepaliveTimeout
    BY <2>7, TimeoutAssumption
  <2> QED BY <1>2, <2>4, <2>5, <2>6, <2>7, <2>8, PeerGood
<1> QED BY <1>3, <1>4

---------------------------------------------------------------------------
(* What a step of running() does not do, for the proofs about steps.       *)

(* A change of fields that Steady does not mention.                        *)
LEMMA SteadyFrame ==
    ASSUME NEW h, NEW g, g.mgmt_rx = h.mgmt_rx,
           \A p \in Pipe : g.peers[p].pipe = h.peers[p].pipe
    PROVE  Steady(h, g)
  BY DEF Steady, SlotKept, Allocated

(* One steady change after another.                                        *)
LEMMA SteadyTrans ==
    ASSUME NEW f, NEW g, NEW h, Steady(f, g), Steady(g, h)
    PROVE  Steady(f, h)
  BY DEF Steady, SlotKept

(* Giving up a pipe opens none.                                            *)
LEMMA FreePipeSteady ==
    ASSUME NEW h, Good(h), NEW p \in Pipe
    PROVE  /\ Steady(h, FreePipe(h, p))
           /\ ~Allocated(FreePipe(h, p), p)
<1> DEFINE peer == [h.peers[p] EXCEPT !.pipe = -1, !.keepalive = 0]
           f == [h EXCEPT !.bits = @ \ {p}, !.peers[p].pipe = -1, !.peers[p].keepalive = 0]
           g == FreePipe(h, p)
<1>1. h \in Hal /\ h.peers \in [Pipe -> Peer]
  BY DEF Good, HalType, Hal
<1>2. f = [h EXCEPT !.bits = h.bits \ {p}, !.peers = [h.peers EXCEPT ![p] = peer]]
  <2>1. [[h.peers EXCEPT ![p].pipe = -1] EXCEPT ![p].keepalive = 0]
          = [h.peers EXCEPT ![p] = peer]
    BY <1>1
  <2>2. QED
    BY <1>1, <2>1 DEF Hal
<1>3. peer.pipe = -1
  BY <1>1 DEF Peer
<1>4. g = NewRawTime(ResetPipe(f, p))
  BY DEF FreePipe
<1> HIDE DEF peer, f, g
<1>5. /\ f.mgmt_rx = h.mgmt_rx /\ f.bits = h.bits \ {p}
      /\ f.peers = [h.peers EXCEPT ![p] = peer]
  BY <1>1, <1>2 DEF Hal
<1>6. /\ g.mgmt_rx = f.mgmt_rx /\ g.bits = f.bits /\ g.peers = f.peers
      /\ g.raw_for = RawPipes(f)
  BY <1>1, <1>2, <1>4 DEF Hal, NewRawTime, ResetPipe, RawPipes
<1>7. \A q \in Pipe : g.peers[q].pipe = IF q = p THEN -1 ELSE h.peers[q].pipe
  BY <1>1, <1>3, <1>5, <1>6
<1> QED BY <1>5, <1>6, <1>7 DEF Steady, SlotKept, Allocated, g

(* read_mgmt fills the slot only when it is empty.                         *)
LEMMA ReadMgmtSteady ==
    ASSUME NEW h, Good(h)
    PROVE  Steady(h, ReadMgmt(h))
<1>1. CASE h.fifo = <<>> \/ Head(h.fifo).pipe # 0
  BY <1>1, SteadyFrame DEF ReadMgmt
<1>2. CASE ~(h.fifo = <<>> \/ Head(h.fifo).pipe # 0)
  <2> DEFINE pdu == Head(h.fifo).pdu
             event == CASE pdu.type = "presence" /\ ~h.listen ->
                             Evt("presence", pdu.src, 0)
                        [] pdu.type = "connect_req" /\ pdu.dst = h.mac ->
                             Evt("connected", pdu.src, pdu.idx)
                        [] OTHER -> NoEvent
             e == IF h.mgmt_rx = NoEvent THEN event ELSE h.mgmt_rx
             g == [h EXCEPT !.fifo = Tail(h.fifo), !.mgmt_rx = e]
  <2>1. ReadMgmt(h) = g
    BY <1>2 DEF ReadMgmt
  <2>2. h.mgmt_rx # NoEvent => e = h.mgmt_rx
    OBVIOUS
  <2>3. h \in Hal
    BY DEF Good, HalType
  <2> HIDE DEF e
  <2>4. /\ g.mgmt_rx = e /\ g.bits = h.bits /\ g.raw_for = h.raw_for
        /\ g.peers = h.peers
    BY <2>3 DEF Hal
  <2> HIDE DEF g
  <2> QED BY <2>1, <2>2, <2>4 DEF Steady, SlotKept, Allocated
<1> QED BY <1>1, <1>2

(* The MGMT state of running().                                            *)
LEMMA RunMgmtSteady ==
    ASSUME NEW h, Good(h)
    PROVE  Steady(h, RunMgmt(h))
<1> DEFINE r == ReadMgmt(h)
           w == WriteMgmt(r)
           g == IF h.listen THEN PresenceConnect(w) ELSE w
           f == [g EXCEPT !.state = "START_RAW"]
           Framed(x, y) == /\ y.mgmt_rx = x.mgmt_rx /\ y.bits = x.bits
                           /\ y.raw_for = x.raw_for /\ y.peers = x.peers
<1>1. Good(r) /\ Good(w) /\ Good(g)
  BY ReadMgmtGood, WriteMgmtGood, PresenceConnectGood
<1>2. r \in Hal /\ w \in Hal /\ g \in Hal
  BY <1>1 DEF Good, HalType
<1> HIDE DEF r
<1>3. Framed(r, w)
  BY <1>2 DEF WriteMgmt, Send, Hal
<1> HIDE DEF w
<1>4. Framed(w, PresenceConnect(w))
  BY <1>2 DEF PresenceConnect, Send, Hal
<1>5. Framed(w, g)
  BY <1>4
<1>6. RunMgmt(h) \in {f, g}
  BY DEF RunMgmt, w, r
<1> HIDE DEF g
<1>7. Framed(g, f)
  BY <1>2 DEF Hal
<1> HIDE DEF f
<1>8. Steady(r, g) /\ Steady(r, f)
  BY <1>3, <1>5, <1>7, SteadyFrame
<1>9. Steady(h, r)
  BY ReadMgmtSteady DEF r
<1> HIDE DEF Framed
<1> QED BY <1>6, <1>8, <1>9, SteadyTrans

(* read_raw: a disconnect fills the slot only when it is empty.            *)
LEMMA DrainSteady ==
    ASSUME NEW h, Good(h), NEW s \in Pipe, NEW k \in 0..Len(h.fifo), NEW ok \in BOOLEAN
    PROVE  Steady(h, Drain(h, s, k, ok))
<1> DEFINE q == h.fifo
           peer == h.peers[s]
           source(type) == q[CHOOSE i \in FirstOf(q, k, type) : TRUE].pdu.src
           alive == \E i \in 1..k : q[i].pdu.type \in {"ka_rsp", "data"}
           asked == \E i \in 1..k : q[i].pdu = Pdu("ka_req", peer.mac, h.mac, 0)
           rx == IF peer.rx = NoMac /\ FirstOf(q, k, "data") # {}
                 THEN source("data") ELSE peer.rx
           event == IF h.mgmt_rx = NoEvent /\ FirstOf(q, k, "disconnect") # {}
                    THEN Evt("disconnected", source("disconnect"), 0) ELSE h.mgmt_rx
           keepalive == IF alive /\ peer.keepalive # 0 THEN 1 ELSE peer.keepalive
           served == IF k = 0 THEN peer
                     ELSE [peer EXCEPT !.rx = rx, !.age = 0, !.keepalive = keepalive]
           f == IF asked THEN Send(h, s, Pdu("ka_rsp", h.mac, peer.mac, 0), ok) ELSE h
           rest == SubSeq(q, k + 1, Len(q))
           g == [f EXCEPT !.fifo = rest, !.mgmt_rx = event, !.peers[s] = served]
<1>1. h \in Hal /\ h.peers \in [Pipe -> Peer] /\ peer \in Peer
  BY DEF Good, HalType, Hal
<1>2. Drain(h, s, k, ok) = g
  BY Zenon DEF Drain, WriteKeepalive
<1>3. h.mgmt_rx # NoEvent => event = h.mgmt_rx
  OBVIOUS
<1> HIDE DEF source, event, rest, asked, rx, keepalive
<1>4. served.pipe = peer.pipe
  BY <1>1 DEF Peer
<1> HIDE DEF served
<1>5. /\ f.peers = h.peers /\ f.bits = h.bits /\ f.raw_for = h.raw_for
      /\ DOMAIN f = DOMAIN h
  BY <1>1 DEF Send, Hal
<1> HIDE DEF f
<1>6. /\ g.mgmt_rx = event /\ g.bits = h.bits /\ g.raw_for = h.raw_for
      /\ g.peers = [h.peers EXCEPT ![s] = served]
  BY <1>1, <1>5 DEF Hal
<1> HIDE DEF g
<1>7. \A p \in Pipe : g.peers[p].pipe = h.peers[p].pipe
  BY <1>1, <1>4, <1>6
<1> QED BY <1>2, <1>3, <1>6, <1>7 DEF Steady, SlotKept, Allocated

(* read_raw, for any number of packets.                                    *)
LEMMA ReadRawSteady ==
    ASSUME NEW h, Good(h), NEW s \in Pipe, NEW g \in ReadRaw(h, s)
    PROVE  Steady(h, g)
<1>1. PICK k \in RunLengths(h.fifo, s) : g \in {Drain(h, s, k, ok) : ok \in BOOLEAN}
  BY DEF ReadRaw
<1>2. PICK ok \in BOOLEAN : g = Drain(h, s, k, ok)
  BY <1>1
<1>3. k \in 0..Len(h.fifo)
  BY <1>1 DEF RunLengths
<1> QED BY <1>2, <1>3, DrainSteady

(* write_raw empties a buffer.                                             *)
LEMMA WriteRawSteady ==
    ASSUME NEW h, Good(h), NEW s \in Pipe, NEW g \in WriteRaw(h, s)
    PROVE  Steady(h, g)
<1> DEFINE f(ok) == Send(h, s, Pdu("data", h.mac, h.peers[s].tx, 0), ok)
           x(ok) == [f(ok) EXCEPT !.peers[s].tx = NoMac]
<1>1. h \in Hal /\ h.peers \in [Pipe -> Peer]
  BY DEF Good, HalType, Hal
<1>2. ASSUME NEW ok \in BOOLEAN
      PROVE  /\ x(ok).mgmt_rx = h.mgmt_rx /\ x(ok).bits = h.bits
             /\ x(ok).raw_for = h.raw_for
             /\ x(ok).peers = [h.peers EXCEPT ![s].tx = NoMac]
  BY <1>1 DEF Send, Hal
<1>3. \A p \in Pipe : [h.peers EXCEPT ![s].tx = NoMac][p].pipe = h.peers[p].pipe
  BY <1>1 DEF Peer
<1>4. g = h \/ \E ok \in BOOLEAN : g = x(ok)
  BY DEF WriteRaw
<1> HIDE DEF x
<1>5. /\ g.mgmt_rx = h.mgmt_rx /\ g.bits = h.bits /\ g.raw_for = h.raw_for
      /\ \A p \in Pipe : g.peers[p].pipe = h.peers[p].pipe
  <2>1. CASE g = h
    BY <2>1
  <2>2. ASSUME NEW ok \in BOOLEAN, g = x(ok)
        PROVE  /\ g.mgmt_rx = h.mgmt_rx /\ g.bits = h.bits /\ g.raw_for = h.raw_for
               /\ g.peers = [h.peers EXCEPT ![s].tx = NoMac]
    BY <1>2, <2>2
  <2> QED BY <1>3, <1>4, <2>1, <2>2
<1> QED BY <1>5, SteadyFrame

(* check_keepalive: the expiry reports the loss in an empty slot only.     *)
LEMMA CheckKeepaliveSteady ==
    ASSUME NEW h, Good(h), NEW s \in Pipe, NEW g \in CheckKeepalive(h, s)
    PROVE  Steady(h, g)
<1> DEFINE e == Evt("disconnected", h.peers[s].mac, 0)
           d == [h EXCEPT !.mgmt_rx = e]
           f(ok) == WriteKeepalive(h, s, "ka_req", ok)
           x(ok) == [f(ok) EXCEPT !.peers[s].keepalive = @ + 1]
<1>1. h \in Hal /\ h.peers \in [Pipe -> Peer] /\ h.peers[s] \in Peer
  BY DEF Good, HalType, Hal
<1>2. CASE Expired(h, s)
  <2>1. g = FreePipe(d, s)
    <3>1. ~KeepaliveDue(h, s)
      BY <1>1, <1>2, TimeoutAssumption DEF Expired, KeepaliveDue, Peer
    <3> QED BY <1>2, <3>1 DEF CheckKeepalive
  <2>2. Good(d)
    <3>1. e \in Event /\ e.evt # "connected"
      BY <1>1 DEF Event, Evt, Peer
    <3> HIDE DEF e
    <3>2. d = [h EXCEPT !.fifo = h.fifo, !.mgmt_rx = e] /\ h.fifo \in Seq(Received)
      BY <1>1 DEF Hal
    <3>3. Len(h.fifo) <= Len(h.fifo)
            /\ \A i \in 1..Len(h.fifo) : \E j \in 1..Len(h.fifo) : h.fifo[i] = h.fifo[j]
      BY <3>2
    <3>4. Good([h EXCEPT !.fifo = h.fifo, !.mgmt_rx = e])
      BY <3>1, <3>2, <3>3, ConsumeGood, Zenon
    <3> QED BY <3>2, <3>4
  <2>3. Steady(h, d)
    <3> HIDE DEF e
    <3>1. d.bits = h.bits /\ d.raw_for = h.raw_for /\ d.peers = h.peers
      BY <1>1 DEF Hal
    <3> QED BY <1>2, <3>1 DEF Expired, Steady, SlotKept, Allocated
  <2> HIDE DEF d
  <2> QED BY <2>1, <2>2, <2>3, FreePipeSteady, SteadyTrans
<1>3. CASE ~Expired(h, s)
  <2>1. ASSUME NEW ok \in BOOLEAN
        PROVE  /\ x(ok).mgmt_rx = h.mgmt_rx /\ x(ok).bits = h.bits
               /\ x(ok).raw_for = h.raw_for
               /\ \A p \in Pipe : x(ok).peers[p].pipe = h.peers[p].pipe
    <3>1. f(ok).peers = h.peers /\ DOMAIN f(ok) = DOMAIN h
            /\ f(ok).mgmt_rx = h.mgmt_rx /\ f(ok).bits = h.bits
            /\ f(ok).raw_for = h.raw_for
      BY <1>1 DEF WriteKeepalive, Send, Hal
    <3> HIDE DEF f
    <3>2. /\ x(ok).mgmt_rx = h.mgmt_rx /\ x(ok).bits = h.bits
          /\ x(ok).raw_for = h.raw_for
          /\ x(ok).peers = [h.peers EXCEPT ![s].keepalive = @ + 1]
      BY <1>1, <3>1 DEF Hal
    <3>3. \A p \in Pipe :
            [h.peers EXCEPT ![s].keepalive = @ + 1][p].pipe = h.peers[p].pipe
      BY <1>1 DEF Peer
    <3> HIDE DEF x
    <3> QED BY <3>2, <3>3
  <2>2. g = h \/ \E ok \in BOOLEAN : g = x(ok)
    BY <1>3 DEF CheckKeepalive
  <2> HIDE DEF x
  <2>3. /\ g.mgmt_rx = h.mgmt_rx /\ g.bits = h.bits /\ g.raw_for = h.raw_for
        /\ \A p \in Pipe : g.peers[p].pipe = h.peers[p].pipe
    BY <2>1, <2>2
  <2> QED BY <2>3, SteadyFrame
<1> QED BY <1>2, <1>3

(* The RAW state of running().                                             *)
LEMMA RunRawSteady ==
    ASSUME NEW h, Good(h), NEW g \in RunRaw(h)
    PROVE  Steady(h, g)
<1> DEFINE s == h.sock
           m == [h EXCEPT !.state = "START_MGMT"]
           b == IF MayLeaveRaw(h) THEN m ELSE h
           served == IF ~Allocated(h, s) THEN {b}
                     ELSE UNION {UNION {CheckKeepalive(w, s) : w \in WriteRaw(r, s)} :
                                 r \in ReadRaw(b, s)}
           next == NextSock(h)
<1>1. h \in Hal /\ s \in Pipe
  BY DEF Good, HalType, Hal
<1>2. PICK f \in served : g = [f EXCEPT !.sock = next]
  BY DEF RunRaw
<1>3. Good(b) /\ Steady(h, b)
  <2>1. m \in Hal
    BY <1>1 DEF Hal, RunState
  <2>2. /\ m.drv = h.drv /\ m.bits = h.bits /\ m.open = h.open
        /\ m.state = "START_MGMT" /\ m.chan = h.chan /\ m.mgmt_rx = h.mgmt_rx
        /\ m.fifo = h.fifo /\ m.peers = h.peers /\ m.raw_for = h.raw_for
    BY <1>1 DEF Hal
  <2> HIDE DEF m
  <2>3. HalType(m) /\ HalNamed(m) /\ HalKeepaliveBounded(m) /\ HalPipesAgree(m)
    BY <2>1, <2>2
       DEF Good, HalType, HalNamed, HalKeepaliveBounded, HalPipesAgree, Allocated
  <2>4. HalFifoOfChannel(m) /\ HalIdle(m)
    BY <2>2 DEF Good, HalFifoOfChannel, HalIdle, Allocated
  <2>5. Good(m) /\ Steady(h, m) /\ Steady(h, h)
    BY <2>2, <2>3, <2>4, SteadyFrame DEF Good
  <2> QED BY <2>5
<1> HIDE DEF b
<1>4. Good(f) /\ Steady(h, f)
  <2>1. CASE ~Allocated(h, s)
    BY <1>3, <2>1
  <2>2. CASE Allocated(h, s)
    <3>1. PICK r \in ReadRaw(b, s) :
              f \in UNION {CheckKeepalive(w, s) : w \in WriteRaw(r, s)}
      BY <2>2
    <3>2. PICK w \in WriteRaw(r, s) : f \in CheckKeepalive(w, s)
      BY <3>1
    <3>3. Good(r) /\ Steady(b, r)
      BY <1>1, <1>3, ReadRawGood, ReadRawSteady
    <3>4. Good(w) /\ Steady(r, w)
      BY <1>1, <3>3, WriteRawGood, WriteRawSteady
    <3>5. Good(f) /\ Steady(w, f)
      BY <1>1, <3>2, <3>4, CheckKeepaliveGood, CheckKeepaliveSteady
    <3> QED BY <1>3, <3>3, <3>4, <3>5, SteadyTrans
  <2> QED BY <2>1, <2>2
<1> HIDE DEF next, served
<1>5. f \in Hal
  BY <1>4 DEF Good, HalType
<1>6. /\ g.mgmt_rx = f.mgmt_rx /\ g.bits = f.bits /\ g.raw_for = f.raw_for
      /\ g.peers = f.peers
  BY <1>2, <1>5 DEF Hal
<1>7. Steady(f, g)
  BY <1>6, SteadyFrame
<1> QED BY <1>4, <1>7, SteadyTrans

(* running(): a step of the background machine loses no event that waits,  *)
(* opens no pipe and keeps the data window sized.                          *)
LEMMA RunningSteady ==
    ASSUME NEW h, Good(h), NEW g \in Running(h)
    PROVE  Steady(h, g)
<1>1. h \in Hal /\ h.state \in RunState
  BY DEF Good, HalType, Hal
<1>2. g \in (CASE h.state = "START_MGMT" -> {StartMgmt(h)}
               [] h.state = "MGMT" -> {RunMgmt(h)}
               [] h.state = "START_RAW" -> {StartRaw(h)}
               [] h.state = "RAW" -> RunRaw(h))
  BY DEF Running
<1>3. Steady(h, StartMgmt(h)) /\ Steady(h, StartRaw(h))
  <2> DEFINE x == StartMgmt(h)
             y == StartRaw(h)
  <2>1. /\ x.mgmt_rx = h.mgmt_rx /\ x.bits = h.bits /\ x.raw_for = h.raw_for
        /\ x.peers = h.peers
    BY <1>1 DEF StartMgmt, SetChannel, Hal
  <2>2. /\ y.mgmt_rx = h.mgmt_rx /\ y.bits = h.bits /\ y.raw_for = h.raw_for
        /\ y.peers = h.peers
    BY <1>1 DEF StartRaw, SetChannel, Hal
  <2> HIDE DEF x, y
  <2>3. Steady(h, x) /\ Steady(h, y)
    BY <2>1, <2>2, SteadyFrame
  <2> QED BY <2>3 DEF x, y
<1>4. CASE h.state = "START_MGMT" \/ h.state = "START_RAW"
  BY <1>2, <1>3, <1>4
<1>5. CASE h.state = "MGMT"
  BY <1>2, <1>5, RunMgmtSteady
<1>6. CASE h.state = "RAW"
  BY <1>2, <1>6, RunRawSteady
<1> QED BY <1>1, <1>4, <1>5, <1>6 DEF RunState

---------------------------------------------------------------------------
(* What the calls do between two records.                                  *)

(* A call that opens no pipe is one whose new pipes are fresh.             *)
LEMMA CalmKept ==
    ASSUME NEW h, NEW g, Calm(h, g)
    PROVE  Kept(h, g)
  BY DEF Calm, Kept, Fresh

(* A step of running(), then a change that opens nothing and takes nothing. *)
LEMMA SteadyCalm ==
    ASSUME NEW h, NEW f, Steady(h, f), NEW g,
           g.mgmt_rx = f.mgmt_rx,
           \A p \in Pipe : g.peers[p].pipe = f.peers[p].pipe
    PROVE  Calm(h, g) /\ SlotKept(h, g)
  BY DEF Calm, SlotKept, Steady, Allocated

(* Reading the management socket.                                          *)
LEMMA CommReadMgmtCalm ==
    ASSUME NEW h, Good(h), h.drv = "open", NEW g \in CommReadMgmt(h)
    PROVE  Calm(h, g)
<1>1. PICK f \in Running(h) : g = [f EXCEPT !.mgmt_rx = NoEvent]
  BY DEF CommReadMgmt
<1>2. f \in Hal /\ Steady(h, f)
  BY RunningGood, RunningSteady DEF Good, HalType
<1>3. /\ g.mgmt_rx = NoEvent /\ g.bits = f.bits /\ g.raw_for = f.raw_for
      /\ g.peers = f.peers
  BY <1>1, <1>2 DEF Hal
<1> QED BY <1>2, <1>3 DEF Calm, Steady, Allocated

(* Another peer record with the pipe of the old one.                       *)
LEMMA PeerCalm ==
    ASSUME NEW h, NEW f \in Hal, Steady(h, f), NEW s \in Pipe,
           NEW peer, peer.pipe = f.peers[s].pipe
    PROVE  /\ Calm(h, [f EXCEPT !.peers = [f.peers EXCEPT ![s] = peer]])
           /\ SlotKept(h, [f EXCEPT !.peers = [f.peers EXCEPT ![s] = peer]])
<1> DEFINE g == [f EXCEPT !.peers = [f.peers EXCEPT ![s] = peer]]
<1>1. /\ g.mgmt_rx = f.mgmt_rx /\ g.bits = f.bits /\ g.raw_for = f.raw_for
      /\ g.peers = [f.peers EXCEPT ![s] = peer] /\ f.peers \in [Pipe -> Peer]
  BY DEF Hal
<1> HIDE DEF g
<1>2. \A p \in Pipe : g.peers[p].pipe = f.peers[p].pipe
  BY <1>1
<1>3. Calm(h, g) /\ SlotKept(h, g)
  BY <1>1, <1>2, SteadyCalm
<1> QED BY <1>3 DEF g

(* Reading a data pipe.                                                    *)
LEMMA CommReadCalm ==
    ASSUME NEW h, Good(h), h.drv = "open", NEW s \in Pipe, NEW g \in CommRead(h, s)
    PROVE  Calm(h, g) /\ SlotKept(h, g)
<1>1. PICK f \in Running(h) : g = [f EXCEPT !.peers[s].rx = NoMac]
  BY DEF CommRead
<1>2. f \in Hal /\ Steady(h, f) /\ f.peers[s] \in Peer
  BY RunningGood, RunningSteady DEF Good, HalType, Hal
<1> DEFINE peer == [f.peers[s] EXCEPT !.rx = NoMac]
<1>3. peer.pipe = f.peers[s].pipe
  BY <1>2 DEF Peer
<1>4. g = [f EXCEPT !.peers = [f.peers EXCEPT ![s] = peer]]
  BY <1>1, <1>2 DEF Hal
<1> HIDE DEF peer
<1> QED BY <1>2, <1>3, <1>4, PeerCalm

(* Writing to a data pipe.                                                 *)
LEMMA CommWriteCalm ==
    ASSUME NEW h, Good(h), h.drv = "open", NEW s \in Pipe, NEW m, NEW g \in CommWrite(h, s, m)
    PROVE  Calm(h, g) /\ SlotKept(h, g)
<1>1. PICK f \in Running(h) : g = [f EXCEPT !.peers[s].tx = IF @ = NoMac THEN m ELSE @]
  BY DEF CommWrite
<1>2. f \in Hal /\ Steady(h, f) /\ f.peers[s] \in Peer
  BY RunningGood, RunningSteady DEF Good, HalType, Hal
<1> DEFINE tx == IF f.peers[s].tx = NoMac THEN m ELSE f.peers[s].tx
           peer == [f.peers[s] EXCEPT !.tx = tx]
<1>3. peer.pipe = f.peers[s].pipe
  BY <1>2 DEF Peer
<1>4. g = [f EXCEPT !.peers = [f.peers EXCEPT ![s] = peer]]
  BY <1>1, <1>2 DEF Hal
<1> HIDE DEF peer
<1> QED BY <1>2, <1>3, <1>4, PeerCalm

(* Listening uses pipe 0.                                                  *)
LEMMA CommListenCalm ==
    ASSUME NEW h, Good(h), NEW g \in CommListen(h)
    PROVE  Calm(h, g) /\ SlotKept(h, g)
<1>1. g = [h EXCEPT !.listen = TRUE, !.bits = h.bits \cup {0}] /\ h \in Hal
  BY DEF CommListen, Good, HalType
<1>2. /\ g.mgmt_rx = h.mgmt_rx /\ g.bits = h.bits \cup {0} /\ g.raw_for = h.raw_for
      /\ g.peers = h.peers
  BY <1>1 DEF Hal
<1>3. Steady(h, h)
  BY DEF Steady, SlotKept
<1> QED BY <1>2, <1>3, SteadyCalm

(* Opening the management socket.                                          *)
LEMMA CommSocketMgmtCalm ==
    ASSUME NEW h, Good(h), NEW g \in CommSocketMgmt(h)
    PROVE  Calm(h, g) /\ SlotKept(h, g)
<1> DEFINE r == IF h.mgmt_pipe = 0 THEN h.rxon ELSE TRUE
<1>1. g = [h EXCEPT !.mgmt_pipe = 0, !.rxon = r] /\ h \in Hal
  BY DEF CommSocketMgmt, Good, HalType
<1>2. /\ g.mgmt_rx = h.mgmt_rx /\ g.bits = h.bits /\ g.raw_for = h.raw_for
      /\ g.peers = h.peers
  BY <1>1 DEF Hal
<1>3. Steady(h, h)
  BY DEF Steady, SlotKept
<1> QED BY <1>2, <1>3, SteadyCalm

(* Asking for a connection.                                                *)
LEMMA CommConnectCalm ==
    ASSUME NEW h, Good(h), h.drv = "open", NEW s \in Pipe, NEW m \in MacOrNone,
           NEW g \in CommConnect(h, s, m)
    PROVE  Calm(h, g) /\ SlotKept(h, g)
<1>1. PICK r \in Running(h) : g = Connect(r, s, m)
  BY DEF CommConnect
<1>2. r \in Hal /\ Steady(h, r) /\ r.peers[s] \in Peer
  BY RunningGood, RunningSteady DEF Good, HalType, Hal
<1>3. CASE r.mgmt_tx # NoRequest
  <2>1. g = r
    BY <1>1, <1>3 DEF Connect
  <2> QED BY <1>2, <2>1, SteadyCalm
<1>4. CASE r.mgmt_tx = NoRequest
  <2> DEFINE peer == Restarted(r.peers[s], m, 1)
             f == [r EXCEPT !.mgmt_tx = [dst |-> m, idx |-> s]]
  <2>1. peer.pipe = r.peers[s].pipe
    BY <1>2, PeerRestarted
  <2> HIDE DEF peer
  <2>2. /\ g.mgmt_rx = r.mgmt_rx /\ g.bits = r.bits /\ g.raw_for = r.raw_for
        /\ g.peers = [r.peers EXCEPT ![s] = peer] /\ r.peers \in [Pipe -> Peer]
    BY <1>1, <1>2, <1>4 DEF Connect, Hal, peer
  <2>3. \A p \in Pipe : g.peers[p].pipe = r.peers[p].pipe
    BY <2>1, <2>2
  <2> QED BY <1>2, <2>2, <2>3, SteadyCalm
<1> QED BY <1>3, <1>4

(* Closing a pipe frees it.                                                *)
LEMMA CommCloseCalm ==
    ASSUME NEW h, Good(h), NEW s \in Pipe, NEW g \in CommClose(h, s)
    PROVE  Calm(h, g) /\ SlotKept(h, g) /\ ~Allocated(g, s)
<1> DEFINE told == IF h.mac = NoMac THEN {h}
                   ELSE {WriteDisconnect(h, s, ok) : ok \in Acked(h)}
<1>1. g \in IF Allocated(h, s) THEN {FreePipe(f, s) : f \in told} ELSE {h}
  BY DEF CommClose
<1>2. Steady(h, h)
  BY DEF Steady, SlotKept
<1>3. CASE ~Allocated(h, s)
  <2>1. g = h
    BY <1>1, <1>3
  <2> QED BY <1>2, <1>3, <2>1, SteadyCalm
<1>4. CASE Allocated(h, s)
  <2>1. PICK f \in told : g = FreePipe(f, s)
    BY <1>1, <1>4
  <2>2. h \in Hal
    BY DEF Good, HalType
  <2>3. Good(f) /\ Steady(h, f)
    <3>1. CASE h.mac = NoMac
      BY <1>2, <3>1
    <3>2. CASE h.mac # NoMac
      <4> DEFINE pdu == Pdu("disconnect", h.mac, h.peers[s].mac, 0)
      <4>1. PICK ok \in Acked(h) : f = Send(h, s, pdu, ok)
        BY <3>2 DEF WriteDisconnect
      <4>2. ok \in BOOLEAN /\ s \in 0..N
        <5>1. \A k \in Acked(h) : k \in BOOLEAN
          BY Zenon DEF Acked
        <5> QED BY <4>1, <5>1, NAssumption DEF Pipe
      <4>3. pdu \in PDU
        <5>1. h.mac \in MacOrNone /\ h.peers[s] \in Peer
          BY <2>2 DEF Hal
        <5> QED BY <5>1 DEF PDU, Pdu, RawType, Peer
      <4> HIDE DEF pdu
      <4>4. Good(f)
        BY <4>1, <4>2, <4>3, SendGood
      <4>5. /\ f.mgmt_rx = h.mgmt_rx /\ f.bits = h.bits /\ f.raw_for = h.raw_for
            /\ f.peers = h.peers
        BY <2>2, <4>1 DEF Send, Hal
      <4> QED BY <4>4, <4>5, SteadyFrame
    <3> QED BY <3>1, <3>2
  <2> HIDE DEF told
  <2>4. Steady(f, g) /\ ~Allocated(g, s)
    BY <2>1, <2>3, FreePipeSteady
  <2>5. Steady(h, g)
    BY <2>3, <2>4, SteadyTrans
  <2> QED BY <2>4, <2>5, SteadyCalm
<1> QED BY <1>3, <1>4

(* Opening a data pipe takes the first free one, afresh.                   *)
LEMMA CommSocketRawKept ==
    ASSUME NEW h, Good(h), h.drv = "open", NEW g \in CommSocketRaw(h)
    PROVE  /\ Kept(h, g) /\ SlotKept(h, g)
           /\ \A q \in Pipe : Allocated(g, q) => Allocated(h, q) \/ q \in FirstFree(h)
<1>1. CASE h.mgmt_pipe = -1
  <2>1. Calm(h, g) /\ SlotKept(h, g)
    BY <1>1, CommSocketMgmtCalm DEF CommSocketRaw
  <2> QED BY <2>1, CalmKept DEF Calm
<1>2. CASE h.mgmt_pipe # -1
  <2> DEFINE aa(p) == [mac |-> h.mac, idx |-> p]
             opened(p) == SetPipe(AllocPipe(h, p), p, aa(p))
  <2>1. PICK p \in FirstFree(h) : g = opened(p)
    BY <1>2 DEF CommSocketRaw
  <2>2. aa(p) \in AA /\ aa(p) # NoAA
    <3>1. p \in Pipe /\ h.mac \in MacOrNone
      BY DEF FirstFree, Good, HalType, Hal
    <3> QED BY <3>1, NAssumption DEF AA, NoAA, Pipe
  <2> HIDE DEF aa
  <2>3. /\ g.mgmt_rx = h.mgmt_rx /\ p \in Pipe
        /\ g.peers[p].rx = NoMac /\ g.peers[p].tx = NoMac /\ g.peers[p].keepalive = 0
        /\ \A q \in Pipe : q # p => g.peers[q] = h.peers[q]
    BY <2>1, <2>2, OpenPipeGood
  <2> QED BY <2>1, <2>3 DEF Kept, SlotKept, Fresh, Allocated
<1> QED BY <1>1, <1>2

(* There is at most one first free pipe.                                   *)
LEMMA FirstFreeUnique ==
    ASSUME NEW h, NEW p \in FirstFree(h), NEW q \in FirstFree(h)
    PROVE  p = q
<1>1. p \in Nat \ {0} /\ q \in Nat \ {0} /\ p <= N /\ q <= N
  BY NAssumption DEF FirstFree, Pipe
<1>2. ~Allocated(h, p) /\ ~Allocated(h, q)
  BY DEF FirstFree
<1>3. /\ \A i \in 1..(p - 1) : Allocated(h, i)
      /\ \A i \in 1..(q - 1) : Allocated(h, i)
  BY DEF FirstFree
<1>4. CASE p < q
  BY <1>1, <1>2, <1>3, <1>4
<1>5. CASE q < p
  BY <1>1, <1>2, <1>3, <1>5
<1> QED BY <1>1, <1>4, <1>5

(* hal_comm_accept, as it is called.                                       *)
LEMMA CommAcceptKept ==
    ASSUME NEW h, Good(h), h.drv = "open", NEW g \in CommAccept(h)
    PROVE  Kept(h, g)
<1>1. PICK f \in Running(h) : g \in Accept(f)
  BY DEF CommAccept
<1>2. Good(f) /\ f.drv = "open" /\ Steady(h, f)
  BY RunningGood, RunningSteady
<1>3. Kept(f, g)
  BY <1>1, <1>2, AcceptGood
<1> QED BY <1>2, <1>3 DEF Kept, SlotKept, Fresh, Steady

(* hal_comm_init opens no pipe.                                            *)
LEMMA CommInitCalm ==
    ASSUME NEW h, Good(h), NEW mac, NEW g \in CommInit(h, mac)
    PROVE  Calm(h, g) /\ SlotKept(h, g)
<1> DEFINE f == [h EXCEPT !.drv = "failed"]
           o == [h EXCEPT !.drv = "open", !.mac = mac, !.chan = "none", !.rxon = FALSE,
                          !.open = [p \in Pipe |-> NoAA], !.fifo = <<>>]
<1>1. g \in {h, f, o} /\ h \in Hal
  BY DEF CommInit, Good, HalType
<1>2. /\ f.mgmt_rx = h.mgmt_rx /\ f.bits = h.bits
      /\ f.raw_for = h.raw_for /\ f.peers = h.peers
      /\ o.mgmt_rx = h.mgmt_rx /\ o.bits = h.bits
      /\ o.raw_for = h.raw_for /\ o.peers = h.peers
  BY <1>1 DEF Hal
<1> HIDE DEF f, o
<1>3. Steady(h, h)
  BY DEF Steady, SlotKept
<1> QED BY <1>1, <1>2, <1>3, SteadyCalm

(* hal_comm_deinit frees them all.                                         *)
LEMMA CommDeinitCalm ==
    ASSUME NEW h, Good(h), NEW g \in CommDeinit(h)
    PROVE  Calm(h, g)
<1> DEFINE d == [h EXCEPT !.drv = "closed", !.peers = [p \in Pipe |-> FreePeer],
               !.mgmt_rx = NoEvent, !.mgmt_tx = NoRequest, !.mgmt_pipe = -1,
               !.bits = {0}, !.state = "START_MGMT", !.pstate = "PRESENCE",
               !.prev = "TIMEOUT_INTERVAL", !.rxon = FALSE]
<1>1. g \in {h, d} /\ h \in Hal
  BY DEF CommDeinit, Good, HalType
<1>2. d.mgmt_rx = NoEvent /\ d.bits = {0} /\ d.peers = [p \in Pipe |-> FreePeer]
  BY <1>1 DEF Hal
<1> HIDE DEF d
<1>3. \A p \in Pipe : ~Allocated(d, p)
  BY <1>2 DEF Allocated, FreePeer
<1> QED BY <1>1, <1>2, <1>3 DEF Calm

---------------------------------------------------------------------------
(* The environment.                                                        *)

(* A packet of the kind of its pipe, which the radio listens on.           *)
LEMMA ReceiveGood ==
    ASSUME NEW h, Good(h), NEW pipe \in 0..N, CanReceive(h, pipe),
           NEW pdu, [pipe |-> pipe, pdu |-> pdu] \in Received,
           pdu.type \in IF pipe = 0 THEN MgmtType ELSE RawType
    PROVE  Good(Receive(h, pipe, pdu)) /\ Receive(h, pipe, pdu).drv = h.drv
<1> DEFINE r == [pipe |-> pipe, pdu |-> pdu]
           q == Append(h.fifo, r)
           g == [h EXCEPT !.fifo = q]
<1>1. g = Receive(h, pipe, pdu)
  BY DEF Receive
<1>2. h \in Hal /\ h.fifo \in Seq(Received)
  BY DEF Good, HalType, Hal
<1>3. r.pipe = pipe /\ r.pdu = pdu /\ r \in Received
  OBVIOUS
<1> HIDE DEF r
<1>4. /\ q \in Seq(Received) /\ Len(q) = Len(h.fifo) + 1 /\ Len(h.fifo) \in Nat
      /\ \A i \in 1..Len(h.fifo) : q[i] = h.fifo[i]
      /\ q[Len(h.fifo) + 1] = r
  BY <1>2, <1>3
<1> HIDE DEF q
<1>5. g \in Hal
  BY <1>2, <1>4 DEF Hal
<1>6. /\ g.drv = h.drv /\ g.bits = h.bits /\ g.open = h.open /\ g.peers = h.peers
      /\ g.mgmt_rx = h.mgmt_rx /\ g.fifo = q /\ g.chan = h.chan /\ g.state = h.state
  BY <1>2 DEF Hal
<1> HIDE DEF g
<1>7. HalType(g)
  BY <1>4, <1>5, <1>6, FifoAssumption DEF HalType, CanReceive
<1>8. HalIdle(g) /\ HalPipesAgree(g) /\ HalKeepaliveBounded(g) /\ HalNamed(g)
  BY <1>6 DEF Good, HalIdle, HalPipesAgree, HalKeepaliveBounded, HalNamed, Allocated
<1>9. HalFifoOfChannel(g)
  <2>1. \A i \in 1..Len(q) : i \in 1..Len(h.fifo) \/ i = Len(h.fifo) + 1
    BY <1>4
  <2>2. pipe = 0 => h.chan = "mgmt"
    BY DEF CanReceive
  <2>3. HalFifoOfChannel(h)
    BY DEF Good
  <2>4. ASSUME NEW i \in 1..Len(q)
        PROVE  IF q[i].pipe = 0 THEN h.chan = "mgmt" /\ q[i].pdu.type \in MgmtType
                                ELSE q[i].pdu.type \in RawType
    <3>1. CASE i \in 1..Len(h.fifo)
      <4>1. q[i] = h.fifo[i]
        BY <1>4, <3>1
      <4> QED BY <2>3, <3>1, <4>1 DEF HalFifoOfChannel
    <3>2. CASE i = Len(h.fifo) + 1
      BY <1>3, <1>4, <2>2, <3>2
    <3> QED BY <2>1, <3>1, <3>2
  <2> QED BY <1>6, <2>3, <2>4 DEF HalFifoOfChannel
<1> QED BY <1>1, <1>6, <1>7, <1>8, <1>9 DEF Good

(* A period passes for a peer that has not expired.                        *)
LEMMA TickGood ==
    ASSUME NEW h, Good(h), NEW p \in Pipe, h.peers[p].age < KeepaliveTimeout
    PROVE  Good(Tick(h, p)) /\ Tick(h, p).drv = h.drv
<1> DEFINE peer == [h.peers[p] EXCEPT !.age = h.peers[p].age + 1]
<1>1. h \in Hal /\ h.peers[p] \in Peer
  BY DEF Good, HalType, Hal
<1>2. Tick(h, p) = [h EXCEPT !.peers = [h.peers EXCEPT ![p] = peer]]
  BY <1>1 DEF Tick, Hal
<1>3. h.peers[p].age + 1 \in 0..KeepaliveTimeout
  BY <1>1, TimeoutAssumption DEF Peer
<1>4. /\ peer \in Peer /\ peer.pipe = h.peers[p].pipe
      /\ peer.keepalive = h.peers[p].keepalive
  BY <1>1, <1>3 DEF Peer
<1> HIDE DEF peer
<1>5. peer.keepalive <= KeepaliveTimeout /\ (~Gateway => peer.keepalive = 0)
  BY <1>4 DEF Good, HalKeepaliveBounded
<1> QED BY <1>2, <1>4, <1>5, PeerGood

=============================================================================
