--------------------------- MODULE NrfCommProofs ---------------------------
(***************************************************************************)
(* The invariants of a node (module NrfComm) for any number of pipes and   *)
(* addresses, any FIFO depth and any expiry period, under any application. *)
(* The inductive invariant is Good (module NrfLinkProofs).                 *)
(***************************************************************************)
EXTENDS NrfComm, NrfLinkProofs

Inv == Good(hal)

(* The invariant holds when the program starts.                            *)
LEMMA InitInv == Init => Inv
  BY BootGood DEF Init, Inv

(* The calls of the application.                                           *)
LEMMA ApplicationInv ==
    ASSUME Inv, Application
    PROVE  Inv'
<1>1. ASSUME NEW outcomes, Becomes(outcomes), \A g \in outcomes : Good(g)
      PROVE  Inv'
  BY <1>1, QuietGood DEF Becomes, Inv
<1>2. CASE DoInit
  BY <1>1, <1>2, CommInitGood, LocalAssumption DEF DoInit, Inv
<1>3. CASE DoDeinit
  BY <1>1, <1>3, CommDeinitGood DEF DoDeinit, Inv
<1>4. CASE DoSocketMgmt
  BY <1>1, <1>4, CommSocketMgmtGood DEF DoSocketMgmt, Open, Inv
<1>5. CASE DoSocketRaw
  BY <1>1, <1>5, CommSocketRawGood DEF DoSocketRaw, Open, Inv
<1>6. CASE DoClose
  BY <1>1, <1>6, CommCloseGood DEF DoClose, Open, Inv
<1>7. CASE DoReadMgmt
  BY <1>1, <1>7, CommReadMgmtGood DEF DoReadMgmt, Open, Inv
<1>8. CASE DoRead
  BY <1>1, <1>8, CommReadGood DEF DoRead, Open, Inv
<1>9. CASE DoWrite
  <2>1. \A m \in Remote : m \in MacOrNone
    BY DEF Remote, MacOrNone
  <2> QED BY <1>1, <1>9, <2>1, CommWriteGood DEF DoWrite, Open, Inv
<1>10. CASE DoListen
  BY <1>1, <1>10, CommListenGood DEF DoListen, Open, Inv
<1>11. CASE DoAccept
  BY <1>1, <1>11, CommAcceptGood DEF DoAccept, Open, Inv
<1>12. CASE DoConnect
  <2>1. \A m \in Remote : m \in MacOrNone
    BY DEF Remote, MacOrNone
  <2> QED BY <1>1, <1>12, <2>1, CommConnectGood DEF DoConnect, Open, Inv
<1> QED BY <1>2, <1>3, <1>4, <1>5, <1>6, <1>7, <1>8, <1>9, <1>10, <1>11, <1>12
        DEF Application

(* The clock of the windows and of the beacons is not what Good relates.   *)
LEMMA ClockInv ==
    ASSUME Inv, WindowElapses \/ BeaconTime
    PROVE  Inv'
<1>1. hal \in Hal
  BY DEF Inv, Good, HalType
<1>2. CASE WindowElapses
  <2> DEFINE g == [hal EXCEPT !.win = TRUE]
  <2>1. hal' = g
    BY <1>2 DEF WindowElapses
  <2>2. g \in Hal
    BY <1>1 DEF Hal
  <2>3. /\ g.drv = hal.drv /\ g.bits = hal.bits /\ g.open = hal.open
        /\ g.state = hal.state /\ g.chan = hal.chan /\ g.mgmt_rx = hal.mgmt_rx
        /\ g.fifo = hal.fifo /\ g.peers = hal.peers
    BY <1>1 DEF Hal
  <2> HIDE DEF g
  <2> QED BY <2>1, <2>2, <2>3, Frame DEF Inv
<1>3. CASE BeaconTime
  <2> DEFINE g == [hal EXCEPT !.btime = hal.btime + 1]
  <2>1. hal' = g /\ hal.btime < 2
    BY <1>3 DEF BeaconTime
  <2>2. hal.btime + 1 \in 0..2
    <3>1. hal.btime \in 0..2
      BY <1>1 DEF Hal
    <3> QED BY <2>1, <3>1
  <2>3. g \in Hal
    BY <1>1, <2>2 DEF Hal
  <2>4. /\ g.drv = hal.drv /\ g.bits = hal.bits /\ g.open = hal.open
        /\ g.state = hal.state /\ g.chan = hal.chan /\ g.mgmt_rx = hal.mgmt_rx
        /\ g.fifo = hal.fifo /\ g.peers = hal.peers
    BY <1>1 DEF Hal
  <2> HIDE DEF g
  <2> QED BY <2>1, <2>3, <2>4, Frame DEF Inv
<1> QED BY <1>2, <1>3

(* Packets arrive and time passes.                                         *)
LEMMA EnvironmentInv ==
    ASSUME Inv, Environment
    PROVE  Inv'
<1>1. ASSUME NEW pipe \in 0..N, CanReceive(hal, pipe), NEW t, NEW m \in Remote,
             NEW d \in MacOrNone, NEW i \in Nat,
             t \in IF pipe = 0 THEN MgmtType ELSE RawType,
             hal' = Receive(hal, pipe, Pdu(t, m, d, i))
      PROVE  Inv'
  <2> DEFINE pdu == Pdu(t, m, d, i)
  <2>1. pdu.type = t
    BY DEF Pdu
  <2>2. t \in MgmtType \cup RawType
    BY <1>1
  <2>3. pdu \in [type : MgmtType \cup RawType, src : Mac, dst : MacOrNone, idx : Nat]
    BY <2>2 DEF Pdu, Remote
  <2> HIDE DEF pdu
  <2>4. [pipe |-> pipe, pdu |-> pdu] \in Received
    BY <2>3 DEF Received
  <2>5. Good(Receive(hal, pipe, pdu))
    BY <1>1, <2>1, <2>4, ReceiveGood DEF Inv
  <2> QED BY <1>1, <2>5 DEF pdu, Inv
<1>2. 0 \in 0..N /\ NoMac \in MacOrNone /\ Local \in MacOrNone /\ 0 \in Nat /\ 1 \in Nat
  BY NAssumption, LocalAssumption DEF MacOrNone
<1>3. CASE ReceivePresence
  <2>1. PICK m \in Remote : hal' = Receive(hal, 0, Pdu("presence", m, NoMac, 0))
    BY <1>3 DEF ReceivePresence
  <2>2. CanReceive(hal, 0)
    BY <1>3 DEF ReceivePresence
  <2> QED BY <1>1, <1>2, <2>1, <2>2 DEF MgmtType
<1>4. CASE ReceiveConnectReq
  <2>1. PICK m \in Remote, d \in Mac :
            hal' = Receive(hal, 0, Pdu("connect_req", m, d, 1))
    BY <1>4 DEF ReceiveConnectReq
  <2>2. CanReceive(hal, 0) /\ d \in MacOrNone
    BY <1>4 DEF ReceiveConnectReq, MacOrNone
  <2> QED BY <1>1, <1>2, <2>1, <2>2 DEF MgmtType
<1>5. CASE \E p \in Pipe : ReceiveRaw(p)
  <2>1. PICK p \in Pipe : ReceiveRaw(p)
    BY <1>5
  <2>2. PICK t \in Traffic \cap PipeTraffic(hal), m \in Remote :
            hal' = Receive(hal, p, Pdu(t, m, Local, 0))
    BY <2>1 DEF ReceiveRaw
  <2>3. CanReceive(hal, p) /\ p \in 0..N /\ p # 0 /\ t \in RawType
    BY <2>1, NAssumption, TrafficAssumption DEF ReceiveRaw, Pipe
  <2> QED BY <1>1, <1>2, <2>2, <2>3
<1>6. CASE \E p \in Pipe : PeerTime(p)
  BY <1>6, TickGood DEF PeerTime, Inv
<1> QED BY <1>3, <1>4, <1>5, <1>6, ClockInv DEF Environment

(* Good holds in every reachable state.                                    *)
THEOREM Invariance == Spec => []Inv
<1>1. Inv /\ [Next]_hal => Inv'
  <2>1. CASE Next
    BY <2>1, ApplicationInv, EnvironmentInv DEF Next
  <2>2. CASE UNCHANGED hal
    BY <2>2 DEF Inv
  <2> QED BY <2>1, <2>2
<1> QED BY <1>1, InitInv, PTL DEF Spec

(* The statics of comm_nrf24l01.c stay in range.                           *)
THEOREM TypeCorrect == Spec => []TypeOK
<1>1. Inv => TypeOK
  BY DEF Inv, Good, TypeOK
<1> QED BY <1>1, Invariance, PTL

(* The three records of the pipes in use agree while the driver is open.   *)
THEOREM PipesAlwaysAgree == Spec => []PipesAgree
<1>1. Inv => PipesAgree
  BY DEF Inv, Good, PipesAgree
<1> QED BY <1>1, Invariance, PTL

(* The keepalive counter never passes the expiry period.                   *)
THEOREM KeepaliveAlwaysBounded == Spec => []KeepaliveBounded
<1>1. Inv => KeepaliveBounded
  BY DEF Inv, Good, KeepaliveBounded
<1> QED BY <1>1, Invariance, PTL

(* No broadcast survives a hop off the management channel.                 *)
THEOREM FifoAlwaysOfChannel == Spec => []FifoOfChannel
<1>1. Inv => FifoOfChannel
  BY DEF Inv, Good, FifoOfChannel
<1> QED BY <1>1, Invariance, PTL

---------------------------------------------------------------------------
(* Steps.                                                                  *)

(* What a step leaves for the air is not what the relations are about.     *)
LEMMA QuietKept ==
    ASSUME NEW h, NEW g, Good(g)
    PROVE  /\ Kept(h, g) => Kept(h, [g EXCEPT !.out = <<>>])
           /\ SlotKept(h, g) => SlotKept(h, [g EXCEPT !.out = <<>>])
<1> DEFINE q == [g EXCEPT !.out = <<>>]
<1>1. g \in Hal
  BY DEF Good, HalType
<1>2. q.mgmt_rx = g.mgmt_rx /\ q.peers = g.peers
  BY <1>1 DEF Hal
<1> HIDE DEF q
<1>3. (Kept(h, g) => Kept(h, q)) /\ (SlotKept(h, g) => SlotKept(h, q))
  BY <1>2 DEF Kept, SlotKept, Fresh, Allocated
<1> QED BY <1>3 DEF q

(* The calls that may empty the slot.                                      *)
Takes == DoReadMgmt \/ DoAccept \/ DoDeinit

(* The application's calls open fresh pipes, and those that do not take    *)
(* the waiting event leave it where it is.                                 *)
LEMMA ApplicationKept ==
    ASSUME Inv, Application
    PROVE  Kept(hal, hal') /\ (SlotKept(hal, hal') \/ Takes)
<1>1. ASSUME NEW outcomes, Becomes(outcomes),
             \A g \in outcomes : Good(g) /\ Kept(hal, g)
      PROVE  Kept(hal, hal')
  BY <1>1, QuietKept DEF Becomes
<1>2. ASSUME NEW outcomes, Becomes(outcomes),
             \A g \in outcomes : Good(g) /\ Kept(hal, g) /\ SlotKept(hal, g)
      PROVE  Kept(hal, hal') /\ SlotKept(hal, hal')
  BY <1>2, QuietKept DEF Becomes
<1>3. CASE DoInit
  BY <1>2, <1>3, CommInitGood, CommInitCalm, LocalAssumption, CalmKept DEF DoInit, Inv
<1>4. CASE DoDeinit
  BY <1>1, <1>4, CommDeinitGood, CommDeinitCalm, CalmKept DEF DoDeinit, Takes, Inv
<1>5. CASE DoSocketMgmt
  BY <1>2, <1>5, CommSocketMgmtGood, CommSocketMgmtCalm, CalmKept DEF DoSocketMgmt, Inv
<1>6. CASE DoSocketRaw
  BY <1>2, <1>6, CommSocketRawGood, CommSocketRawKept DEF DoSocketRaw, Open, Inv
<1>7. CASE DoClose
  BY <1>2, <1>7, CommCloseGood, CommCloseCalm, CalmKept DEF DoClose, Inv
<1>8. CASE DoReadMgmt
  BY <1>1, <1>8, CommReadMgmtGood, CommReadMgmtCalm, CalmKept
   DEF DoReadMgmt, Takes, Open, Inv
<1>9. CASE DoRead
  BY <1>2, <1>9, CommReadGood, CommReadCalm, CalmKept DEF DoRead, Open, Inv
<1>10. CASE DoWrite
  <2>1. \A m \in Remote : m \in MacOrNone
    BY DEF Remote, MacOrNone
  <2> QED BY <1>2, <1>10, <2>1, CommWriteGood, CommWriteCalm, CalmKept
           DEF DoWrite, Open, Inv
<1>11. CASE DoListen
  BY <1>2, <1>11, CommListenGood, CommListenCalm, CalmKept DEF DoListen, Open, Inv
<1>12. CASE DoAccept
  BY <1>1, <1>12, CommAcceptGood, CommAcceptKept DEF DoAccept, Takes, Open, Inv
<1>13. CASE DoConnect
  <2>1. \A m \in Remote : m \in MacOrNone
    BY DEF Remote, MacOrNone
  <2> QED BY <1>2, <1>13, <2>1, CommConnectGood, CommConnectCalm, CalmKept
           DEF DoConnect, Open, Inv
<1> QED BY <1>3, <1>4, <1>5, <1>6, <1>7, <1>8, <1>9, <1>10, <1>11, <1>12, <1>13
        DEF Application

(* The radio and the clock touch neither the event slot nor the pipes.     *)
LEMMA EnvironmentKept ==
    ASSUME Inv, Environment
    PROVE  Kept(hal, hal') /\ SlotKept(hal, hal')
<1> DEFINE Same == /\ hal'.mgmt_rx = hal.mgmt_rx
                   /\ \A p \in Pipe : hal'.peers[p].pipe = hal.peers[p].pipe
<1> SUFFICES Same
  BY DEF Kept, SlotKept, Fresh, Allocated
<1>1. hal \in Hal
  BY DEF Inv, Good, HalType
<1>2. ASSUME NEW p, NEW pdu, hal' = Receive(hal, p, pdu)
      PROVE  Same
  BY <1>1, <1>2 DEF Receive, Hal
<1>3. CASE ReceivePresence
  BY <1>2, <1>3 DEF ReceivePresence
<1>4. CASE ReceiveConnectReq
  BY <1>2, <1>4 DEF ReceiveConnectReq
<1>5. CASE \E p \in Pipe : ReceiveRaw(p)
  BY <1>2, <1>5 DEF ReceiveRaw
<1>6. CASE WindowElapses
  BY <1>1, <1>6 DEF WindowElapses, Hal
<1>7. CASE BeaconTime
  BY <1>1, <1>7 DEF BeaconTime, Hal
<1>8. CASE \E p \in Pipe : PeerTime(p)
  <2>1. PICK p \in Pipe : hal' = Tick(hal, p)
    BY <1>8 DEF PeerTime
  <2>2. hal.peers \in [Pipe -> Peer]
    BY <1>1 DEF Hal
  <2>3. /\ hal'.mgmt_rx = hal.mgmt_rx
        /\ hal'.peers = [hal.peers EXCEPT ![p].age = @ + 1]
    BY <1>1, <2>1 DEF Tick, Hal
  <2>4. \A q \in Pipe : hal'.peers[q].pipe = hal.peers[q].pipe
    BY <2>2, <2>3 DEF Peer
  <2> QED BY <2>3, <2>4
<1> QED BY <1>3, <1>4, <1>5, <1>6, <1>7, <1>8 DEF Environment

(* A step of the node.                                                     *)
LEMMA NextKept ==
    ASSUME Inv, [Next]_hal
    PROVE  Kept(hal, hal') /\ (SlotKept(hal, hal') \/ Takes)
<1>1. CASE Next
  BY <1>1, ApplicationKept, EnvironmentKept DEF Next
<1>2. CASE UNCHANGED hal
  BY <1>2 DEF Kept, SlotKept, Fresh
<1> QED BY <1>1, <1>2

(* A waiting event is never overwritten, and it leaves the slot only in    *)
(* the three calls that take it: a read of the management socket, accept   *)
(* and deinit.                                                             *)
THEOREM EventAlwaysKept == Spec => EventKept
<1>1. Inv /\ [Next]_hal =>
        [hal.mgmt_rx # NoEvent /\ hal'.mgmt_rx # hal.mgmt_rx =>
           /\ hal'.mgmt_rx = NoEvent
           /\ DoReadMgmt \/ DoAccept \/ DoDeinit]_hal
  BY NextKept DEF Kept, SlotKept, Takes
<1> QED BY <1>1, Invariance, PTL DEF Spec, EventKept

(* A connection starts with nothing of its predecessor on the same pipe.   *)
THEOREM ConnectionAlwaysFresh == Spec => FreshConnection
<1>1. Inv /\ [Next]_hal =>
        [\A p \in Pipe : ~Allocated(hal, p) /\ Allocated(hal', p) =>
           /\ hal'.peers[p].rx = NoMac
           /\ hal'.peers[p].tx = NoMac
           /\ hal'.peers[p].keepalive = 0]_hal
  BY NextKept DEF Kept, Fresh
<1> QED BY <1>1, Invariance, PTL DEF Spec, FreshConnection

=============================================================================
