------------------------------ MODULE NrfComm ------------------------------
(***************************************************************************)
(* One node running the nRF24 link layer (module NrfLink) under an         *)
(* application that calls the functions of hal/comm.h in any order it      *)
(* likes, while packets of any kind arrive and time passes.  A gateway     *)
(* opens raw sockets and connects them, a thing listens and accepts.       *)
(***************************************************************************)
EXTENDS NrfLink

CONSTANTS
    Local,              \* this node's address
    Traffic             \* the kinds of packets on the data channel (a bound)

ASSUME LocalAssumption == Local \in Mac
ASSUME TrafficAssumption == Traffic \subseteq RawType

VARIABLE hal

Remote == Mac \ {Local}

Init == hal = HalBoot

Open == hal.drv = "open"

(* The node takes one of the outcomes of a call.  What the call sent left  *)
(* for the air: no one answers in this module.                             *)
Becomes(outcomes) == \E g \in outcomes : hal' = [g EXCEPT !.out = <<>>]

(* hal_comm_init and hal_comm_deinit.                                      *)
DoInit == Becomes(CommInit(hal, Local))
DoDeinit == Becomes(CommDeinit(hal))

(* The calls any application makes on an initialised driver.               *)
DoSocketMgmt == Open /\ Becomes(CommSocketMgmt(hal))
DoClose == Open /\ \E s \in Pipe : Becomes(CommClose(hal, s))
DoReadMgmt == Open /\ Becomes(CommReadMgmt(hal))
DoRead == Open /\ \E s \in Pipe : Becomes(CommRead(hal, s))
DoWrite ==
    Open /\ "data" \in Traffic
    /\ \E s \in Pipe, m \in Remote : Becomes(CommWrite(hal, s, m))

(* The initiator's calls.                                                  *)
DoSocketRaw == Open /\ Gateway /\ Becomes(CommSocketRaw(hal))
DoConnect ==
    Open /\ Gateway /\ \E s \in Pipe, m \in Remote : Becomes(CommConnect(hal, s, m))

(* The acceptor's calls.                                                   *)
DoListen == Open /\ ~Gateway /\ Becomes(CommListen(hal))
DoAccept == Open /\ ~Gateway /\ Becomes(CommAccept(hal))

(* A packet arrives.  A connect request, for this thing or another one,    *)
(* names the pipe the gateway opened for it.                               *)
ReceivePresence ==
    /\ CanReceive(hal, 0)
    /\ \E m \in Remote : hal' = Receive(hal, 0, Pdu("presence", m, NoMac, 0))

ReceiveConnectReq ==
    /\ CanReceive(hal, 0) /\ ~Gateway
    /\ \E m \in Remote, d \in Mac : hal' = Receive(hal, 0, Pdu("connect_req", m, d, 1))

ReceiveRaw(p) ==
    /\ CanReceive(hal, p)
    /\ \E t \in Traffic \cap PipeTraffic(hal), m \in Remote :
         hal' = Receive(hal, p, Pdu(t, m, Local, 0))

(* Time passes: for the window of running(), for the beacon, for a peer.   *)
WindowElapses ==
    /\ Open /\ hal.state \in {"MGMT", "RAW"} /\ ~hal.win
    /\ hal' = [hal EXCEPT !.win = TRUE]

BeaconTime ==
    /\ Open /\ hal.listen /\ hal.btime < 2
    /\ hal' = [hal EXCEPT !.btime = @ + 1]

PeerTime(p) ==
    /\ Open /\ Allocated(hal, p) /\ hal.peers[p].age < KeepaliveTimeout
    /\ hal' = Tick(hal, p)

Application ==
    \/ DoInit \/ DoDeinit
    \/ DoSocketMgmt \/ DoSocketRaw \/ DoClose
    \/ DoReadMgmt \/ DoRead \/ DoWrite
    \/ DoListen \/ DoAccept \/ DoConnect

Environment ==
    \/ ReceivePresence \/ ReceiveConnectReq
    \/ \E p \in Pipe : ReceiveRaw(p)
    \/ WindowElapses \/ BeaconTime
    \/ \E p \in Pipe : PeerTime(p)

Next == Application \/ Environment

Spec == Init /\ [][Next]_hal

---------------------------------------------------------------------------
(* Properties.                                                             *)

(* The statics of comm_nrf24l01.c stay in range.                           *)
TypeOK == HalType(hal)

(* The three records of which pipes are in use agree while the driver is   *)
(* open: peers[].pipe, pipe_bitmask and the pipes the radio has enabled,   *)
(* although open, accept, close and expiry update them one at a time.      *)
PipesAgree == HalPipesAgree(hal)

(* The keepalive counter of a peer never passes the expiry period, so a    *)
(* silent peer is asked fewer than KeepaliveTimeout times and the uint8_t  *)
(* cannot wrap; an acceptor never starts asking.                           *)
KeepaliveBounded == HalKeepaliveBounded(hal)

(* No broadcast survives a hop: while the radio is off the management      *)
(* channel the RX FIFO holds none, so that one heard before the hop never  *)
(* stands at its head for a whole data window, where no read would take it *)
(* (phy_read asks for one pipe).  Packets of a data pipe may wait on       *)
(* either channel: close and expiry leave them there.                      *)
FifoOfChannel == HalFifoOfChannel(hal)

(* An event waiting in the single management slot is never overwritten by  *)
(* a later one, nor lost in running(), which every other call begins with, *)
(* in a close or in a connect.  Three calls empty the slot: a read of the  *)
(* management socket, hal_comm_accept, which takes whatever event is there *)
(* and drops those that are not connect requests, and hal_comm_deinit.     *)
EventKept ==
    [][hal.mgmt_rx # NoEvent /\ hal'.mgmt_rx # hal.mgmt_rx =>
         /\ hal'.mgmt_rx = NoEvent
         /\ DoReadMgmt \/ DoAccept \/ DoDeinit]_hal

(* A connection starts with nothing of its predecessor on the same pipe in *)
(* its buffers and counters, although close and expiry leave them filled.  *)
FreshConnection ==
    [][\A p \in Pipe : ~Allocated(hal, p) /\ Allocated(hal', p) =>
         /\ hal'.peers[p].rx = NoMac
         /\ hal'.peers[p].tx = NoMac
         /\ hal'.peers[p].keepalive = 0]_hal

(* The main loop of an application polls the management socket for ever,   *)
(* and time passes.                                                        *)
Fairness ==
    /\ WF_hal(DoReadMgmt)
    /\ WF_hal(WindowElapses)
    /\ WF_hal(BeaconTime)
    /\ \A p \in Pipe : WF_hal(PeerTime(p))

FairSpec == Spec /\ Fairness

(* A pipe stays allocated for ever only if packets keep arriving on it: a  *)
(* peer that fell silent is given up although the event slot may be busy   *)
(* when it expires and is not looked at on the management channel.         *)
SilentPeerDropped ==
    \A p \in Pipe : <>[](Open /\ Allocated(hal, p)) => []<>(hal.peers[p].age = 0)

(* A thing that listens and has no connection sends beacons for ever: it   *)
(* returns to the management channel after a connection was lost there or  *)
(* on the data channel, and the beacon machine never stops.                *)
BeaconsForever ==
    <>[](Open /\ hal.listen /\ RawPipes(hal) = {})
        => []<><<hal.pstate = "PRESENCE" /\ hal'.pstate = "BURST_WINDOW">>_hal

=============================================================================
