------------------------------ MODULE NrfLink ------------------------------
(***************************************************************************)
(* The link layer of src/hal/comm/comm_nrf24l01.c, one node's copy of it.  *)
(* The static variables of the file are the fields of one record h, and    *)
(* every hal_comm_* function (and the helpers they call) is an operator    *)
(* from a record to the SET of records the call may leave behind.  A       *)
(* caller that makes several calls in one handler threads the record       *)
(* through them, as the C code does through its globals.                   *)
(*                                                                         *)
(* Data abstraction                                                        *)
(*  - A MAC address is a member of Mac, NoMac is the address 0.            *)
(*  - The access address of a connection is the initiator's address with   *)
(*    the pipe number as its last byte: [mac, idx].                        *)
(*  - A message is one DATA_END packet (fragments: module DataLink).  The  *)
(*    buffer of a peer holds the address the message came from or is for,  *)
(*    NoMac when its length is 0; the radio itself carries no such name.   *)
(*  - peers[p].age is the time since keepalive_anchor in whole             *)
(*    NRF24_KEEPALIVE_SEND_MS periods, saturating at KeepaliveTimeout (=   *)
(*    NRF24_KEEPALIVE_TIMEOUT_MS / NRF24_KEEPALIVE_SEND_MS, 10 in the      *)
(*    code).  An anchor of 0 (memset) is that long ago.                    *)
(*  - win: the window opened by START_MGMT or START_RAW has elapsed.  The  *)
(*    second RAW condition (rt_stamp) compares a full clock with one       *)
(*    truncated to 8 bits and only ever delays win.                        *)
(*  - btime: time since the last beacon, 0 below WINDOW_BCAST, 1 below     *)
(*    INTERVAL_BCAST, 2 from there on.                                     *)
(*  - raw_for: the pipes raw_timeout was last computed for.                *)
(*  - open, chan, rxon, fifo: the radio (enabled pipes and their           *)
(*    addresses, channel, receiver on, RX FIFO); out: what the calls of a  *)
(*    step transmit, and whether each was reported successful.  Modules    *)
(*    clear it between the steps.                                          *)
(***************************************************************************)
EXTENDS Integers, Sequences, FiniteSets

CONSTANTS
    N,                  \* CONNECTION_COUNTER: data pipes of this build
    Mac,                \* the addresses of the nodes in range
    NoMac,              \* address 0
    Gateway,            \* TRUE: built without ARDUINO
    KeepaliveTimeout,   \* expiry of a silent peer, in keepalive periods
    FifoDepth           \* RX FIFO of the radio (3 in the chip)

ASSUME NAssumption == N \in Nat \ {0}
ASSUME MacAssumption == NoMac \notin Mac
ASSUME GatewayAssumption == Gateway \in BOOLEAN
ASSUME TimeoutAssumption == KeepaliveTimeout \in Nat \ {0}
ASSUME FifoAssumption == FifoDepth \in Nat \ {0}

Pipe == 1..N
MacOrNone == Mac \cup {NoMac}
AA == [mac : MacOrNone, idx : Nat]
NoAA == [mac |-> NoMac, idx |-> 0]

(* Packets.  A data packet names its writer and addressee for the sake of  *)
(* the properties only.                                                    *)
MgmtType == {"presence", "connect_req"}
RawType == {"data", "ka_req", "ka_rsp", "disconnect"}
PDU == [type : MgmtType \cup RawType, src : MacOrNone, dst : MacOrNone, idx : Nat]
Received == [pipe : 0..N, pdu : [type : MgmtType \cup RawType, src : Mac,
                                 dst : MacOrNone, idx : Nat]]
Sent == [pipe : 0..N, chan : {"none", "mgmt", "raw"}, pdu : PDU, ok : BOOLEAN]
Pdu(type, src, dst, idx) == [type |-> type, src |-> src, dst |-> dst, idx |-> idx]

(* The management event slot mgmt.buffer_rx and the request in buffer_tx.  *)
Event == [evt : {"none", "presence", "connected", "disconnected"},
          mac : MacOrNone, idx : Nat]
NoEvent == [evt |-> "none", mac |-> NoMac, idx |-> 0]
Evt(evt, mac, idx) == [evt |-> evt, mac |-> mac, idx |-> idx]
Request == [dst : MacOrNone, idx : Nat]
NoRequest == [dst |-> NoMac, idx |-> 0]

Peer == [pipe : {-1} \cup Pipe, rx : MacOrNone, tx : MacOrNone,
         age : 0..KeepaliveTimeout, keepalive : Nat, mac : MacOrNone]
FreePeer == [pipe |-> -1, rx |-> NoMac, tx |-> NoMac,
             age |-> KeepaliveTimeout, keepalive |-> 0, mac |-> NoMac]

RunState == {"START_MGMT", "MGMT", "START_RAW", "RAW"}
BcastState == {"PRESENCE", "BURST_WINDOW", "STANDBY", "TIMEOUT_INTERVAL"}

(* The statics as the program starts them, the radio powered off.          *)
HalBoot ==
    [drv |-> "closed", mac |-> NoMac, bits |-> {0}, mgmt_pipe |-> -1,
     mgmt_rx |-> NoEvent, mgmt_tx |-> NoRequest,
     peers |-> [p \in Pipe |-> FreePeer],
     state |-> "START_MGMT", sock |-> 1, win |-> FALSE,
     listen |-> FALSE, pstate |-> "PRESENCE", prev |-> "TIMEOUT_INTERVAL",
     btime |-> 2, raw_for |-> {},
     open |-> [p \in Pipe |-> NoAA], chan |-> "none", rxon |-> FALSE,
     fifo |-> <<>>, out |-> <<>>]

RawPipes(h) == h.bits \ {0}
Allocated(h, p) == h.peers[p].pipe # -1

(* Definitions named Bad... are deliberate faults: each replaces the       *)
(* definition after it in a run that shows that a property can fail.       *)

---------------------------------------------------------------------------
(* The radio, as phy_driver_nrf24.c drives it.                             *)

(* Is a transmission reported as successful?  Without auto-acknowledgement *)
(* always; with it, when an ACK came back.                                 *)
Acked(h) == IF h.chan = "raw" THEN BOOLEAN ELSE {TRUE}

Send(h, pipe, pdu, ok) ==
    [h EXCEPT !.out = Append(@, [pipe |-> pipe, chan |-> h.chan, pdu |-> pdu, ok |-> ok]),
              !.rxon = TRUE]

(* Control packets to the peer of a pipe.                                  *)
WriteDisconnect(h, s, ok) == Send(h, s, Pdu("disconnect", h.mac, h.peers[s].mac, 0), ok)

WriteKeepalive(h, s, op, ok) == Send(h, s, Pdu(op, h.mac, h.peers[s].mac, 0), ok)

(* NRF24_CMD_SET_CHANNEL: moving to another channel flushes the FIFO.      *)
BadSetChannel(h, chan) == [h EXCEPT !.chan = chan, !.rxon = TRUE]

SetChannel(h, chan) ==
    [h EXCEPT !.fifo = IF h.chan = chan THEN @ ELSE <<>>,
              !.chan = chan, !.rxon = TRUE]

(* NRF24_CMD_SET_PIPE writes the address of a pipe that is not enabled     *)
(* yet; NRF24_CMD_RESET_PIPE disables the pipe.                            *)
SetPipe(h, p, aa) ==
    [h EXCEPT !.open[p] = IF @ = NoAA THEN aa ELSE @, !.rxon = TRUE]

BadResetPipe(h, p) == [h EXCEPT !.rxon = TRUE]

ResetPipe(h, p) == [h EXCEPT !.open[p] = NoAA, !.rxon = TRUE]

---------------------------------------------------------------------------
(* Pipes and management packets.                                           *)

(* alloc_pipe takes the first free peer: the set is empty or a singleton.  *)
FirstFree(h) ==
    {p \in Pipe : ~Allocated(h, p) /\ \A q \in 1..(p - 1) : Allocated(h, q)}

BadAllocPipe(h, p) ==
    [h EXCEPT !.peers[p].pipe = p, !.bits = @ \cup {p}]

AllocPipe(h, p) ==
    [h EXCEPT !.peers[p] = [FreePeer EXCEPT !.pipe = p], !.bits = @ \cup {p}]

(* new_raw_time: the data window is sized for the pipes in use.            *)
NewRawTime(h) == [h EXCEPT !.raw_for = RawPipes(h)]

(* The tail that hal_comm_close and the keepalive expiry share: the bit,   *)
(* the peer's pipe and keepalive, the radio's pipe and the data window.    *)
FreePipe(h, p) ==
    LET g == [h EXCEPT !.bits = @ \ {p}, !.peers[p].pipe = -1,
                       !.peers[p].keepalive = 0]
    IN  NewRawTime(ResetPipe(g, p))

(* read_mgmt takes the packet out of the FIFO before it looks at the slot: *)
(* with an event pending the packet is lost.                               *)
ReadMgmt(h) ==
    IF h.fifo = <<>> \/ Head(h.fifo).pipe # 0 THEN h ELSE
    LET pdu == Head(h.fifo).pdu
        event == CASE pdu.type = "presence" /\ ~h.listen ->
                        Evt("presence", pdu.src, 0)
                   [] pdu.type = "connect_req" /\ pdu.dst = h.mac ->
                        Evt("connected", pdu.src, pdu.idx)
                   [] OTHER -> NoEvent
    IN  [h EXCEPT !.fifo = Tail(@),
                  !.mgmt_rx = IF @ = NoEvent THEN event ELSE @]

WriteMgmt(h) ==
    IF h.mgmt_tx = NoRequest THEN h ELSE
    [Send(h, 0, Pdu("connect_req", h.mac, h.mgmt_tx.dst, h.mgmt_tx.idx), TRUE)
        EXCEPT !.mgmt_tx = NoRequest]

(* INTERVAL_BCAST has passed since the last beacon.                        *)
BadBeaconDue(h) == h.btime > 2

BeaconDue(h) == h.btime = 2

(* presence_connect: one step of the beacon machine.  BURST_BCAST equals   *)
(* WINDOW_BCAST, so the branch of BURST_WINDOW back to PRESENCE is dead.   *)
PresenceConnect(h) ==
    CASE h.pstate = "PRESENCE" /\ h.mac # NoMac ->
            [Send(h, 0, Pdu("presence", h.mac, NoMac, 0), TRUE) EXCEPT
                !.btime = IF h.prev = "TIMEOUT_INTERVAL" THEN 0 ELSE @,
                !.pstate = "BURST_WINDOW"]
      [] h.pstate = "BURST_WINDOW" ->
            [h EXCEPT !.pstate = IF h.btime >= 1 THEN "STANDBY" ELSE @,
                      !.prev = "BURST_WINDOW"]
      [] h.pstate = "STANDBY" ->
            [h EXCEPT !.rxon = FALSE, !.pstate = "TIMEOUT_INTERVAL"]
      [] h.pstate = "TIMEOUT_INTERVAL" ->
            [h EXCEPT !.pstate = IF BeaconDue(h) THEN "PRESENCE" ELSE @,
                      !.prev = "TIMEOUT_INTERVAL"]
      [] OTHER -> h

---------------------------------------------------------------------------
(* The data channel.                                                       *)

(* read_raw drains the packets of pipe s from the head of the FIFO, up to  *)
(* the first packet of another pipe.  k is their number.                   *)
RunLengths(q, s) ==
    {k \in 0..Len(q) : /\ \A i \in 1..k : q[i].pipe = s
                       /\ k < Len(q) => q[k + 1].pipe # s}

(* The first of the k packets that has the given type.                     *)
FirstOf(q, k, type) ==
    {i \in 1..k : q[i].pdu.type = type /\ \A j \in 1..(i - 1) : q[j].pdu.type # type}

(* The effects of the k packets: every one resets the anchor; a response   *)
(* or data resets an enabled keepalive counter; a matching request is      *)
(* answered (one answer stands for all); the first disconnect fills the    *)
(* event slot if it is empty, the first message an empty buffer, and what  *)
(* finds its place taken is dropped.                                       *)
Drain(h, s, k, ok) ==
    LET q == h.fifo
        peer == h.peers[s]
        source(type) == q[CHOOSE i \in FirstOf(q, k, type) : TRUE].pdu.src
        alive == \E i \in 1..k : q[i].pdu.type \in {"ka_rsp", "data"}
        asked == \E i \in 1..k : q[i].pdu = Pdu("ka_req", peer.mac, h.mac, 0)
        rx == IF peer.rx = NoMac /\ FirstOf(q, k, "data") # {}
              THEN source("data") ELSE peer.rx
        event == IF h.mgmt_rx = NoEvent /\ FirstOf(q, k, "disconnect") # {}
                 THEN Evt("disconnected", source("disconnect"), 0) ELSE h.mgmt_rx
        keepalive == IF alive /\ peer.keepalive # 0 THEN 1 ELSE peer.keepalive
        served == IF k = 0 THEN peer
                  ELSE [peer EXCEPT !.rx = rx, !.age = 0, !.keepalive = keepalive]
        g == IF asked THEN WriteKeepalive(h, s, "ka_rsp", ok) ELSE h
    IN  [g EXCEPT !.fifo = SubSeq(q, k + 1, Len(q)), !.mgmt_rx = event,
                  !.peers[s] = served]

ReadRaw(h, s) ==
    UNION {{Drain(h, s, k, ok) : ok \in BOOLEAN} : k \in RunLengths(h.fifo, s)}

(* write_raw: the buffer is emptied whether the transmission succeeds or   *)
(* not.                                                                    *)
BadWriteRaw(h, s) ==
    IF h.peers[s].tx = NoMac THEN {h} ELSE
    {[Send(h, s, Pdu("data", h.mac, h.peers[s].tx, 0), ok)
        EXCEPT !.peers[s].tx = IF ok THEN NoMac ELSE @] : ok \in BOOLEAN}

WriteRaw(h, s) ==
    IF h.peers[s].tx = NoMac THEN {h} ELSE
    {[Send(h, s, Pdu("data", h.mac, h.peers[s].tx, 0), ok)
        EXCEPT !.peers[s].tx = NoMac] : ok \in BOOLEAN}

(* Is peer s given up?  It has been silent for the whole timeout and the   *)
(* event slot has room for the report.                                     *)
BadExpiredSlot(h, s) == h.peers[s].age >= KeepaliveTimeout
BadExpiredInverted(h, s) ==
    h.peers[s].age >= KeepaliveTimeout /\ h.mgmt_rx # NoEvent
BadExpiredInitiator(h, s) ==
    /\ h.peers[s].age >= KeepaliveTimeout /\ h.mgmt_rx = NoEvent
    /\ h.peers[s].keepalive # 0

Expired(h, s) == h.peers[s].age >= KeepaliveTimeout /\ h.mgmt_rx = NoEvent

(* Is it time for the next keepalive request?  0 stands for an acceptor.   *)
BadKeepaliveDue(h, s) ==
    h.peers[s].keepalive # 0 /\ h.peers[s].age >= h.peers[s].keepalive

KeepaliveDue(h, s) ==
    /\ h.peers[s].age < KeepaliveTimeout
    /\ h.peers[s].keepalive # 0 /\ h.peers[s].age >= h.peers[s].keepalive

(* check_keepalive, and what running() does about -ETIMEDOUT.              *)
CheckKeepalive(h, s) ==
    LET mac == h.peers[s].mac
        request(ok) == WriteKeepalive(h, s, "ka_req", ok)
    IN  IF Expired(h, s)
        THEN {FreePipe([h EXCEPT !.mgmt_rx = Evt("disconnected", mac, 0)], s)}
        ELSE IF KeepaliveDue(h, s)
        THEN {[request(ok) EXCEPT !.peers[s].keepalive = @ + 1] : ok \in BOOLEAN}
        ELSE {h}

---------------------------------------------------------------------------
(* running(): one step of the background machine, taken at the start of    *)
(* every read, write, accept and connect.                                  *)

StartMgmt(h) ==
    [SetChannel(h, "mgmt") EXCEPT !.win = FALSE, !.state = "MGMT"]

StartRaw(h) ==
    [SetChannel(h, "raw") EXCEPT !.win = FALSE, !.state = "RAW"]

RunMgmt(h) ==
    LET w == WriteMgmt(ReadMgmt(h))
        g == IF h.listen THEN PresenceConnect(w) ELSE w
    IN  IF RawPipes(g) # {} /\ g.win THEN [g EXCEPT !.state = "START_RAW"] ELSE g

(* The gateway leaves the data channel only while it has a free pipe, a    *)
(* thing only when it has no connection.                                   *)
BadMayLeaveRawIdle(h) == RawPipes(h) = {} /\ h.win
BadMayLeaveRawInverted(h) == RawPipes(h) # {} /\ h.win

MayLeaveRaw(h) ==
    /\ IF Gateway THEN RawPipes(h) # Pipe ELSE RawPipes(h) = {}
    /\ h.win

BadNextSock(h) == h.sock + 1

NextSock(h) == IF h.sock = N THEN 1 ELSE h.sock + 1

RunRaw(h) ==
    LET s == h.sock
        g == IF MayLeaveRaw(h) THEN [h EXCEPT !.state = "START_MGMT"] ELSE h
        served == IF ~Allocated(h, s) THEN {g}
                  ELSE UNION {UNION {CheckKeepalive(w, s) : w \in WriteRaw(r, s)} :
                              r \in ReadRaw(g, s)}
    IN  {[f EXCEPT !.sock = NextSock(h)] : f \in served}

Running(h) ==
    CASE h.state = "START_MGMT" -> {StartMgmt(h)}
      [] h.state = "MGMT" -> {RunMgmt(h)}
      [] h.state = "START_RAW" -> {StartRaw(h)}
      [] h.state = "RAW" -> RunRaw(h)

---------------------------------------------------------------------------
(* The calls of hal/comm.h.  A call that fails before it changes anything  *)
(* returns {h} and has no outcome of its own.                              *)

(* hal_comm_init: phy_open may return the index, -1 (no such driver), or   *)
(* another negative code, which stays in driverIndex.                      *)
CommInit(h, mac) ==
    IF h.drv # "closed" THEN {h} ELSE
    {h, [h EXCEPT !.drv = "failed"],
     [h EXCEPT !.drv = "open", !.mac = mac, !.chan = "none", !.rxon = FALSE,
               !.open = [p \in Pipe |-> NoAA], !.fifo = <<>>]}

(* hal_comm_deinit: phy_close refuses a negative index.  The address, the  *)
(* listen flag, sockIndex and raw_timeout keep their values.               *)
CommDeinit(h) ==
    IF h.drv # "open" THEN {h} ELSE
    {[h EXCEPT !.drv = "closed", !.peers = [p \in Pipe |-> FreePeer],
               !.mgmt_rx = NoEvent, !.mgmt_tx = NoRequest, !.mgmt_pipe = -1,
               !.bits = {0}, !.state = "START_MGMT", !.pstate = "PRESENCE",
               !.prev = "TIMEOUT_INTERVAL", !.rxon = FALSE]}

(* hal_comm_socket(PF_NRF24, PROTO_MGMT): pipe 0, once.                    *)
CommSocketMgmt(h) ==
    {[h EXCEPT !.mgmt_pipe = 0, !.rxon = IF h.mgmt_pipe = 0 THEN @ ELSE TRUE]}

(* hal_comm_socket(PF_NRF24, PROTO_RAW): pipe 0 while that one is not      *)
(* open, else the first free pipe, under the local address.  raw_timeout   *)
(* is not resized and the anchor stays 0.  Empty when every pipe is taken  *)
(* (-EUSERS).                                                              *)
CommSocketRaw(h) ==
    IF h.mgmt_pipe = -1 THEN CommSocketMgmt(h) ELSE
    {SetPipe(AllocPipe(h, p), p, [mac |-> h.mac, idx |-> p]) : p \in FirstFree(h)}

CommClose(h, s) ==
    LET told == IF h.mac = NoMac THEN {h}
                ELSE {WriteDisconnect(h, s, ok) : ok \in Acked(h)}
    IN  IF Allocated(h, s) THEN {FreePipe(g, s) : g \in told} ELSE {h}

(* hal_comm_read on pipe 0 and on a data pipe: what was read is the slot   *)
(* or buffer after running().                                              *)
CommReadMgmt(h) == {[g EXCEPT !.mgmt_rx = NoEvent] : g \in Running(h)}

CommRead(h, s) == {[g EXCEPT !.peers[s].rx = NoMac] : g \in Running(h)}

(* hal_comm_write accepts a message whenever the buffer is free (-EBUSY    *)
(* otherwise), even for a pipe that is not allocated.                      *)
CommWrite(h, s, m) ==
    {[g EXCEPT !.peers[s].tx = IF @ = NoMac THEN m ELSE @] : g \in Running(h)}

CommListen(h) == {[h EXCEPT !.listen = TRUE, !.bits = @ \cup {0}]}

(* The peer at the other end of a pipe is known: its address, the anchor   *)
(* and the keepalive counter (0 for an acceptor) are set.                  *)
Restarted(peer, m, keepalive) ==
    [peer EXCEPT !.mac = m, !.age = 0, !.keepalive = keepalive]

(* hal_comm_accept: whatever event was pending is consumed; only a         *)
(* CONNECTED one makes a connection.                                       *)
Accept(h) ==
    LET e == h.mgmt_rx
        g == [h EXCEPT !.mgmt_rx = NoEvent]
        connection(p) ==
            LET a == [SetPipe(AllocPipe(g, p), p, [mac |-> e.mac, idx |-> e.idx])
                        EXCEPT !.listen = FALSE]
            IN  [NewRawTime(a) EXCEPT !.peers[p] = Restarted(@, e.mac, 0)]
    IN  IF e.evt = "connected" /\ FirstFree(g) # {}
        THEN {connection(p) : p \in FirstFree(g)}
        ELSE {g}

CommAccept(h) == UNION {Accept(g) : g \in Running(h)}

(* hal_comm_connect: refused with -EBUSY, after running(), while an        *)
(* earlier request waits for the management channel.                       *)
Connect(h, s, m) ==
    IF h.mgmt_tx # NoRequest THEN h ELSE
    [h EXCEPT !.mgmt_tx = [dst |-> m, idx |-> s],
              !.peers[s] = Restarted(@, m, 1)]

CommConnect(h, s, m) == {Connect(g, s, m) : g \in Running(h)}

---------------------------------------------------------------------------
(* The environment of a node: the radio receives, time passes.             *)

(* The radio is in RX mode, a packet for one of its enabled pipes arrives  *)
(* and the FIFO has room.  The broadcast pipe is used on the management    *)
(* channel only.  The pipe of a connection stays enabled there too, and    *)
(* hal_comm_close tells the peer on whatever channel the node is on: such  *)
(* a packet blocks the FIFO, which read_mgmt reads from pipe 0 only, until *)
(* the next hop flushes it.                                                *)
CanReceive(h, pipe) ==
    /\ h.drv = "open"
    /\ h.rxon
    /\ Len(h.fifo) < FifoDepth
    /\ IF pipe = 0 THEN h.chan = "mgmt" /\ h.mgmt_pipe = 0
                   ELSE h.chan # "none" /\ h.open[pipe] # NoAA

(* What peers send on the pipe of a connection.                            *)
PipeTraffic(h) == IF h.chan = "raw" THEN RawType ELSE {"disconnect"}

Receive(h, pipe, pdu) ==
    [h EXCEPT !.fifo = Append(@, [pipe |-> pipe, pdu |-> pdu])]

Tick(h, p) == [h EXCEPT !.peers[p].age = @ + 1]

---------------------------------------------------------------------------
(* What the calls preserve, as predicates of a record: the modules that    *)
(* hold one turn them into invariants.                                     *)

Hal ==
    [drv : {"closed", "open", "failed"}, mac : MacOrNone, bits : SUBSET (0..N),
     mgmt_pipe : {-1, 0}, mgmt_rx : Event, mgmt_tx : Request,
     peers : [Pipe -> Peer], state : RunState, sock : Pipe, win : BOOLEAN,
     listen : BOOLEAN, pstate : BcastState, prev : BcastState, btime : 0..2,
     raw_for : SUBSET Pipe, open : [Pipe -> AA], chan : {"none", "mgmt", "raw"},
     rxon : BOOLEAN, fifo : Seq(Received), out : Seq(Sent)]

HalType(h) == h \in Hal /\ Len(h.fifo) <= FifoDepth

HalPipesAgree(h) ==
    \A p \in Pipe :
        /\ h.peers[p].pipe \in {-1, p}
        /\ Allocated(h, p) <=> p \in h.bits
        /\ h.drv = "open" => (Allocated(h, p) <=> h.open[p] # NoAA)

HalKeepaliveBounded(h) ==
    \A p \in Pipe :
        /\ h.peers[p].keepalive <= KeepaliveTimeout
        /\ ~Gateway => h.peers[p].keepalive = 0

HalFifoOfChannel(h) ==
    /\ h.state \in {"MGMT", "START_RAW"} => h.chan = "mgmt"
    /\ h.state = "RAW" => h.chan = "raw"
    /\ \A i \in 1..Len(h.fifo) :
          IF h.fifo[i].pipe = 0 THEN h.chan = "mgmt" /\ h.fifo[i].pdu.type \in MgmtType
                                ELSE h.fifo[i].pdu.type \in RawType

=============================================================================
