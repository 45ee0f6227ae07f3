----------------------------- MODULE NrfManager -----------------------------
(***************************************************************************)
(* The connection handling of the gateway daemon, src/nrfd/manager.c, over *)
(* its link layer (module NrfLink): a GLib main loop with one idle source  *)
(* (read_idle), one watch per connection to knotd, and D-Bus calls that    *)
(* change the list of allowed devices.                                     *)
(*                                                                         *)
(* Handlers run to completion one after the other.  A handler is one step, *)
(* except read_idle, which is a step for mgmt_read and one for every       *)
(* iteration of the loop of clients_read: pc is the iteration that comes   *)
(* next, 0 between two dispatches of the main loop.  Packets arrive and    *)
(* time passes between any two steps.                                      *)
(*                                                                         *)
(* The transport to knotd is the Unix socket.  The list of known peers is  *)
(* a set here.  The table of recent beacons is never consulted by the      *)
(* connection logic and is left out.                                       *)
(***************************************************************************)
EXTENDS NrfLink, FiniteSetsExt

CONSTANTS
    Local,              \* adapter.mac
    MaxPeers,           \* MAX_PEERS
    Traffic,            \* kinds of packets on the data channel (a bound)
    OnAir               \* TRUE: what a step transmits stays in hal.out for the
                        \* receivers of a module that has some

ASSUME LocalAssumption == Local \in Mac
ASSUME DaemonAssumption == Gateway
ASSUME MaxPeersAssumption == MaxPeers \in Nat \ {0}
ASSUME TrafficAssumption == Traffic \subseteq RawType
ASSUME OnAirAssumption == OnAir \in BOOLEAN

VARIABLES
    hal,                \* the link layer
    peers,              \* struct peer peers[MAX_PEERS]
    count_clients,
    known,              \* adapter.known_peers
    pc

vars == <<hal, peers, count_clients, known, pc>>

Thing == Mac \ {Local}
Slot == 1..MaxPeers
Client == [socket_fd : {-1} \cup Pipe, mac : MacOrNone]
NoClient == [socket_fd |-> -1, mac |-> NoMac]

Held(i) == peers[i].socket_fd # -1

(* Definitions named Bad... are deliberate faults: each replaces the       *)
(* definition after it in a run that shows that a property can fail.       *)

(* check_permission: is the device among those added?                      *)
CheckPermission(m) == m \in known

(* get_peer and get_peer_index: the first slot in use by m, the first free *)
(* slot; empty for -EINVAL and -EUSERS.                                    *)
First(S) == {i \in S : \A j \in S : i <= j}
BadGetPeer(m) == First({i \in Slot : i > 1 /\ Held(i) /\ peers[i].mac = m})
GetPeer(m) == First({i \in Slot : Held(i) /\ peers[i].mac = m})
GetPeerIndex == First({i \in Slot : ~Held(i)})

(* radio_init: the driver is open, the management socket is pipe 0.        *)
Ready == [HalBoot EXCEPT !.drv = "open", !.mac = Local, !.mgmt_pipe = 0, !.rxon = TRUE]

Init ==
    /\ hal = Ready
    /\ peers = [i \in Slot |-> NoClient]
    /\ count_clients = 0
    /\ known \in SUBSET Thing
    /\ pc = 0

(* The link layer as a handler finds it: what was sent before is gone.     *)
Now == [hal EXCEPT !.out = <<>>]

(* The handler leaves one of the outcomes of its last call behind.         *)
Becomes(outcomes) ==
    \E g \in outcomes : hal' = IF OnAir THEN g ELSE [g EXCEPT !.out = <<>>]

---------------------------------------------------------------------------
(* kwatch_io_destroy: runs whenever the watch of a client goes, because    *)
(* the source was removed or because its callback returned FALSE.          *)
BadKwatchIoDestroy(h, i) ==
    /\ Becomes(CommClose(h, peers[i].socket_fd))
    /\ count_clients' = count_clients - 1
    /\ UNCHANGED peers

KwatchIoDestroy(h, i) ==
    /\ Becomes(CommClose(h, peers[i].socket_fd))
    /\ peers' = [peers EXCEPT ![i].socket_fd = -1]
    /\ count_clients' = count_clients - 1

(* evt_presence for a device that has no slot yet: a radio socket, then a  *)
(* connection to knotd, which may fail and then the radio socket is closed *)
(* again, then the connect request.                                        *)
BadNewClient(h, m) ==
    \E i \in GetPeerIndex, p \in FirstFree(h) : \E g \in CommSocketRaw(h) :
        \/ /\ Becomes({g})
           /\ UNCHANGED <<peers, count_clients>>
        \/ /\ peers' = [peers EXCEPT ![i] = [socket_fd |-> p, mac |-> m]]
           /\ count_clients' = count_clients + 1
           /\ Becomes(CommConnect(g, p, m))

NewClient(h, m) ==
    \E i \in GetPeerIndex, p \in FirstFree(h) : \E g \in CommSocketRaw(h) :
        \/ /\ Becomes(CommClose(g, p))
           /\ UNCHANGED <<peers, count_clients>>
        \/ /\ peers' = [peers EXCEPT ![i] = [socket_fd |-> p, mac |-> m]]
           /\ count_clients' = count_clients + 1
           /\ Becomes(CommConnect(g, p, m))

EvtPresence(h, m) ==
    IF ~CheckPermission(m) \/ count_clients >= MaxPeers
    THEN Becomes({h}) /\ UNCHANGED <<peers, count_clients>>
    ELSE \/ \E i \in GetPeer(m) :
              /\ Becomes(CommConnect(h, peers[i].socket_fd, m))
              /\ UNCHANGED <<peers, count_clients>>
         \/ /\ GetPeer(m) = {}
            /\ IF GetPeerIndex = {} \/ FirstFree(h) = {}
               THEN Becomes({h}) /\ UNCHANGED <<peers, count_clients>>
               ELSE NewClient(h, m)

BadEvtDisconnected(h, m) ==
    IF ~CheckPermission(m) \/ GetPeer(m) = {}
    THEN Becomes({h}) /\ UNCHANGED <<peers, count_clients>>
    ELSE \E i \in GetPeer(m) : KwatchIoDestroy(h, i)

EvtDisconnected(h, m) ==
    IF count_clients = 0 \/ GetPeer(m) = {}
    THEN Becomes({h}) /\ UNCHANGED <<peers, count_clients>>
    ELSE \E i \in GetPeer(m) : KwatchIoDestroy(h, i)

(* The loop of clients_read visits the slots in use, none when the counter *)
(* is 0.                                                                   *)
NextClient(i) ==
    IF count_clients' = 0 \/ \A j \in Slot : j <= i \/ peers'[j].socket_fd = -1 THEN 0
    ELSE Min({j \in Slot : j > i /\ peers'[j].socket_fd # -1})

(* mgmt_read: running(), then the event slot is read and dispatched.       *)
MgmtRead ==
    /\ pc = 0
    /\ \E g \in Running(Now) :
         LET e == g.mgmt_rx
             h == [g EXCEPT !.mgmt_rx = NoEvent]
         IN  CASE e.evt = "presence" -> EvtPresence(h, e.mac)
               [] e.evt = "disconnected" -> EvtDisconnected(h, e.mac)
               [] OTHER -> Becomes({h}) /\ UNCHANGED <<peers, count_clients>>
    /\ pc' = NextClient(0)
    /\ UNCHANGED known

(* One iteration of clients_read: what was read goes to knotd; when that   *)
(* write fails it is lost.                                                 *)
ClientRead ==
    /\ pc # 0
    /\ Becomes(CommRead(Now, peers[pc].socket_fd))
    /\ UNCHANGED <<peers, count_clients, known>>
    /\ pc' = NextClient(pc)

(* kwatch_io_read: knotd sent a message for the thing, which is lost if    *)
(* the last one still waits, or knotd hung up.                             *)
KwatchIoRead(i) ==
    /\ pc = 0 /\ Held(i) /\ "data" \in Traffic
    /\ Becomes(CommWrite(Now, peers[i].socket_fd, peers[i].mac))
    /\ UNCHANGED <<peers, count_clients, known, pc>>

KwatchIoHup(i) ==
    /\ pc = 0 /\ Held(i)
    /\ KwatchIoDestroy(Now, i)
    /\ UNCHANGED <<known, pc>>

(* AddDevice and RemoveDevice.  A connection in place is left alone.       *)
AddKnownDevice(m) ==
    /\ pc = 0 /\ m \notin known /\ Cardinality(known) < MaxPeers
    /\ known' = known \cup {m}
    /\ UNCHANGED <<hal, peers, count_clients, pc>>

RemoveKnownDevice(m) ==
    /\ pc = 0 /\ m \in known
    /\ known' = known \ {m}
    /\ UNCHANGED <<hal, peers, count_clients, pc>>

(* The daemon starts again; the list of known devices is in its file       *)
(* (module KnownPeers).                                                    *)
Restart(out) ==
    /\ hal' = [Ready EXCEPT !.out = out]
    /\ peers' = [i \in Slot |-> NoClient]
    /\ count_clients' = 0 /\ pc' = 0
    /\ UNCHANGED known

(* radio_stop tells the peers and closes the driver; a crash does neither. *)
RadioStop ==
    LET close(i, H) == UNION {CommClose(h, peers[i].socket_fd) : h \in H}
    IN  /\ pc = 0
        /\ \E g \in FoldSet(close, {Now}, {i \in Slot : Held(i)}) :
             \E h \in CommDeinit(g) : Restart(IF OnAir THEN h.out ELSE <<>>)

Crash == Restart(<<>>)

---------------------------------------------------------------------------
(* The radio and the clock.  A thing sends on any pipe it once was given,  *)
(* so a packet on a pipe may come from a former owner.                     *)
ReceivePresence(m) ==
    /\ CanReceive(hal, 0)
    /\ hal' = Receive(hal, 0, Pdu("presence", m, NoMac, 0))
    /\ UNCHANGED <<peers, count_clients, known, pc>>

ReceiveRaw(p, m) ==
    /\ CanReceive(hal, p)
    /\ \E t \in Traffic \cap PipeTraffic(hal) :
         hal' = Receive(hal, p, Pdu(t, m, Local, 0))
    /\ UNCHANGED <<peers, count_clients, known, pc>>

WindowElapses ==
    /\ hal.state \in {"MGMT", "RAW"} /\ ~hal.win
    /\ hal' = [hal EXCEPT !.win = TRUE]
    /\ UNCHANGED <<peers, count_clients, known, pc>>

PeerTime(p) ==
    /\ Allocated(hal, p) /\ hal.peers[p].age < KeepaliveTimeout
    /\ hal' = Tick(hal, p)
    /\ UNCHANGED <<peers, count_clients, known, pc>>

Handlers ==
    \/ MgmtRead \/ ClientRead
    \/ \E i \in Slot : KwatchIoRead(i) \/ KwatchIoHup(i)
    \/ \E m \in Thing : AddKnownDevice(m) \/ RemoveKnownDevice(m)
    \/ RadioStop \/ Crash

Environment ==
    \/ \E m \in Thing : ReceivePresence(m) \/ \E p \in Pipe : ReceiveRaw(p, m)
    \/ WindowElapses
    \/ \E p \in Pipe : PeerTime(p)

Next == Handlers \/ Environment

Spec == Init /\ [][Next]_vars

(* The idle source runs again and again, and time passes.                  *)
Fairness ==
    /\ WF_vars(MgmtRead) /\ WF_vars(ClientRead)
    /\ WF_vars(WindowElapses)
    /\ \A p \in Pipe : WF_vars(PeerTime(p))

FairSpec == Spec /\ Fairness

---------------------------------------------------------------------------
(* Properties.                                                             *)

TypeOK ==
    /\ HalType(hal)
    /\ peers \in [Slot -> Client]
    /\ count_clients \in 0..MaxPeers
    /\ known \subseteq Thing
    /\ pc \in 0..MaxPeers

(* The counter that decides whether a client is accepted and whether the   *)
(* clients are read is the number of slots in use.                         *)
CountMatches == count_clients = Cardinality({i \in Slot : Held(i)})

(* No device holds two slots, however often it asks for a connection.      *)
OneSlotPerDevice ==
    \A i, j \in Slot : Held(i) /\ Held(j) /\ peers[i].mac = peers[j].mac => i = j

(* Every pipe of the link layer that is in use belongs to a client: none   *)
(* is leaked when the connection to knotd fails, when knotd hangs up or    *)
(* when the link layer reports a loss.                                     *)
NoPipeLeaked ==
    \A p \in Pipe : Allocated(hal, p) => \E i \in Slot : peers[i].socket_fd = p

(* alloc_pipe: "One peer for pipe".                                        *)
OnePeerPerPipe ==
    \A i, j \in Slot : Held(i) /\ peers[i].socket_fd = peers[j].socket_fd => i = j

(* A pipe is in use for ever only if packets keep arriving on it or the    *)
(* event slot is refilled again and again: check_keepalive and the expiry  *)
(* in running() need the slot empty at the turn of this pipe, and beacons  *)
(* of other things can keep it full.                                       *)
SilentPeerDropped ==
    \A p \in Pipe :
        <>[]Allocated(hal, p)
            => \/ []<>(hal.peers[p].age = 0)
               \/ []<>(hal.mgmt_rx # NoEvent)

(* The gateway listens for new things again and again while it has a free  *)
(* pipe (unless it is always just starting).                               *)
MgmtRevisited == []<>(hal.chan \in {"mgmt", "none"} \/ RawPipes(hal) = Pipe)

(* The buffer of a pipe stays occupied only if knotd refills it again and  *)
(* again: a message accepted from knotd is transmitted or goes with its    *)
(* connection, whatever the division of time between the two channels.     *)
MessageServed ==
    \A p \in Pipe :
        <>[](Allocated(hal, p) /\ hal.peers[p].tx # NoMac)
            => []<><<\E i \in Slot : KwatchIoRead(i)>>_vars

(* A reported loss ends the client's connection to knotd.                  *)
LossHandled ==
    \A i \in Slot, m \in Thing :
        hal.mgmt_rx = Evt("disconnected", m, 0) /\ Held(i) /\ peers[i].mac = m
            ~> ~Held(i)

=============================================================================
