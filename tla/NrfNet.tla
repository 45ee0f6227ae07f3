------------------------------- MODULE NrfNet -------------------------------
(***************************************************************************)
(* The gateway daemon (module NrfManager) and the things on the air with   *)
(* it.  A thing runs the same link layer, built for one connection, under  *)
(* the loop of examples/thing.c: listen, accept, then read and look for    *)
(* events until the connection is lost, then listen again.                 *)
(*                                                                         *)
(* What a step transmits is heard in the same step, by whichever receivers *)
(* are on its channel with its address enabled and room in the FIFO; any   *)
(* of them may miss it.  A transmission on the data channel is reported    *)
(* successful when it was heard: that an acknowledgement may get lost on   *)
(* the way back changes only what the sender is told, which no caller      *)
(* reads (module DataLink has the case where it matters).                  *)
(*                                                                         *)
(* This module is about connections: messages are left out, the traffic of *)
(* the data channel is keepalives and disconnects.  The devices stay known *)
(* throughout.                                                             *)
(***************************************************************************)
EXTENDS NrfManager, SequencesExt

VARIABLES
    node,               \* the link layers of the things
    tpc                 \* where the loop of each thing is

netVars == <<vars, node, tpc>>

T == INSTANCE NrfLink WITH N <- 1, Gateway <- FALSE

(* A thing with its management socket open that has called listen.         *)
Listening(t) == [T!HalBoot EXCEPT !.drv = "open", !.mac = t,
                                  !.mgmt_pipe = 0, !.rxon = TRUE, !.listen = TRUE]

NetInit ==
    /\ Init /\ known = Thing
    /\ node = [t \in Thing |-> Listening(t)]
    /\ tpc = [t \in Thing |-> "accept"]

Connected(t) == T!Allocated(node[t], 1)

---------------------------------------------------------------------------
(* The air.                                                                *)

(* The address a node sends a packet to: the pipe it is written on.        *)
GatewayAddress(pkt) == [mac |-> Local, idx |-> pkt.pipe]
ThingAddress(t) == node[t].open[1]

(* The pipes of a receiver on the channel of the packet that take it: the  *)
(* broadcast pipe, or one of 1..n with the address it was sent to.         *)
Taking(r, n, pkt, address) ==
    {p \in 0..n : /\ CanReceive(r, p) /\ r.chan = pkt.chan
                  /\ (p = 0) <=> (pkt.pipe = 0)
                  /\ p # 0 => r.open[p] = address}

(* What is in the FIFO after the packets of out with the indices in got,   *)
(* where packet k was sent to the address to[k].                           *)
Hearing(r, n, out, to, got) ==
    LET order == SetToSortSeq(got, <)
        item(k) == [pipe |-> CHOOSE p \in Taking(r, n, out[k], to[k]) : TRUE,
                    pdu |-> out[k].pdu]
    IN  [r EXCEPT !.fifo = @ \o [i \in 1..Len(order) |-> item(order[i])]]

CanHear(r, n, out, to, got) ==
    /\ \A k \in got : Taking(r, n, out[k], to[k]) # {}
    /\ Len(r.fifo) + Cardinality(got) <= FifoDepth

Reported(out, heard) ==
    \A k \in 1..Len(out) : out[k].chan = "raw" => (out[k].ok <=> k \in heard)

(* The things hear what a step of the gateway leaves in hal.out.           *)
FromGateway ==
    LET out == hal'.out
        to == [k \in DOMAIN out |-> GatewayAddress(out[k])]
    IN  \E got \in [Thing -> SUBSET (1..Len(out))] :
            /\ \A t \in Thing : CanHear(node[t], 1, out, to, got[t])
            /\ Reported(out, UNION {got[t] : t \in Thing})
            /\ node' = [t \in Thing |-> Hearing(node[t], 1, out, to, got[t])]

(* The gateway, and other things, hear what a call of thing t sends.  The  *)
(* call leaves one of the outcomes behind.                                 *)
FromThing(t, outcomes) ==
    /\ UNCHANGED <<peers, count_clients, known, pc>>
    /\ \E g \in outcomes :
            LET out == g.out
                to == [k \in DOMAIN out |-> ThingAddress(t)]
            IN  \E got \in [Mac \ {t} -> SUBSET (1..Len(out))] :
                    /\ CanHear(hal, N, out, to, got[Local])
                    /\ \A u \in Thing \ {t} : CanHear(node[u], 1, out, to, got[u])
                    /\ Reported(out, UNION {got[u] : u \in Mac \ {t}})
                    /\ hal' = [Hearing(hal, N, out, to, got[Local]) EXCEPT !.out = <<>>]
                    /\ node' = [u \in Thing |->
                                   IF u = t THEN [g EXCEPT !.out = <<>>]
                                   ELSE Hearing(node[u], 1, out, to, got[u])]

---------------------------------------------------------------------------
(* The gateway's handlers.                                                 *)
GatewayIdle == UNCHANGED tpc /\ (MgmtRead \/ ClientRead) /\ FromGateway

GatewayKnotd(i) == UNCHANGED tpc /\ KwatchIoHup(i) /\ FromGateway

GatewayRestart ==
    /\ UNCHANGED tpc
    /\ \/ RadioStop /\ FromGateway
       \/ Crash /\ UNCHANGED node

(* The loop of a thing.                                                    *)
ThingAccept(t) ==
    /\ tpc[t] = "accept"
    /\ FromThing(t, T!CommAccept(node[t]))
    /\ tpc' = [tpc EXCEPT ![t] = IF Connected(t)' THEN "read" ELSE "accept"]

ThingRead(t) ==
    /\ tpc[t] = "read"
    /\ tpc' = [tpc EXCEPT ![t] = "event"]
    /\ FromThing(t, T!CommRead(node[t], 1))

(* Any event but a loss is ignored; a loss ends the connection, and the    *)
(* loop goes back to listen and accept.                                    *)
ThingEvent(t) ==
    /\ tpc[t] = "event"
    /\ \E lost \in BOOLEAN :
         /\ tpc' = [tpc EXCEPT ![t] = IF lost THEN "accept" ELSE "read"]
         /\ \E g \in T!Running(node[t]) :
              LET h == [g EXCEPT !.mgmt_rx = NoEvent]
              IN  /\ lost <=> g.mgmt_rx.evt = "disconnected"
                  /\ FromThing(t, IF lost THEN UNION {T!CommListen(f) : f \in T!CommClose(h, 1)}
                                  ELSE {h})

ThingStep(t) == ThingAccept(t) \/ ThingRead(t) \/ ThingEvent(t)

(* A thing loses power and starts again.                                   *)
ThingReboot(t) ==
    /\ node' = [node EXCEPT ![t] = Listening(t)]
    /\ tpc' = [tpc EXCEPT ![t] = "accept"]
    /\ UNCHANGED vars

(* Time passes on both sides, at its own pace for each timer.  A timer of  *)
(* a thing passes only in the states that look at it: that it has passed   *)
(* before is no different from its passing on the way into such a state.   *)
GatewayWindow == WindowElapses /\ UNCHANGED <<node, tpc>>

GatewayPeer(p) == PeerTime(p) /\ UNCHANGED <<node, tpc>>

ThingWindow(t) ==
    /\ node[t].state = (IF Connected(t) THEN "MGMT" ELSE "RAW") /\ ~node[t].win
    /\ node' = [node EXCEPT ![t].win = TRUE]
    /\ UNCHANGED <<vars, tpc>>

ThingBeacon(t) ==
    /\ node[t].listen /\ node[t].state = "MGMT"
    /\ \/ node[t].pstate = "BURST_WINDOW" /\ node[t].btime < 1
       \/ node[t].pstate = "TIMEOUT_INTERVAL" /\ node[t].btime < 2
    /\ node' = [node EXCEPT ![t].btime = @ + 1]
    /\ UNCHANGED <<vars, tpc>>

ThingPeer(t) ==
    /\ Connected(t) /\ node[t].peers[1].age < KeepaliveTimeout
    /\ node' = [node EXCEPT ![t] = T!Tick(@, 1)]
    /\ UNCHANGED <<vars, tpc>>

NetNext ==
    \/ GatewayIdle
    \/ \E i \in Slot : GatewayKnotd(i)
    \/ GatewayRestart
    \/ GatewayWindow
    \/ \E p \in Pipe : GatewayPeer(p)
    \/ \E t \in Thing : ThingReboot(t)
    \/ \E t \in Thing : ThingStep(t) \/ ThingWindow(t) \/ ThingBeacon(t) \/ ThingPeer(t)

NetSpec == NetInit /\ [][NetNext]_netVars

(* Both loops run, and time passes; nothing is assumed about the radio,    *)
(* about knotd or about the user.                                          *)
NetFairness ==
    /\ WF_netVars(GatewayIdle)
    /\ WF_netVars(GatewayWindow)
    /\ \A p \in Pipe : WF_netVars(GatewayPeer(p))
    /\ \A t \in Thing :
          WF_netVars(ThingStep(t)) /\ WF_netVars(ThingWindow(t)) /\ WF_netVars(ThingPeer(t))

NetFairSpec == NetSpec /\ NetFairness

---------------------------------------------------------------------------
(* Properties.                                                             *)

(* The gateway has, on the pipe the thing was told, a connection to it.    *)
Serves(t) ==
    \E p \in Pipe : /\ Allocated(hal, p) /\ hal.peers[p].mac = t
                    /\ node[t].open[1] = [mac |-> Local, idx |-> p]

(* A thing does not hold on to a connection the gateway does not have:     *)
(* hal_comm_close tells the peer once, without a retry and on whatever     *)
(* channel the node is on, a connect request may leave after its pipe was  *)
(* closed, the loss may be one-sided, and a gateway that starts again has  *)
(* forgotten all of them.                                                  *)
HalfOpenEnds == \A t \in Thing : <>[]Connected(t) => []<>Serves(t)

(* The gateway does not hold a pipe for a thing that never connected, that *)
(* gave the connection up or lost its power, although its requests and     *)
(* keepalives may all get lost: only beacons can keep the pipe without a   *)
(* connection.                                                             *)
DeadThingDropped ==
    \A p \in Pipe : <>[]Allocated(hal, p) =>
        []<>(hal.mgmt_rx.evt = "presence" \/ \E t \in Thing : Connected(t))

=============================================================================
