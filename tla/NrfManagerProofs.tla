-------------------------- MODULE NrfManagerProofs --------------------------
(***************************************************************************)
(* The gateway daemon's table of clients (module NrfManager), for any      *)
(* number of slots, pipes and devices: the counter is right, no device has *)
(* two slots and no pipe of the link layer is leaked.  What the calls to   *)
(* the link layer do is in NrfLinkProofs.                                  *)
(*                                                                         *)
(* radio_stop leaves a sequence of farewells in hal.out that is computed   *)
(* by a fold over the slots, of which nothing can be proved here; a        *)
(* handler drops it before it looks at the link layer (Now), so the        *)
(* invariant speaks of Now, and of hal itself when nothing is kept for the *)
(* air.                                                                    *)
(***************************************************************************)
EXTENDS NrfManager, NrfLinkProofs, FiniteSetTheorems, WellFoundedInduction

(* The link layer is open and good.                                        *)
HalInv ==
    /\ Good(Now) /\ Now.drv = "open"
    /\ ~OnAir => Good(hal)

(* The table of clients.                                                   *)
TableInv ==
    /\ peers \in [Slot -> Client]
    /\ CountMatches
    /\ OneSlotPerDevice
    /\ NoPipeLeaked

(* The iteration of clients_read that comes next is that of a slot in use. *)
CursorInv ==
    /\ pc \in 0..MaxPeers
    /\ pc # 0 => Held(pc)

Inv == HalInv /\ TableInv /\ CursorInv /\ known \subseteq Thing

---------------------------------------------------------------------------
(* Least elements.                                                         *)

Less == {ss \in Nat \X Nat : ss[1] < ss[2]}

(* A set of natural numbers that is not empty has a least element.         *)
LEMMA LeastElement ==
    ASSUME NEW S \in SUBSET Nat, S # {}
    PROVE  \E x \in S : \A y \in S : x <= y
<1>1. IsWellFoundedOn(Less, Nat)
  BY NatLessThanWellFounded DEF OpToRel, Less
<1>2. \A x, y \in Nat : y < x => <<y, x>> \in Less
  BY DEF Less
<1>3. PICK x \in S : \A y \in S : ~(<<y, x>> \in Less)
  BY <1>1, WFMin
<1>4. \A y \in S : ~(y < x)
  BY <1>2, <1>3
<1>5. \A y \in S : x <= y
  BY <1>4
<1> QED BY <1>5

(* The minimum of a set is one of its elements.                            *)
LEMMA MinElement ==
    ASSUME NEW S \in SUBSET Nat, S # {}
    PROVE  Min(S) \in S
  BY LeastElement DEF Min

(* get_peer and get_peer_index find a slot if there is one.                *)
LEMMA FirstFound ==
    ASSUME NEW S \in SUBSET Slot
    PROVE  First(S) \subseteq S /\ (First(S) = {} => S = {})
<1>1. S \in SUBSET Nat
  BY DEF Slot
<1>2. S # {} => \E x \in S : \A y \in S : x <= y
  BY <1>1, LeastElement
<1> QED BY <1>2 DEF First

(* The first slot of a device, if it has one.                              *)
LEMMA GetPeerFound ==
    ASSUME NEW m
    PROVE  /\ \A i \in GetPeer(m) : i \in Slot /\ Held(i) /\ peers[i].mac = m
           /\ GetPeer(m) = {} => ~ \E i \in Slot : Held(i) /\ peers[i].mac = m
<1> DEFINE S == {i \in Slot : Held(i) /\ peers[i].mac = m}
<1>1. First(S) \subseteq S /\ (First(S) = {} => S = {})
  BY FirstFound
<1> QED BY <1>1 DEF GetPeer

(* The first free slot.                                                    *)
LEMMA GetPeerIndexFound ==
    \A i \in GetPeerIndex : i \in Slot /\ ~Held(i)
<1> DEFINE S == {i \in Slot : ~Held(i)}
<1>1. First(S) \subseteq S
  BY FirstFound
<1> QED BY <1>1 DEF GetPeerIndex

(* The loop of clients_read goes on at a slot in use or ends.              *)
LEMMA NextClientHeld ==
    ASSUME NEW i \in 0..MaxPeers, pc' = NextClient(i)
    PROVE  CursorInv'
<1> DEFINE S == {j \in Slot : j > i /\ peers'[j].socket_fd # -1}
<1>1. S \in SUBSET Nat /\ 0 \in 0..MaxPeers /\ Slot \subseteq 0..MaxPeers
  BY MaxPeersAssumption DEF Slot
<1>2. pc' = 0 \/ (pc' = Min(S) /\ \E j \in Slot : ~(j <= i \/ peers'[j].socket_fd = -1))
  BY DEF NextClient
<1>3. CASE pc' = 0
  BY <1>1, <1>3 DEF CursorInv
<1>4. CASE pc' = Min(S) /\ \E j \in Slot : ~(j <= i \/ peers'[j].socket_fd = -1)
  <2>1. S # {}
    BY <1>4 DEF Slot
  <2>2. pc' \in S
    BY <1>1, <1>4, <2>1, MinElement
  <2> QED BY <1>1, <2>2 DEF CursorInv, Held
<1> QED BY <1>2, <1>3, <1>4

---------------------------------------------------------------------------
(* The link layer between two handlers.                                    *)

(* What a handler leaves behind is good, on the air or not.                *)
LEMMA BecomesGood ==
    ASSUME NEW outcomes, Becomes(outcomes),
           \A g \in outcomes : Good(g) /\ g.drv = "open"
    PROVE  HalInv' /\ \E g \in outcomes : hal'.peers = g.peers
<1>1. PICK g \in outcomes : hal' = IF OnAir THEN g ELSE [g EXCEPT !.out = <<>>]
  BY DEF Becomes
<1> DEFINE q == [g EXCEPT !.out = <<>>]
<1>2. Good(g) /\ g.drv = "open"
  BY <1>1
<1>3. Good(q) /\ q.drv = "open" /\ q.peers = g.peers
  BY <1>2, QuietGood
<1>4. hal' = g \/ hal' = q
  BY <1>1
<1> HIDE DEF q
<1>5. Good(hal') /\ hal'.drv = "open" /\ hal'.peers = g.peers
  BY <1>2, <1>3, <1>4
<1>6. Good([hal' EXCEPT !.out = <<>>]) /\ [hal' EXCEPT !.out = <<>>].drv = "open"
  BY <1>5, QuietGood
<1> QED BY <1>5, <1>6 DEF HalInv, Now

(* Now has the pipes of hal.                                               *)
LEMMA NowPeers ==
    ASSUME HalInv
    PROVE  Now.peers = hal.peers /\ \A p \in Pipe : Allocated(Now, p) <=> Allocated(hal, p)
<1>1. Now \in Hal
  BY DEF HalInv, Good, HalType
<1>2. DOMAIN Now = DOMAIN hal
  BY DEF Now
<1>3. "peers" \in DOMAIN Now
  BY <1>1 DEF Hal
<1>4. Now.peers = hal.peers
  BY <1>2, <1>3 DEF Now
<1> QED BY <1>4 DEF Allocated

---------------------------------------------------------------------------
(* Changes of the table.                                                   *)

(* No client comes or goes, no pipe is opened.                             *)
LEMMA SameTable ==
    ASSUME TableInv, UNCHANGED <<peers, count_clients>>,
           \A p \in Pipe : Allocated(hal', p) => Allocated(hal, p)
    PROVE  TableInv'
  BY DEF TableInv, CountMatches, OneSlotPerDevice, NoPipeLeaked, Held, Slot

(* The number of slots in use.                                             *)
LEMMA HeldFinite ==
    ASSUME NEW T \in SUBSET Slot
    PROVE  IsFiniteSet(T) /\ Cardinality(T) \in 0..MaxPeers
<1>1. IsFiniteSet(Slot) /\ Cardinality(Slot) = MaxPeers
  <2>1. 1 \in Int /\ MaxPeers \in Int /\ ~(1 > MaxPeers) /\ MaxPeers - 1 + 1 = MaxPeers
    BY MaxPeersAssumption
  <2> QED BY <2>1, FS_Interval DEF Slot
<1>2. IsFiniteSet(T) /\ Cardinality(T) <= MaxPeers
  BY <1>1, FS_Subset
<1>3. Cardinality(T) \in Nat
  BY <1>2, FS_CardinalityType
<1> QED BY <1>2, <1>3, MaxPeersAssumption

(* A client leaves its slot and its pipe.                                  *)
LEMMA LeaveTable ==
    ASSUME TableInv, NEW i \in Slot, Held(i),
           peers' = [peers EXCEPT ![i].socket_fd = -1],
           count_clients' = count_clients - 1,
           \A p \in Pipe : Allocated(hal', p) =>
               Allocated(hal, p) /\ p # peers[i].socket_fd
    PROVE  TableInv'
<1> DEFINE S == {j \in Slot : Held(j)}
           client == [peers[i] EXCEPT !.socket_fd = -1]
<1>1. peers \in [Slot -> Client]
  BY DEF TableInv
<1>2. client \in Client /\ client.socket_fd = -1 /\ client.mac = peers[i].mac
  BY <1>1 DEF Client
<1> HIDE DEF client
<1>3. peers' = [peers EXCEPT ![i] = client]
  BY DEF client
<1>4. /\ peers' \in [Slot -> Client]
      /\ peers'[i] = client
      /\ \A j \in Slot : j # i => peers'[j] = peers[j]
  BY <1>1, <1>2, <1>3
<1>5. CountMatches'
  <2>1. {j \in Slot : Held(j)}' = S \ {i}
    BY <1>2, <1>4 DEF Held, Slot
  <2>2. IsFiniteSet(S) /\ Cardinality(S) \in Nat
    BY HeldFinite, MaxPeersAssumption
  <2>3. Cardinality(S \ {i}) = Cardinality(S) - 1
    BY <2>2, FS_RemoveElement
  <2> QED BY <2>1, <2>3 DEF CountMatches, TableInv
<1>6. \A j \in Slot : Held(j)' => j # i /\ Held(j)
  BY <1>2, <1>4 DEF Held
<1>7. OneSlotPerDevice'
  BY <1>4, <1>6 DEF OneSlotPerDevice, TableInv, Slot
<1>8. NoPipeLeaked'
  <2>1. ASSUME NEW p \in Pipe, Allocated(hal', p)
        PROVE  \E j \in Slot : peers'[j].socket_fd = p
    BY <1>4, <2>1 DEF NoPipeLeaked, TableInv
  <2> QED BY <2>1 DEF NoPipeLeaked, Slot, Pipe, Allocated
<1> QED BY <1>4, <1>5, <1>7, <1>8 DEF TableInv

(* A device that has none gets a slot, with the pipe that was opened.      *)
LEMMA EnterTable ==
    ASSUME TableInv, NEW i \in Slot, ~Held(i), NEW p \in Pipe, NEW m \in MacOrNone,
           ~ \E j \in Slot : Held(j) /\ peers[j].mac = m,
           peers' = [peers EXCEPT ![i] = [socket_fd |-> p, mac |-> m]],
           count_clients' = count_clients + 1,
           \A q \in Pipe : Allocated(hal', q) => Allocated(hal, q) \/ q = p
    PROVE  TableInv'
<1> DEFINE S == {j \in Slot : Held(j)}
           client == [socket_fd |-> p, mac |-> m]
<1>1. peers \in [Slot -> Client]
  BY DEF TableInv
<1>2. client \in Client /\ client.socket_fd = p /\ client.mac = m /\ p # -1
  BY NAssumption DEF Client, Pipe
<1> HIDE DEF client
<1>3. peers' = [peers EXCEPT ![i] = client]
  BY DEF client
<1>4. /\ peers' \in [Slot -> Client]
      /\ peers'[i] = client
      /\ \A j \in Slot : j # i => peers'[j] = peers[j]
  BY <1>1, <1>2, <1>3
<1>5. CountMatches'
  <2>1. {j \in Slot : Held(j)}' = S \cup {i} /\ i \notin S
    BY <1>2, <1>4 DEF Held, Slot
  <2>2. IsFiniteSet(S)
    BY HeldFinite
  <2>3. Cardinality(S \cup {i}) = Cardinality(S) + 1
    BY <2>1, <2>2, FS_AddElement
  <2> QED BY <2>1, <2>3 DEF CountMatches, TableInv
<1>6. \A j \in Slot : j # i => (Held(j)' <=> Held(j))
  BY <1>4 DEF Held
<1>7. OneSlotPerDevice'
  <2>1. ASSUME NEW j \in Slot, NEW k \in Slot, Held(j)', Held(k)',
               peers'[j].mac = peers'[k].mac
        PROVE  j = k
    <3>1. CASE j # i /\ k # i
      BY <1>4, <1>6, <2>1, <3>1 DEF OneSlotPerDevice, TableInv
    <3>2. CASE j = i /\ k # i
      BY <1>2, <1>4, <1>6, <2>1, <3>2
    <3>3. CASE j # i /\ k = i
      BY <1>2, <1>4, <1>6, <2>1, <3>3
    <3> QED BY <3>1, <3>2, <3>3
  <2> QED BY <2>1 DEF OneSlotPerDevice, Slot
<1>8. NoPipeLeaked'
  <2>1. ASSUME NEW q \in Pipe, Allocated(hal', q)
        PROVE  \E j \in Slot : peers'[j].socket_fd = q
    <3>1. CASE q = p
      BY <1>2, <1>4, <3>1
    <3>2. CASE q # p
      <4>1. PICK j \in Slot : peers[j].socket_fd = q
        BY <2>1, <3>2 DEF NoPipeLeaked, TableInv
      <4>2. j # i
        BY <4>1, NAssumption DEF Held, Pipe
      <4> QED BY <1>4, <4>1, <4>2
    <3> QED BY <3>1, <3>2
  <2> QED BY <2>1 DEF NoPipeLeaked, Slot, Pipe, Allocated
<1> QED BY <1>4, <1>5, <1>7, <1>8 DEF TableInv

---------------------------------------------------------------------------
(* The handlers.                                                           *)

(* A link layer that a handler has worked on without opening a pipe.       *)
Handled(h) ==
    /\ Good(h) /\ h.drv = "open"
    /\ \A p \in Pipe : Allocated(h, p) => Allocated(hal, p)

(* A handler whose last call opens no pipe and that leaves the table alone.*)
LEMMA CalmHandler ==
    ASSUME TableInv, NEW h, Handled(h), NEW outcomes, Becomes(outcomes),
           \A g \in outcomes : Good(g) /\ g.drv = "open" /\ Calm(h, g),
           UNCHANGED <<peers, count_clients>>
    PROVE  HalInv' /\ TableInv'
<1>1. PICK g \in outcomes : HalInv' /\ hal'.peers = g.peers
  BY BecomesGood
<1>2. \A p \in Pipe : Allocated(hal', p) => Allocated(hal, p)
  BY <1>1 DEF Calm, Handled, Allocated
<1> QED BY <1>1, <1>2, SameTable

(* Leaving everything as it is.                                            *)
LEMMA IdleHandler ==
    ASSUME TableInv, NEW h, Handled(h), Becomes({h}),
           UNCHANGED <<peers, count_clients>>
    PROVE  HalInv' /\ TableInv'
<1>1. Calm(h, h)
  BY DEF Calm
<1> QED BY <1>1, CalmHandler DEF Handled

(* kwatch_io_destroy.                                                      *)
LEMMA DestroyHandler ==
    ASSUME TableInv, NEW h, Handled(h), NEW i \in Slot, Held(i), KwatchIoDestroy(h, i)
    PROVE  HalInv' /\ TableInv'
<1> DEFINE s == peers[i].socket_fd
<1>1. s \in Pipe
  BY DEF TableInv, Client, Held
<1>2. \A g \in CommClose(h, s) :
          Good(g) /\ g.drv = "open" /\ Calm(h, g) /\ ~Allocated(g, s)
  BY <1>1, CommCloseGood, CommCloseCalm DEF Handled
<1>3. PICK g \in CommClose(h, s) : HalInv' /\ hal'.peers = g.peers
  BY <1>2, BecomesGood DEF KwatchIoDestroy
<1>4. \A p \in Pipe : Allocated(hal', p) => Allocated(hal, p) /\ p # s
  BY <1>2, <1>3 DEF Calm, Handled, Allocated
<1> QED BY <1>3, <1>4, LeaveTable DEF KwatchIoDestroy

(* A new client, or the radio socket given back.                           *)
LEMMA NewClientHandler ==
    ASSUME TableInv, NEW h, Handled(h), NEW m \in MacOrNone, GetPeer(m) = {},
           NewClient(h, m)
    PROVE  HalInv' /\ TableInv'
<1>1. PICK i \in GetPeerIndex, p \in FirstFree(h) : \E g \in CommSocketRaw(h) :
        \/ /\ Becomes(CommClose(g, p))
           /\ UNCHANGED <<peers, count_clients>>
        \/ /\ peers' = [peers EXCEPT ![i] = [socket_fd |-> p, mac |-> m]]
           /\ count_clients' = count_clients + 1
           /\ Becomes(CommConnect(g, p, m))
  BY DEF NewClient
<1>2. PICK g \in CommSocketRaw(h) :
        \/ /\ Becomes(CommClose(g, p))
           /\ UNCHANGED <<peers, count_clients>>
        \/ /\ peers' = [peers EXCEPT ![i] = [socket_fd |-> p, mac |-> m]]
           /\ count_clients' = count_clients + 1
           /\ Becomes(CommConnect(g, p, m))
  BY <1>1
<1>3. i \in Slot /\ ~Held(i) /\ p \in Pipe
  BY GetPeerIndexFound DEF FirstFree
<1>4. Good(g) /\ g.drv = "open"
  BY CommSocketRawGood DEF Handled
<1>5. \A q \in Pipe : Allocated(g, q) => Allocated(h, q) \/ q = p
  BY CommSocketRawKept, FirstFreeUnique DEF Handled
<1>6. CASE Becomes(CommClose(g, p)) /\ UNCHANGED <<peers, count_clients>>
  <2>1. \A f \in CommClose(g, p) :
            Good(f) /\ f.drv = "open" /\ Calm(g, f) /\ ~Allocated(f, p)
    BY <1>3, <1>4, CommCloseGood, CommCloseCalm
  <2>2. PICK f \in CommClose(g, p) : HalInv' /\ hal'.peers = f.peers
    BY <1>6, <2>1, BecomesGood
  <2>3. \A q \in Pipe : Allocated(hal', q) => Allocated(hal, q)
    BY <1>5, <2>1, <2>2 DEF Calm, Handled, Allocated
  <2> QED BY <1>6, <2>2, <2>3, SameTable
<1>7. CASE /\ peers' = [peers EXCEPT ![i] = [socket_fd |-> p, mac |-> m]]
           /\ count_clients' = count_clients + 1
           /\ Becomes(CommConnect(g, p, m))
  <2>1. \A f \in CommConnect(g, p, m) : Good(f) /\ f.drv = "open" /\ Calm(g, f)
    BY <1>3, <1>4, DaemonAssumption, CommConnectGood, CommConnectCalm
  <2>2. PICK f \in CommConnect(g, p, m) : HalInv' /\ hal'.peers = f.peers
    BY <1>7, <2>1, BecomesGood
  <2>3. \A q \in Pipe : Allocated(hal', q) => Allocated(hal, q) \/ q = p
    BY <1>5, <2>1, <2>2 DEF Calm, Handled, Allocated
  <2>4. ~ \E j \in Slot : Held(j) /\ peers[j].mac = m
    BY GetPeerFound
  <2> QED BY <1>3, <1>7, <2>2, <2>3, <2>4, EnterTable
<1> QED BY <1>2, <1>6, <1>7

(* evt_presence.                                                           *)
LEMMA PresenceHandler ==
    ASSUME TableInv, NEW h, Handled(h), NEW m \in MacOrNone, EvtPresence(h, m)
    PROVE  HalInv' /\ TableInv'
<1>1. CASE Becomes({h}) /\ UNCHANGED <<peers, count_clients>>
  BY <1>1, IdleHandler
<1>2. CASE \E i \in GetPeer(m) : /\ Becomes(CommConnect(h, peers[i].socket_fd, m))
                                 /\ UNCHANGED <<peers, count_clients>>
  <2>1. PICK i \in GetPeer(m) : /\ Becomes(CommConnect(h, peers[i].socket_fd, m))
                               /\ UNCHANGED <<peers, count_clients>>
    BY <1>2
  <2>2. peers[i].socket_fd \in Pipe
    BY GetPeerFound DEF TableInv, Client, Held
  <2>3. \A g \in CommConnect(h, peers[i].socket_fd, m) :
            Good(g) /\ g.drv = "open" /\ Calm(h, g)
    BY <2>2, DaemonAssumption, CommConnectGood, CommConnectCalm DEF Handled
  <2> QED BY <2>1, <2>3, CalmHandler
<1>3. CASE GetPeer(m) = {} /\ NewClient(h, m)
  BY <1>3, NewClientHandler
<1> QED BY <1>1, <1>2, <1>3 DEF EvtPresence

(* evt_disconnected.                                                       *)
LEMMA DisconnectedHandler ==
    ASSUME TableInv, NEW h, Handled(h), NEW m, EvtDisconnected(h, m)
    PROVE  HalInv' /\ TableInv'
<1>1. CASE Becomes({h}) /\ UNCHANGED <<peers, count_clients>>
  BY <1>1, IdleHandler
<1>2. CASE \E i \in GetPeer(m) : KwatchIoDestroy(h, i)
  BY <1>2, GetPeerFound, DestroyHandler
<1> QED BY <1>1, <1>2 DEF EvtDisconnected

(* mgmt_read.                                                              *)
LEMMA MgmtReadInv ==
    ASSUME Inv, MgmtRead
    PROVE  HalInv' /\ TableInv' /\ CursorInv'
<1>1. PICK g \in Running(Now) :
         LET e == g.mgmt_rx
             h == [g EXCEPT !.mgmt_rx = NoEvent]
         IN  CASE e.evt = "presence" -> EvtPresence(h, e.mac)
               [] e.evt = "disconnected" -> EvtDisconnected(h, e.mac)
               [] OTHER -> Becomes({h}) /\ UNCHANGED <<peers, count_clients>>
  BY DEF MgmtRead
<1> DEFINE e == g.mgmt_rx
           h == [g EXCEPT !.mgmt_rx = NoEvent]
<1>2. Good(g) /\ g.drv = "open" /\ Steady(Now, g)
  BY RunningGood, RunningSteady DEF Inv, HalInv
<1>3. Good(h) /\ h.drv = "open" /\ h.peers = g.peers
  BY <1>2, NoEventGood
<1>4. e.mac \in MacOrNone
  BY <1>2 DEF Good, HalType, Hal, Event
<1>5. \/ EvtPresence(h, e.mac)
      \/ EvtDisconnected(h, e.mac)
      \/ Becomes({h}) /\ UNCHANGED <<peers, count_clients>>
  BY <1>1, Zenon
<1> HIDE DEF h, e
<1>6. Handled(h)
  BY <1>2, <1>3, NowPeers DEF Handled, Steady, Allocated, Inv
<1>7. HalInv' /\ TableInv'
  BY <1>4, <1>5, <1>6, PresenceHandler, DisconnectedHandler, IdleHandler DEF Inv
<1>8. 0 \in 0..MaxPeers /\ pc' = NextClient(0)
  BY MaxPeersAssumption DEF MgmtRead
<1> QED BY <1>7, <1>8, NextClientHeld

(* Now is a link layer no handler has worked on yet.                       *)
LEMMA NowHandled ==
    ASSUME HalInv
    PROVE  Handled(Now)
  BY NowPeers DEF Handled, HalInv

(* One iteration of clients_read.                                          *)
LEMMA ClientReadInv ==
    ASSUME Inv, ClientRead
    PROVE  HalInv' /\ TableInv' /\ CursorInv'
<1>1. pc \in Slot /\ Held(pc) /\ pc \in 0..MaxPeers
  BY MaxPeersAssumption DEF ClientRead, Inv, CursorInv, Slot
<1>2. peers[pc].socket_fd \in Pipe
  BY <1>1 DEF Inv, TableInv, Client, Held
<1>3. \A g \in CommRead(Now, peers[pc].socket_fd) :
          Good(g) /\ g.drv = "open" /\ Calm(Now, g)
  BY <1>2, CommReadGood, CommReadCalm DEF Inv, HalInv
<1>4. HalInv' /\ TableInv'
  BY <1>3, NowHandled, CalmHandler DEF Inv, ClientRead
<1> QED BY <1>1, <1>4, NextClientHeld DEF ClientRead

(* The watches of knotd's connections.                                     *)
LEMMA KwatchInv ==
    ASSUME Inv, NEW i \in Slot, KwatchIoRead(i) \/ KwatchIoHup(i)
    PROVE  HalInv' /\ TableInv' /\ CursorInv'
<1>1. Held(i) /\ pc = 0 /\ pc' = 0 /\ Handled(Now)
  BY NowHandled DEF KwatchIoRead, KwatchIoHup, Inv
<1>2. peers[i].socket_fd \in Pipe /\ peers[i].mac \in MacOrNone
  BY <1>1 DEF Inv, TableInv, Client, Held
<1>3. CursorInv'
  BY <1>1, MaxPeersAssumption DEF CursorInv
<1>4. CASE KwatchIoRead(i)
  <2>1. \A g \in CommWrite(Now, peers[i].socket_fd, peers[i].mac) :
            Good(g) /\ g.drv = "open" /\ Calm(Now, g)
    BY <1>2, CommWriteGood, CommWriteCalm DEF Inv, HalInv
  <2> QED BY <1>1, <1>3, <1>4, <2>1, CalmHandler DEF Inv, KwatchIoRead
<1>5. CASE KwatchIoHup(i)
  BY <1>1, <1>3, <1>5, DestroyHandler DEF Inv, KwatchIoHup
<1> QED BY <1>4, <1>5

(* The daemon starts with a good link layer and an empty table.            *)
LEMMA ReadyGood == Good(Ready) /\ Ready.drv = "open" /\ Ready.out = <<>>
                     /\ \A p \in Pipe : ~Allocated(Ready, p)
<1>1. HalBoot \in Hal /\ Good(HalBoot)
  BY BootGood DEF Good, HalType
<1>2. /\ HalBoot.open = [p \in Pipe |-> NoAA] /\ HalBoot.out = <<>>
      /\ HalBoot.state = "START_MGMT" /\ HalBoot.chan = "none"
      /\ HalBoot.peers = [p \in Pipe |-> FreePeer] /\ HalBoot.bits = {0}
  BY DEF HalBoot
<1>3. Ready \in Hal
  BY <1>1, LocalAssumption DEF Ready, Hal, MacOrNone
<1>4. /\ Ready.drv = "open" /\ Ready.bits = HalBoot.bits /\ Ready.open = HalBoot.open
      /\ Ready.state = HalBoot.state /\ Ready.chan = HalBoot.chan
      /\ Ready.mgmt_rx = HalBoot.mgmt_rx /\ Ready.fifo = HalBoot.fifo
      /\ Ready.peers = HalBoot.peers /\ Ready.out = HalBoot.out
  BY <1>1 DEF Ready, Hal
<1>5. \A p \in Pipe : ~Allocated(Ready, p)
  BY <1>2, <1>4 DEF Allocated, FreePeer
<1>6. HalType(Ready) /\ HalKeepaliveBounded(Ready) /\ HalFifoOfChannel(Ready)
  BY <1>1, <1>3, <1>4
     DEF Good, HalType, HalKeepaliveBounded, HalFifoOfChannel
<1>7. HalNamed(Ready) /\ HalIdle(Ready)
  BY <1>1, <1>4 DEF Good, HalNamed, HalIdle
<1>8. HalPipesAgree(Ready)
  BY <1>1, <1>2, <1>4, <1>5 DEF Good, HalPipesAgree, Allocated
<1> QED BY <1>2, <1>4, <1>5, <1>6, <1>7, <1>8 DEF Good

(* An empty table.                                                         *)
LEMMA NoHeld ==
    ASSUME peers = [i \in Slot |-> NoClient], count_clients = 0, pc = 0,
           \A p \in Pipe : ~Allocated(hal, p)
    PROVE  TableInv /\ CursorInv
<1>1. NoClient \in Client
  BY DEF NoClient, Client, MacOrNone
<1>2. \A i \in Slot : ~Held(i)
  BY DEF Held, NoClient
<1>3. CountMatches
  <2>1. {i \in Slot : Held(i)} = {}
    BY <1>2
  <2> QED BY <2>1, FS_EmptySet DEF CountMatches
<1> QED BY <1>1, <1>2, <1>3, MaxPeersAssumption
        DEF TableInv, CursorInv, OneSlotPerDevice, NoPipeLeaked

(* radio_stop and a crash, then the start.                                 *)
LEMMA RestartInv ==
    ASSUME NEW out, Restart(out), ~OnAir => out = <<>>
    PROVE  HalInv' /\ TableInv' /\ CursorInv'
<1>1. Ready \in Hal
  BY ReadyGood DEF Good, HalType
<1>2. hal' = [Ready EXCEPT !.out = out]
  BY DEF Restart
<1>3. [hal' EXCEPT !.out = <<>>] = Ready /\ hal'.peers = Ready.peers
  BY <1>1, <1>2, ReadyGood DEF Hal
<1>4. ~OnAir => hal' = Ready
  BY <1>1, <1>2, ReadyGood DEF Hal
<1>5. HalInv'
  BY <1>3, <1>4, ReadyGood DEF HalInv, Now
<1>6. \A p \in Pipe : ~Allocated(hal', p)
  BY <1>3, ReadyGood DEF Allocated
<1>7. TableInv' /\ CursorInv'
  <2>1. peers' = [i \in Slot |-> NoClient] /\ count_clients' = 0 /\ pc' = 0
    BY DEF Restart
  <2>2. \A i \in Slot : ~Held(i)'
    BY <2>1 DEF Held, NoClient
  <2>3. CountMatches'
    <3>1. {i \in Slot : Held(i)}' = {}
      BY <2>2 DEF Slot
    <3> QED BY <2>1, <3>1, FS_EmptySet DEF CountMatches
  <2>4. NoClient \in Client
    BY DEF NoClient, Client, MacOrNone
  <2> QED BY <1>6, <2>1, <2>2, <2>3, <2>4, MaxPeersAssumption
          DEF TableInv, CursorInv, OneSlotPerDevice, NoPipeLeaked, Slot, Pipe, Allocated
<1> QED BY <1>5, <1>7

(* Every handler.                                                          *)
LEMMA HandlersInv ==
    ASSUME Inv, Handlers
    PROVE  Inv'
<1>1. known' \subseteq Thing
  BY DEF Inv, Handlers, MgmtRead, ClientRead, KwatchIoRead, KwatchIoHup,
         AddKnownDevice, RemoveKnownDevice, RadioStop, Crash, Restart, Thing
<1> SUFFICES HalInv' /\ TableInv' /\ CursorInv'
  BY <1>1 DEF Inv, Thing
<1>2. CASE MgmtRead
  BY <1>2, MgmtReadInv
<1>3. CASE ClientRead
  BY <1>3, ClientReadInv
<1>4. CASE \E i \in Slot : KwatchIoRead(i) \/ KwatchIoHup(i)
  BY <1>4, KwatchInv
<1>5. CASE \E m \in Thing : AddKnownDevice(m) \/ RemoveKnownDevice(m)
  <2>1. UNCHANGED <<hal, peers, count_clients, pc>>
    BY <1>5 DEF AddKnownDevice, RemoveKnownDevice
  <2> QED BY <2>1 DEF Inv, HalInv, TableInv, CursorInv, CountMatches, OneSlotPerDevice,
                      NoPipeLeaked, Held, Now, Allocated, Slot
<1>6. CASE RadioStop
  <2>1. PICK h : Restart(IF OnAir THEN h.out ELSE <<>>)
    BY <1>6 DEF RadioStop
  <2> QED BY <2>1, RestartInv
<1>7. CASE Crash
  BY <1>7, RestartInv DEF Crash
<1> QED BY <1>2, <1>3, <1>4, <1>5, <1>6, <1>7 DEF Handlers

---------------------------------------------------------------------------
(* The radio and the clock.                                                *)

(* A step of the environment changes hal and Now alike.                    *)
LEMMA EnvironmentTable ==
    ASSUME Inv, UNCHANGED <<peers, count_clients, known, pc>>,
           NEW g, Good(g), g.drv = "open", Now' = g, ~OnAir => Good(hal'),
           DOMAIN hal' = DOMAIN hal,
           \A p \in Pipe : g.peers[p].pipe = Now.peers[p].pipe
    PROVE  Inv'
<1>1. HalInv'
  BY DEF HalInv
<1>2. g \in Hal /\ hal'.peers = g.peers
  <2>1. g \in Hal
    BY DEF Good, HalType
  <2>2. DOMAIN g = DOMAIN hal' /\ "peers" \in DOMAIN g
    BY <2>1 DEF Now, Hal
  <2> QED BY <2>1, <2>2 DEF Now
<1>3. \A p \in Pipe : Allocated(hal', p) => Allocated(hal, p)
  BY <1>2, NowPeers DEF Allocated, Inv
<1>4. TableInv'
  BY <1>3, SameTable DEF Inv
<1> QED BY <1>1, <1>4 DEF Inv, CursorInv, Held, Thing, Slot

(* A packet arrives.                                                       *)
LEMMA ReceiveInv ==
    ASSUME Inv, UNCHANGED <<peers, count_clients, known, pc>>,
           NEW pipe \in 0..N, CanReceive(hal, pipe), NEW t, NEW m \in Mac,
           NEW d \in MacOrNone,
           t \in IF pipe = 0 THEN MgmtType ELSE RawType,
           hal' = Receive(hal, pipe, Pdu(t, m, d, 0))
    PROVE  Inv'
<1> DEFINE pdu == Pdu(t, m, d, 0)
           r == [pipe |-> pipe, pdu |-> pdu]
<1>1. t \in MgmtType \cup RawType /\ pdu.type = t
  BY DEF Pdu
<1>2. r \in Received
  <2>1. pdu \in [type : MgmtType \cup RawType, src : Mac, dst : MacOrNone, idx : Nat]
    BY <1>1 DEF Pdu
  <2> HIDE DEF pdu
  <2> QED BY <2>1 DEF Received
<1> HIDE DEF pdu
<1>3. Good(Now) /\ Now \in Hal /\ Now.drv = "open"
  BY DEF Inv, HalInv, Good, HalType
<1>4. DOMAIN hal = DOMAIN Now
  BY DEF Now
<1>5. /\ hal.drv = Now.drv /\ hal.rxon = Now.rxon /\ hal.fifo = Now.fifo
      /\ hal.chan = Now.chan /\ hal.mgmt_pipe = Now.mgmt_pipe /\ hal.open = Now.open
  BY <1>3, <1>4 DEF Now, Hal
<1>6. CanReceive(Now, pipe)
  BY <1>5 DEF CanReceive
<1>7. Good(Receive(Now, pipe, pdu)) /\ Receive(Now, pipe, pdu).drv = "open"
  BY <1>1, <1>2, <1>3, <1>6, ReceiveGood
<1>8. hal' = [hal EXCEPT !.fifo = Append(hal.fifo, r)]
  BY DEF Receive, pdu
<1>9. Receive(Now, pipe, pdu) = [Now EXCEPT !.fifo = Append(hal.fifo, r)]
  BY <1>5 DEF Receive
<1> HIDE DEF r
<1>10. Now' = Receive(Now, pipe, pdu)
  BY <1>8, <1>9 DEF Now
<1>11. ~OnAir => Good(hal')
  BY <1>1, <1>2, ReceiveGood DEF Inv, HalInv, pdu, r
<1>12. \A p \in Pipe : Receive(Now, pipe, pdu).peers[p].pipe = Now.peers[p].pipe
  BY <1>3, <1>9 DEF Hal
<1>13. DOMAIN hal' = DOMAIN hal
  BY <1>8
<1> QED BY <1>7, <1>10, <1>11, <1>12, <1>13, EnvironmentTable

(* The window of running() elapses.                                        *)
LEMMA WindowGood ==
    ASSUME NEW h, Good(h)
    PROVE  Good([h EXCEPT !.win = TRUE]) /\ [h EXCEPT !.win = TRUE].drv = h.drv
             /\ [h EXCEPT !.win = TRUE].peers = h.peers
<1> DEFINE g == [h EXCEPT !.win = TRUE]
<1>1. h \in Hal
  BY DEF Good, HalType
<1>2. g \in Hal
  BY <1>1 DEF Hal
<1>3. /\ g.drv = h.drv /\ g.bits = h.bits /\ g.open = h.open
      /\ g.state = h.state /\ g.chan = h.chan /\ g.mgmt_rx = h.mgmt_rx
      /\ g.fifo = h.fifo /\ g.peers = h.peers
  BY <1>1 DEF Hal
<1> HIDE DEF g
<1>4. Good(g)
  BY <1>2, <1>3, Frame
<1> QED BY <1>3, <1>4 DEF g

(* Packets arrive and time passes.                                         *)
LEMMA EnvironmentInv ==
    ASSUME Inv, Environment
    PROVE  Inv'
<1>1. NoMac \in MacOrNone /\ Local \in MacOrNone /\ 0 \in 0..N
        /\ \A m \in Thing : m \in Mac
  BY NAssumption, LocalAssumption DEF MacOrNone, Thing
<1>2. Good(Now) /\ Now \in Hal /\ Now.drv = "open" /\ DOMAIN Now = DOMAIN hal
  BY DEF Inv, HalInv, Good, HalType, Now
<1>3. CASE \E m \in Thing : ReceivePresence(m)
  <2>1. PICK m \in Thing : ReceivePresence(m)
    BY <1>3
  <2> QED BY <1>1, <2>1, ReceiveInv DEF ReceivePresence, MgmtType
<1>4. CASE \E m \in Thing, p \in Pipe : ReceiveRaw(p, m)
  <2>1. PICK m \in Thing, p \in Pipe : ReceiveRaw(p, m)
    BY <1>4
  <2>2. PICK t \in Traffic \cap PipeTraffic(hal) :
            hal' = Receive(hal, p, Pdu(t, m, Local, 0))
    BY <2>1 DEF ReceiveRaw
  <2>3. p \in 0..N /\ p # 0 /\ t \in RawType
    BY NAssumption, TrafficAssumption DEF Pipe
  <2> QED BY <1>1, <2>1, <2>2, <2>3, ReceiveInv DEF ReceiveRaw
<1>5. CASE WindowElapses
  <2> DEFINE g == [Now EXCEPT !.win = TRUE]
  <2>1. hal' = [hal EXCEPT !.win = TRUE] /\ UNCHANGED <<peers, count_clients, known, pc>>
    BY <1>5 DEF WindowElapses
  <2>2. Good(g) /\ g.drv = "open" /\ g.peers = Now.peers
    BY <1>2, WindowGood
  <2>3. Now' = g /\ DOMAIN hal' = DOMAIN hal
    BY <2>1 DEF Now
  <2>4. ~OnAir => Good(hal')
    BY <2>1, WindowGood DEF Inv, HalInv
  <2> HIDE DEF g
  <2> QED BY <2>1, <2>2, <2>3, <2>4, EnvironmentTable
<1>6. CASE \E p \in Pipe : PeerTime(p)
  <2>1. PICK p \in Pipe : PeerTime(p)
    BY <1>6
  <2>2. hal.peers = Now.peers
    BY NowPeers DEF Inv
  <2> DEFINE g == Tick(Now, p)
             later == [Now.peers EXCEPT ![p].age = @ + 1]
  <2>3. hal.peers[p].age < KeepaliveTimeout /\ hal' = Tick(hal, p)
          /\ UNCHANGED <<peers, count_clients, known, pc>>
    BY <2>1 DEF PeerTime
  <2>4. Good(g) /\ g.drv = "open"
    BY <1>2, <2>2, <2>3, TickGood
  <2>5. hal' = [hal EXCEPT !.peers = later] /\ g = [Now EXCEPT !.peers = later]
    BY <1>2, <2>2, <2>3 DEF Tick, Hal
  <2>6. \A q \in Pipe : later[q].pipe = Now.peers[q].pipe
    BY <1>2 DEF Hal, Peer
  <2> HIDE DEF later
  <2>7. Now' = g /\ DOMAIN hal' = DOMAIN hal
    BY <2>5 DEF Now
  <2>8. \A q \in Pipe : g.peers[q].pipe = Now.peers[q].pipe
    BY <1>2, <2>5, <2>6 DEF Hal
  <2>9. ~OnAir => Good(hal')
    BY <2>3, TickGood DEF Inv, HalInv
  <2> HIDE DEF g
  <2> QED BY <2>3, <2>4, <2>7, <2>8, <2>9, EnvironmentTable
<1> QED BY <1>3, <1>4, <1>5, <1>6 DEF Environment

---------------------------------------------------------------------------
(* The theorems.                                                           *)

(* The daemon starts with the invariant.                                   *)
LEMMA InitInv == Init => Inv
<1> SUFFICES ASSUME Init PROVE Inv
  OBVIOUS
<1>1. hal = Ready /\ Ready \in Hal /\ Ready.out = <<>>
  BY ReadyGood DEF Init, Good, HalType
<1>2. Now = Ready
  BY <1>1 DEF Now, Hal
<1>3. HalInv
  BY <1>1, <1>2, ReadyGood DEF HalInv
<1>4. TableInv /\ CursorInv
  BY <1>1, NoHeld, ReadyGood DEF Init
<1> QED BY <1>3, <1>4 DEF Init, Inv

(* The invariant holds in every reachable state of the daemon.             *)
THEOREM Invariance == Spec => []Inv
<1>1. Inv /\ [Next]_vars => Inv'
  <2>1. CASE Next
    BY <2>1, HandlersInv, EnvironmentInv DEF Next
  <2>2. CASE UNCHANGED vars
    BY <2>2 DEF vars, Inv, HalInv, TableInv, CursorInv, CountMatches, OneSlotPerDevice,
                NoPipeLeaked, Held, Now, Allocated, Slot, Thing
  <2> QED BY <2>1, <2>2
<1> QED BY <1>1, InitInv, PTL DEF Spec

(* count_clients is the number of slots in use.                            *)
THEOREM CountAlwaysMatches == Spec => []CountMatches
<1>1. Inv => CountMatches
  BY DEF Inv, TableInv
<1> QED BY <1>1, Invariance, PTL

(* No device ever holds two slots.                                         *)
THEOREM AlwaysOneSlotPerDevice == Spec => []OneSlotPerDevice
<1>1. Inv => OneSlotPerDevice
  BY DEF Inv, TableInv
<1> QED BY <1>1, Invariance, PTL

(* No pipe of the link layer is ever leaked.                               *)
THEOREM NoPipeEverLeaked == Spec => []NoPipeLeaked
<1>1. Inv => NoPipeLeaked
  BY DEF Inv, TableInv
<1> QED BY <1>1, Invariance, PTL

(* The daemon's table, counter and link layer stay in range; when packets  *)
(* are kept for the air the fold of radio_stop is in hal.out (see above).  *)
THEOREM TypeCorrect ==
    ASSUME ~OnAir
    PROVE  Spec => []TypeOK
<1>1. Inv => TypeOK
  <2> SUFFICES ASSUME Inv PROVE TypeOK
    OBVIOUS
  <2>1. count_clients \in 0..MaxPeers
    BY HeldFinite DEF Inv, TableInv, CountMatches
  <2> QED BY <2>1 DEF Inv, HalInv, TableInv, CursorInv, TypeOK, Good
<1> QED BY <1>1, Invariance, PTL

=============================================================================
