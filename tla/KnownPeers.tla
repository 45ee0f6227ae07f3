----------------------------- MODULE KnownPeers -----------------------------
(***************************************************************************)
(* The devices that may connect to the gateway (src/nrfd/manager.c): the   *)
(* slots adapter.known_peers in memory, a D-Bus object for each, and the   *)
(* JSON file from which a start of the daemon restores them.               *)
(*                                                                         *)
(* AddDevice and RemoveDevice change the memory, then rewrite the file in  *)
(* place (json_object_to_file truncates it first).  A call is one step up  *)
(* to the truncation and one for the rest of the write; the process may    *)
(* die in between or at any other time, and the write may fail, which is   *)
(* only logged.                                                            *)
(*                                                                         *)
(* An entry of the file has the text of the address as the caller spelt    *)
(* it: hexadecimal digits in either case are one address to nrf24_str2mac  *)
(* and two texts to g_strcmp0.  The memory knows addresses, the file knows *)
(* texts; callers may spell an address as they like in every call.  Names  *)
(* and keys are left out.  The address 0, which marks a free slot, is not  *)
(* among the devices.                                                      *)
(***************************************************************************)
EXTENDS Integers, Sequences, FiniteSets, FiniteSetsExt

CONSTANTS
    Device,             \* addresses of devices
    NoDevice,           \* address 0, a free slot
    MaxPeers,           \* MAX_PEERS
    Spelling,           \* ways to write an address
    Broken,             \* contents of a file that does not parse
    None,               \* no write under way
    MaxEntries          \* entries of the file (a bound)

ASSUME DeviceAssumption == NoDevice \notin Device
ASSUME MaxPeersAssumption == MaxPeers \in Nat \ {0}
ASSUME EntriesAssumption == MaxEntries \in Nat

VARIABLES
    running,            \* the daemon
    on_bus,             \* on_bus_acquired has run
    slots,              \* adapter.known_peers: address and status
    size,               \* adapter.known_peers_size
    objects,            \* slots with a D-Bus object
    file,               \* entries of the file, or Broken
    pending,            \* entries being written, or None
    told,               \* history: the texts added and not removed, by the replies
    intact,             \* history: no write has failed or was cut off so far
    exact               \* history: every device was removed by the text that added it

memory == <<running, on_bus, slots, size, objects>>
disk == <<file, pending>>
history == <<told, intact, exact>>
vars == <<memory, disk, history>>

Slot == 1..MaxPeers
Entry == [mac : Device, spelling : Spelling]

ASSUME MarkAssumption == Broken \notin Seq(Entry) /\ None \notin Seq(Entry)

FreeSlot == [mac |-> NoDevice, status |-> FALSE]
Used(i) == slots[i].mac # NoDevice
Known == {slots[i].mac : i \in {j \in Slot : Used(j)}}
Saved == IF file = Broken THEN {} ELSE {file[i] : i \in DOMAIN file}
Macs(T) == {t.mac : t \in T}

Init ==
    /\ running = FALSE /\ on_bus = FALSE
    /\ slots = [i \in Slot |-> FreeSlot] /\ size = 0 /\ objects = {}
    /\ file \in {<<>>, Broken} /\ pending = None
    /\ told = {} /\ intact = TRUE /\ exact = TRUE

(* Definitions named Bad... are deliberate faults: each replaces the       *)
(* definition after it in a run that shows that a property can fail.       *)

---------------------------------------------------------------------------
(* Start and end of the daemon.                                            *)

(* parse_nodes: at most MaxPeers entries, in their order; a file that is   *)
(* missing or does not parse is replaced by an empty one.                  *)
Loaded(entries) ==
    [i \in Slot |-> IF i <= Len(entries)
                    THEN [mac |-> entries[i].mac, status |-> FALSE] ELSE FreeSlot]

LoadedSize(entries) == Min({Len(entries), MaxPeers})

Start ==
    /\ ~running
    /\ running' = TRUE
    /\ file' = IF file = Broken THEN <<>> ELSE file
    /\ slots' = Loaded(file')
    /\ size' = LoadedSize(file')
    /\ UNCHANGED <<on_bus, objects, pending, history>>

(* on_bus_acquired: an object for every device the start has found.  Where *)
(* a registration fails the next device is tried in its place, so some     *)
(* devices at the end may be left without one.                             *)
BusAcquired ==
    /\ running /\ ~on_bus
    /\ on_bus' = TRUE
    /\ \E n \in 0..size : objects' = 1..n
    /\ UNCHANGED <<running, slots, size, disk, history>>

(* manager_stop, or the death of the process: the memory is gone and a     *)
(* write under way is cut off.                                             *)
Stop ==
    /\ running
    /\ running' = FALSE /\ on_bus' = FALSE
    /\ slots' = [i \in Slot |-> FreeSlot] /\ size' = 0 /\ objects' = {}
    /\ pending' = None /\ intact' = (intact /\ pending = None)
    /\ UNCHANGED <<file, told, exact>>

---------------------------------------------------------------------------
(* write_file: the file is read, changed and written back.  Nothing is     *)
(* written when it cannot be read or cannot be opened for writing.         *)
Rewrite(entries) ==
    \/ /\ file # Broken
       /\ file' = Broken /\ pending' = entries
       /\ UNCHANGED intact
    \/ intact' = FALSE /\ UNCHANGED disk

(* The entries at these positions of the file, in their order.             *)
Kept(K) ==
    LET rank(k) == Cardinality({j \in K : j <= k})
    IN  [i \in 1..Cardinality(K) |-> file[CHOOSE k \in K : rank(k) = i]]

BadWithout(m, sp) ==
    Kept({i \in DOMAIN file : file[i].mac # m \/ file[i].spelling = sp})

Text(m, sp) == [mac |-> m, spelling |-> sp]

With(m, sp) == Append(file, Text(m, sp))

Without(m, sp) ==
    Kept({i \in DOMAIN file : file[i] # Text(m, sp)})

WriteDone ==
    /\ pending # None
    /\ file' = pending /\ pending' = None
    /\ UNCHANGED <<memory, history>>

WriteFails ==
    /\ pending # None
    /\ pending' = None /\ intact' = FALSE
    /\ UNCHANGED <<memory, file, told, exact>>

---------------------------------------------------------------------------
(* The D-Bus methods.  The main loop serves one call after the other.      *)
Serving == running /\ on_bus /\ pending = None

(* add_known_device visits slots until it has passed as many used ones as  *)
(* there are; the new device takes the first free slot on the way or the   *)
(* one after.                                                              *)
BadScanned == {i \in Slot : i <= size}

Scanned == {i \in Slot : Cardinality({j \in 1..(i - 1) : Used(j)}) < size}

FreePos ==
    LET free == {i \in Scanned : ~Used(i)}
    IN  IF free # {} THEN Min(free) ELSE Cardinality(Scanned) + 1

NewSlot(i, m) == [slots EXCEPT ![i] = [mac |-> m, status |-> FALSE]]

(* new_device_object: fails without a change, and the call with it, when   *)
(* the object cannot be registered.                                        *)
NewDeviceObject(i) == objects' = objects \cup {i}

(* A device that is known already: the caller is answered TRUE, and        *)
(* write_file without a name reads the file and writes nothing (to change  *)
(* the key of an entry is left to do there).                               *)
AddKnown(m) ==
    /\ Serving
    /\ \E i \in Scanned : slots[i].mac = m
    /\ UNCHANGED vars

(* Another one: the call fails without a change when MaxPeers are known or *)
(* the object cannot be registered.                                        *)
AddDevice(m, sp) ==
    /\ Serving /\ size < MaxPeers
    /\ file # Broken => Len(file) < MaxEntries
    /\ \A i \in Scanned : slots[i].mac # m
    /\ slots' = NewSlot(FreePos, m)
    /\ NewDeviceObject(FreePos)
    /\ size' = size + 1
    /\ told' = told \cup {Text(m, sp)}
    /\ Rewrite(With(m, sp))
    /\ UNCHANGED <<running, on_bus, exact>>

(* remove_known_device: the first slot with the address, if its object can *)
(* be unregistered.  The status stays behind in the free slot.             *)
BadForget(i) ==
    /\ slots' = [slots EXCEPT ![i].mac = NoDevice]
    /\ size' = size - 1
    /\ UNCHANGED objects
BadForgetSize(i) ==
    /\ slots' = [slots EXCEPT ![i].mac = NoDevice]
    /\ objects' = objects \ {i}
    /\ UNCHANGED size

Forget(i) ==
    /\ slots' = [slots EXCEPT ![i].mac = NoDevice]
    /\ objects' = objects \ {i}
    /\ size' = size - 1

RemoveDevice(m, sp) ==
    /\ Serving
    /\ \E i \in objects :
          /\ slots[i].mac = m /\ \A j \in 1..(i - 1) : slots[j].mac # m
          /\ Forget(i)
    /\ told' = {t \in told : t.mac # m}
    /\ exact' = (exact /\ Text(m, sp) \in told)
    /\ Rewrite(Without(m, sp))
    /\ UNCHANGED <<running, on_bus>>

(* evt_presence has connected a device: its Status property.               *)
Connected(m) ==
    /\ running /\ pending = None
    /\ \E i \in Slot :
          /\ slots[i].mac = m /\ \A j \in 1..(i - 1) : slots[j].mac # m
          /\ slots' = [slots EXCEPT ![i].status = TRUE]
    /\ UNCHANGED <<running, on_bus, size, objects, disk, history>>

Next ==
    \/ Start \/ BusAcquired \/ Stop \/ WriteDone \/ WriteFails
    \/ \E m \in Device, sp \in Spelling : AddDevice(m, sp) \/ RemoveDevice(m, sp)
    \/ \E m \in Device : AddKnown(m) \/ Connected(m)

Spec == Init /\ [][Next]_vars

---------------------------------------------------------------------------
(* Properties.                                                             *)

TypeOK ==
    /\ running \in BOOLEAN /\ on_bus \in BOOLEAN
    /\ intact \in BOOLEAN /\ exact \in BOOLEAN
    /\ slots \in [Slot -> [mac : Device \cup {NoDevice}, status : BOOLEAN]]
    /\ size \in 0..MaxPeers /\ objects \subseteq Slot /\ told \subseteq Entry
    /\ file # Broken => file \in Seq(Entry)
    /\ pending # None => pending \in Seq(Entry)

(* The records of a known device agree: known_peers_size, which ends the   *)
(* scan of add_known_device, is the number of slots in use, so the scan    *)
(* stays within the array, and every D-Bus object stands for a slot in     *)
(* use: none is left behind when a device is removed.                      *)
SlotsAgree ==
    /\ size = Cardinality({i \in Slot : Used(i)})
    /\ \A i \in objects : Used(i)

(* As long as no write failed or was cut off, and every device is removed  *)
(* by the text it was added with, whatever else the callers spell, the     *)
(* devices accepted are exactly those the callers of AddDevice and         *)
(* RemoveDevice were told, after any number of calls and of restarts in    *)
(* between; one slot each.                                                 *)
AcceptsWhatItTold ==
    intact /\ exact /\ running =>
        /\ Known = Macs(told)
        /\ \A i, j \in Slot : Used(i) /\ slots[i].mac = slots[j].mac => i = j

(* ... and so will be the next start.                                      *)
SavesWhatItTold == intact /\ exact /\ pending = None => Saved = told

(* "Removes a remote nRF device including its local stored data": false    *)
(* when the address is spelt otherwise than it was stored.  The device is  *)
(* dropped from the memory, stays in the file, and is accepted again after *)
(* the next start.                                                         *)
NothingStaysSaved == intact /\ pending = None => Macs(Saved) \subseteq Macs(told)

=============================================================================
