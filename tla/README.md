# KNoT HAL: a TLA+ model of the nRF24 link layer and its gateway

KNoT HAL connects small battery-powered devices (*things*, usually an Arduino)
to a Linux *gateway* over nRF24L01 radios. This directory holds TLA+ modules for
the parts of it that carry state and concurrency, TLC configurations that check
them on small instances, and proofs of their invariants, action properties and refinements
that the TLA+ proof system checks for every value of the constants. `PROJECT.json` lists
the runs, the source lines behind every definition, the hazards of the code and
the properties aimed at them.

Paths below are relative to the root of the repository.

## 1. The system

```
 knotd  <-- Unix/TCP socket per thing -->  nrfd (src/nrfd)  <-- D-Bus --> user
                                             |  hal_comm_* (hal/comm.h)
                                           link layer (src/hal/comm/comm_nrf24l01.c)
                                             |  phy_* (src/drivers)
                                           nRF24L01 driver (src/nrf24l01) -- radio
                                                                               ~
 application (examples/thing.c) -- hal_comm_* -- link layer -- driver -- radio ~
```

| Component | State it keeps | Operations |
|---|---|---|
| Link layer, `src/hal/comm/comm_nrf24l01.c` | five peers (one on a thing) with a receive and a send buffer, fragment numbers, keepalive anchor and counter; one event slot and one request buffer for management; the bitmask of pipes in use; the state of the background machine, of the beacon machine, and their timers | `hal_comm_init/deinit/socket/close/read/write/listen/accept/connect`; `running()`, one step of the background machine, at the start of read, write, accept and connect |
| nRF24L01 driver, `src/nrf24l01`, `src/drivers` | registers of the chip: enabled pipes and their addresses, channel, acknowledgement, RX/TX mode; FIFOs; one cached address | open, close, read, write, ioctl (set pipe, reset pipe, set channel, standby) |
| Gateway daemon, `src/nrfd/manager.c` | slots of connected things (MAC, data socket, knotd socket), their count; known devices (MAC, alias, status) and the JSON file with them; recent beacons | the idle callback `read_idle`, one watch per knotd socket, D-Bus methods AddDevice, RemoveDevice, GetBroadcastingDevices, the 5-second sweep of beacons |
| Timers, `src/hal/time` | the millisecond clock | `hal_time_ms`, `hal_timeout` |
| Storage, `src/hal/storage` | blocks of configuration and data in an EEPROM or a file | read, write, write_end, read_end, reset_end |
| GPIO, `src/hal/gpio` | a map of the pins in use and their direction; the kernel's record of exported pins, which outlives the process | setup, mode, read, write, unmap, descriptor for edges |
| Serial daemon, `src/seriald` | a serial line and a knotd socket with their watches | two callbacks that copy data |
| LoRa, `src/lora` | configuration (`LMIC`); registers, flags and FIFO of an SX127x; its pins | init, set_config, send, receive, sleep, interrupt handler |

How they interact. There are no threads: a GLib main loop on the gateway, a
plain loop on a thing. What makes the code hard is that every call of the link
layer also runs the background machine of *all* connections, that the radio
receives between any two statements, that both nodes hop between a management
and a data channel on their own timers, and that a call can report its own
result while it has dropped another connection on the way. The functions share
their state through the statics of the file.

What makes each part correct:

* *Link layer.* The records of which pipes are in use agree. An event is never
  overwritten. A connection inherits nothing from the last one on its pipe. A
  silent peer is dropped, a node that has room for a peer keeps returning to the
  management channel, a thing without a connection keeps beaconing. Messages
  arrive whole, at most once and in order.
* *Driver.* Every pipe listens to the address it was given, every write sends its own
  packet where its answer can be heard, and returns; what was received on one channel
  does not wait in the FIFO on the other.
* *Gateway daemon.* Slots, their count and the pipes of the link layer agree; a
  device has one slot and a pipe one device; a reported loss ends its client; the
  file of known devices survives a restart.
* *Timers.* Never early and late by at most a tick, also over a wrap.
* *Connections, seen from both ends.* Neither end keeps a connection the other does not
  have, whatever packets are lost and whoever stops or loses power.
* *LoRa.* The radio works with the modem and the side of the antenna switch it was asked
  for; what the interrupt handler reports is true of the operation in progress; an
  operation ends, and its program learns of it.
* *Storage.* Blocks are independent of each other and of the other data, whatever is
  written and wherever the power fails.

## 2. Modules

| Module | Models |
|---|---|
| `NrfLink` | the link layer as operators on a record `h` that holds the statics of the file; no variables, so that a node, a daemon or a network can hold one or several of them |
| `NrfComm` | one node on which an application calls the functions in any order, packets arrive and time passes |
| `NrfManager` | the gateway daemon's connection handling over a link layer |
| `NrfNet` | the daemon and things with the loop of `examples/thing.c` on the air together: `NrfManager` and one `NrfLink` for each thing |
| `DataLink` | one message after another cut into packets and put together again across two devices |
| `DatagramChannel` | what a user of a connection is promised; `DataLink` implements it |
| `HalTime` | `hal_timeout` on a clock that wraps |
| `Beacons` | an entry of the table of recent beacons, over `HalTime` |
| `Nrf24Radio` | the driver over the registers, status flags and FIFOs of the chip |
| `PhyRadio` | what the link layer takes the radio for; `Nrf24Radio` implements it |
| `KnownPeers` | the devices that may connect: slots, D-Bus objects, the file, restarts |
| `StorageAvr` | the EEPROM of a thing: layout, calls, single bytes, power failures |
| `BlockStore` | blocks with contents of their own; `StorageAvr` implements it |
| `GpioSysfs` | the GPIO functions as operators on the map and the kernel's pins |
| `Sx127x` | the LoRa driver, its pins, the chip and a program that uses it |
| `NrfLinkProofs`, `NrfCommProofs`, `NrfManagerProofs`, `DataLinkProofs`, `Nrf24RadioProofs`, `KnownPeersProofs`, `Sx127xProofs` | theorems about the module of that name |
| `HalProofs` | theorems about `HalTime`, `Beacons` and `StorageAvr` |
| `MC*` | instances for TLC |

Definitions whose name starts with `Bad` are deliberate faults, such as a
forgotten flush or a missing reset. Nothing uses them; put in the place of the
definition that follows, each makes the property it is listed with fail, which
shows that the property says something about the code.

### NrfLink

Every `hal_comm_*` function and every helper it calls is an operator from a
record to the set of records it may leave behind: more than one when the radio
decides (was the packet acknowledged?), none when the call fails without a
change. A handler that makes several calls threads the record through them, as
the C code does through its globals, so a handler is one step and no call in it
is optional. `Running` is `running()`: one case per state of the machine, each
with all that the code does in it (read, write, beacon, expiry, next socket).

The data are abstracted to what the properties tell apart:

* a MAC address is a model value; a packet is its type, source and destination;
  an access address is the initiator's MAC with the pipe as last byte;
* a peer's buffer holds the address of whom the message is from or for; messages
  here are one packet long, fragments are in `DataLink`;
* time is *age*, whole keepalive periods since the anchor, saturating at the
  expiry; a Boolean for the window of the current channel; 0, 1, 2 for the beacon
  timer. Each advances by an action of its own, so every order of timers and
  calls is explored;
* `read_raw` drains the packets of its pipe from the head of the FIFO; packets
  may arrive while it does, so every length of the run is allowed that the code
  can meet; the effects of the run are computed at once, since they do not
  depend on anything that another actor changes;
* `out` holds what a call transmitted, for `NrfNet`; `NrfComm` and `NrfManager` (unless
  `OnAir` is set) clear it.

What can be in the FIFO follows from the radio: pipe 0 is enabled on both channels, but
only the management channel has broadcasts; data pipes stay enabled on the management
channel, where a peer that hops at another time sends nothing to them but the disconnect
of `hal_comm_close` (`PipeTraffic`).

The chip is modelled by its effects: which pipes are enabled with which
addresses, the channel, whether the receiver is on, and the FIFO. `Nrf24Radio`
shows that the driver brings those effects about.

### NrfComm

The application makes any call at any time that the driver accepts, with one
restriction from the use of the API in `src/nrfd` and `examples`: a gateway opens
and connects, a thing listens and accepts. Arriving packets are arbitrary within
`Traffic`: a packet may come on a pipe from its peer or from an earlier one, and a
connect request may be for this node or another one.

### NrfManager

GLib runs the callbacks one after the other. Each is one step, but `read_idle`,
which runs `mgmt_read` and then `clients_read`, is one step for the first and one
for each slot of the second (`pc`), because packets arrive and windows elapse in
between. The connection to knotd may fail or hang up at any time. The daemon may be
stopped, which tells the peers, or crash, which does not, and starts again (`Restart`)
with the known devices of its file.

### NrfNet

The daemon as in `NrfManager`, without its environment: what the gateway hears is what the
things send, and the other way round. A thing is a record of `NrfLink` with `N = 1` and a
program counter for the loop of `examples/thing.c`: accept, then read and look for events
in turn, and after a loss close, listen and accept again. A step leaves what it sent in
`out`; in the same step every receiver on the packet's channel with its address enabled
and room in the FIFO may hear it or miss it (`FromGateway`, `FromThing`). On the data
channel a transmission succeeds exactly when it was heard; that an acknowledgement alone
gets lost changes what the sender is told, which none of these callers reads. Messages are left out
(`Traffic` is empty): they would reset the timers like the answers to keepalives do. A
thing may lose its power at any time. Timers of a thing are let pass only in the states
that read them, which loses no order of events.

### DataLink

`write_raw` sends a whole message in one call, but the receiver is another
device, so each packet is a step. A packet is not acknowledged when it is lost,
when the receiver's FIFO is full, when the receiver is on the other channel, and
when only the acknowledgement is lost. The hop of the receiver flushes its FIFO.
The chip discards its own retransmissions, so a packet arrives at most once.
`stayed` records whether the receiver has hopped since the start: with a hop, messages
can be joined (finding 2), without one they cannot.

### Nrf24Radio and PhyRadio

`chip` is a record of the register bits the driver uses, the `ce` pin and the FIFOs;
each function of `nrf24l01.c` is an operator from a chip to a chip and each `phy_*`
operation an action that composes them as `nrf24l01_ioctl`, `nrf24l01_read` and
`nrf24l01_write` do. A write is three steps, since the chip works in between: fill the
FIFO and pulse `ce`; the chip transmits; the driver sees a flag and returns to
reception. An ioctl is one step: it starts by setting `ce` low, and what arrives before
that is an earlier step. A packet in the RX FIFO may have a width that reads as 0, which
leaves it there, or as more than 32 bytes, which empties the FIFO (`PrxData`); a read is
for one pipe or, with `NRF24_NO_PIPE`, for whichever has a packet. `pipe0_open` and `pipe0_address` are the two statics by which
the driver puts back the address that a transmission borrowed; as in the code they
survive `nrf24l01_deinit`, and so do the address registers.

The driver is used as the link layer uses it (`AddressFits`): pipe 0 is opened first and
has the broadcast address, and all data pipes have the initiator's high bytes. Without
that contract pipes 2 to 5 would change their address when pipe 1 does.

`PhyRadio` has no registers: a pipe has one address or none, a transmission is pending,
sent or lost, a read leaves the FIFO, or takes its head, or all of it. The refinement mapping reads a pipe's address from the registers, and for
pipe 0 from `pipe0_address` while a write borrows it.

### KnownPeers

A call of AddDevice or RemoveDevice is one step up to the truncation of the file and one
for the rest of the write (`pending`), because the process may die in between or the
write fail; the main loop serves nothing else meanwhile. `told` is a history variable:
the texts added and not removed according to the replies callers got. `intact` is TRUE
until a write is lost. Memory knows addresses, the file knows the texts callers used, and
every call may spell an address as it likes; `exact` is TRUE until a device is removed by
another text than the one that added it. `AddKnown` is AddDevice of a device that is known:
`write_file` without a name reads the file and writes nothing (`manager.c:160-161`), so
the step changes nothing. The address 0, which the code uses for a free slot, is not
among the devices.

### StorageAvr and BlockStore

Blocks of a fixed size lie at the end of the EEPROM, each below the one before
(`Address`); two bytes below them hold the size of the configuration, which ends there;
what is left is for `hal_storage_read` and `hal_storage_write`. A call works out what
goes where (`queue`: the writes of a reset follow each other), then there is one step per
byte, in the order the code or the library may write them. `PowerLoss` ends the call
anywhere and may leave anything in the byte being written. The two bytes of the size are
one step, as a valid size fits one of them. `MaxLength` bounds what a caller passes.

`BlockStore` knows no addresses: a write may leave anything in its own block until it
finishes, and touches no other. The refinement mapping reads each block the way
`hal_storage_read_end` does (`Contents`); the call of `BlockStore` is what is left of the
queue (`Writing`).

### HalTime

The clock, the start of a timer and the time that has really passed. The code
adds `ULONG_MAX - start` to a wrapped reading; in 32 bits that is one less than
the time passed, on the Arduino as well as on a 64-bit Linux.

### Beacons

The entries of `peer_bcast_table` do not depend on each other, so one is enough. Its time
stamp is the start of a timer of `HalTime`. The sweep comes at the latest `Period` after
the last one, any time earlier too.

### GpioSysfs and Sx127x

`GpioSysfs` keeps apart what dies with the process (`gpio_map`) and what the kernel
remembers. A pin below 10 cannot be exported, since its number is written with a blank
in front; for the pins in `Flaky` an export, a direction, a write of the value, an edge or
the opening of a descriptor may fail at any call. `lost` are the pins whose last write
failed, which `hal_gpio_digital_write` does not tell its caller; that function is modelled
by its returning calls.

`Sx127x` puts the driver on top. Each public call is one step, as the chip is idle then;
the interrupt handler is four (flags, length, FIFO, end), since the chip goes on between
them. The chip has its operation mode, the modem bit that is writable in SLEEP only, the
mapping of DIO0, flags and masks of both modems, header mode, lengths and FIFO. An edge of
DIO0 stays with the kernel until the program reads it, whatever happens to the operation it
belongs to. DIO0 is mapped as the values written map it, not as the comments say: for
LoRa the code writes 0xF0 or 0xC0 to `RegDioMapping1`, which selects neither TxDone nor
RxDone (finding 3), so only FSK operations raise edges.

Nothing in the repository calls the driver yet (`lorad` is a stub), so the program is any
that keeps the driver's own rules, the commented `ASSERT`s: an operation starts from
SLEEP. It runs the handler on an edge, and when `radio_irq_flag` shows it one of the
flags in `Polled`, the only way to learn of the end of a LoRa operation. It may change the
configuration at any time, give an operation up, stop, crash and start again; `hung` is
the endless loop of the handler and a chip whose reset pin stays driven.

## 3. Runs

Each run takes from a few seconds to about two minutes. Bounds: FIFO depth 1 or 2 for the
chip's 3 (1 shows a full FIFO at once, 2 a packet of another pipe behind the
first); expiry after 2 keepalive periods for the code's 10 (1 request, then the
expiry, and an expiry put off by a full slot); 1 or 2 pipes for the code's 5 (2
is enough for a free pipe beside a busy one and for a pipe that changes hands). The
driver has pipes 0, 1 and 2, one of each kind: the broadcast pipe, the one that holds the
high bytes, one that shares them. Two slots of known devices allow the first to become
free before the second, and three devices fill them with one to spare; two spellings are
what one address needs to be two texts. In the EEPROM a block that is too long by one
reaches its neighbour, and the configuration, the free area and what a write of three
bytes covers overlap in every way. The LoRa packets have two lengths, enough to
confuse one with another; the pins that fail are those of antenna switch and DIO0; a failing
reset pin doubles the states, and is left to the proofs, which take any set of pins. `Net` has one thing, one pipe and a FIFO of one packet:
a second thing or data messages make millions of states, too many for its liveness
properties. So neither a pipe that is given to another thing nor the dead slot of
finding 1 occurs there; what several clients do to each other at the gateway is in
`Manager`.

| Run | Instance | Shows |
|---|---|---|
| `Comm_gateway` | gateway, 2 pipes, one remote node; keepalive and disconnect packets | `TypeOK`, `PipesAgree`, `KeepaliveBounded`, `FifoOfChannel`, `EventKept` |
| `Comm_thing` | thing, FIFO of 2; data, keepalive requests, disconnects | `EventKept`, `FreshConnection`, `SilentPeerDropped`, `BeaconsForever` |
| `Manager` | daemon, 2 slots, 2 pipes, 1 thing; data, keepalive answers, disconnects, restarts | `CountMatches`, `OneSlotPerDevice`, `NoPipeLeaked`, `SilentPeerDropped`, `MgmtRevisited`, `MessageServed`, `LossHandled` |
| `Manager_shared` | daemon with 2 things | **fails** `OnePeerPerPipe` (finding 1) |
| `Net` | daemon and 1 thing on the air, any packet lost, restarts on both sides | `HalfOpenEnds`, `DeadThingDropped` |
| `DataLink` | 6 messages of 1, 2 or 3 packets, losses and hops | `ChannelSpec` (refinement), `WholeWhileStaying`, `SenderReady` |
| `DataLink_mixed` | as `DataLink` | **fails** `WholeMessages` (finding 2) |
| `Radio` | pipes 0 to 2, two initiators, three channels of which one is invalid, two users | `AnswerHeard`, `NothingLeftToSend`, `SentIsOwn`, `PhySpec` (refinement), `WriteReturns` |
| `Known` | 3 devices, 2 slots, 2 spellings | `SlotsAgree`, `AcceptsWhatItTold`, `SavesWhatItTold` |
| `Known_spellings` | 2 devices, 2 slots, 2 spellings | **fails** `NothingStaysSaved` (finding 4) |
| `Hal`, timers | a clock of 16 ticks, timeouts of every length, one entry of the beacon table (timeout 4, sweep every 2) | `NeverEarly`, `AtMostOneLate`, `ListedIsRecent` |
| `Hal`, EEPROM | 9 cells: fixed blocks of 2 and 1, configuration of at most 2 in an area of 4 | `GeneralKept`, `BlockSpec` (refinement) |
| `Hal`, LoRa | packets of 2 lengths, both modems, a program that polls, two pins that fail | `ModemMatches`, `AntennaMatches`, `SentWasSent`, `LengthIsOwn`, `TransmissionEnds` |
| `Lora_irq` | packets of 1 length, a program that does not poll, no failing pins | **fails** `IrqInforms` (finding 3) |

`Hal` is one run for three parts that share no state: a behaviour chooses one part at the
start (`MCHal`) and takes steps of that part only, so the run explores what three runs
would.

Every invariant, action property and refinement in the table is also a theorem (section
5). The type invariants of the other modules are proved too; no run spends time on them,
nor does the thing's run repeat those of the gateway's.

The runs of `DataLink` switch deadlock detection off, since a behaviour ends when
its messages are used up. Everywhere else the system can always go on. `Known` uses
symmetry, as its devices are alike and all its properties are invariants.

### Fairness

`FairSpec` of `NrfComm`: the application polls the management socket for ever
(every user of the link layer has such a loop), and time passes. Nothing is
assumed about other calls or about arriving packets. `FairSpec` of `NrfManager`:
the idle source stays installed (`read_idle` returns TRUE) and its loop ends; time
passes. It runs at idle priority, below the watches of knotd, so this assumes that knotd
does not keep the main loop busy without a pause. Nothing else is assumed about knotd, the things or the user. `FairSpec` of
`DataLink`: both devices keep running; nothing is assumed about which packets are
acknowledged or when the receiver hops away. `FairSpec` of `Nrf24Radio`: the chip
finishes the transmission it was told to start, and the driver keeps polling its status
in the loop it is in; nothing is assumed about callers or received packets.
`NetFairSpec` of `NrfNet`: the daemon's idle source and the loop of each thing run, and
the timers both look at pass; nothing is assumed about which packets are heard, about
knotd, or about restarts and power failures, which may go on for ever. `FairSpec` of
`Sx127x`, also in the run `Hal`: the program dispatches the edges of the descriptor it
watches, polls for the flags in `Polled` and finishes the handler, and the chip ends a transmission; nothing is assumed about receptions. `Beacons`
has safety properties only: that the sweep is never late is a guard (`TimePasses`).

Some liveness properties are weaker than a reader may expect, because the code
promises no more:

* `SilentPeerDropped` of the daemon allows the event slot to be refilled again and again
  by beacons of other things, since the expiry needs it to be empty at the turn of the
  silent peer; `DeadThingDropped` allows the same, and a thing that is connected again;
* `MgmtRevisited` does not hold of a gateway whose pipes are all in use, by design;
* `TransmissionEnds` is about a program that polls. It allows the handler to hang during an
  FSK transmission (`hung`): it does when an edge of an operation that was given up is
  dispatched while the FSK modem has no flag set. A LoRa transmission never hangs, but such
  an edge, of an FSK operation, may end it early.

## 4. Findings

1. **One pipe, two things** (`Manager_shared`). `hal_comm_socket` leaves the
   keepalive anchor at 0. `hal_comm_connect` first calls `running()`; on the data
   channel, at the turn of the new pipe, `check_keepalive` finds it long expired and
   the pipe is freed before it is ever connected. `evt_presence` ignores the result
   and keeps the number of a free pipe, which the next thing is given too. With a single
   thing the client is dead instead: the loss is reported without its address, so nobody
   drops it, and the gateway answers each of its beacons with a request for a pipe it
   never opened.
2. **Joined messages** (`DataLink_mixed`). A hop flushes fragments the radio has
   acknowledged; `read_raw` then continues with any fragment that carries the number
   it waits for, be it of the next message.
3. **No interrupt for LoRa** (`Lora_irq`). `MAP_DIO2_LORA_NOP` is `0xC0`
   (`lora/sx127x.h:237`), though the comment beside it puts it in bits 3-2, where it would
   be `0x0C`. Or-ed to the mapping it sets the bits of DIO0 to 11, for a transmission
   (`sx127x.c:294`) and for a reception (`:380`), so neither TxDone nor RxDone reaches the
   line, although `sx127x.c:326` says "the corresponding IRQ will inform us about
   completion". A program that waits for it waits for ever.
4. **A removed device stays in the file** (`Known_spellings`). Memory is searched by the
   parsed address and the file by its text (`manager.c:149-150`). A device added in
   upper-case digits and removed in lower case, the form its `Mac` property has, is dropped
   from memory, stays in the file and is accepted again after the next start, while
   `doc/nrfd-api.txt:13-14` promises to remove its local stored data. `AcceptsWhatItTold` and
   `SavesWhatItTold` show that nothing else goes wrong with spellings: they hold as long as
   every device is removed by the text that added it (`exact`).

Also met while reading, without a run of their own.

Gateway daemon:

* devices known at the start are registered with the D-Bus interface
  `org.cesar.knot.mac.Device`, those added later with `org.cesar.knot.nrf.Device`; the
  `Status` property is set on connection and never cleared;
* the time of the last beacon is put into a JSON integer of 32 bits with a sign, and is
  negative once the clock has passed half its range (`manager.c:366`).

Link layer and driver:

* the comments on the keepalive ("5 attempts until timeout"; "every 2560ms ... 25600ms")
  give other numbers than the definitions next to them (750 ms, 10 periods);
* a failed `phy_open` with a code other than -1 leaves `driverIndex` in a state that
  neither `hal_comm_init` nor `hal_comm_deinit` leaves again;
* the second condition for leaving the data channel compares the clock with a time cut to
  8 bits, so after the first 256 ms of a window it says little;
* `new_raw_time`, which fits the data window to the number of pipes, is called when a pipe
  is accepted or freed but not when a gateway opens one (`hal_comm_socket`), so a gateway's
  window is that of an earlier set of pipes until one is freed;
* a packet whose width reads as 0 is never taken out of the RX FIFO (`nrf24l01.c:532`) and
  blocks it until the next hop;
* `phy_close` accepts an index one past its table, which no caller passes.

GPIO, LoRa, serial:

* `hal_gpio_digital_write` ignores the result of the write (`gpio_sysfs.c:284`), so the
  radio may work into the wrong side of the antenna switch (`AntennaMatches` has that
  exception); to a pin that cannot become an output calls itself without end
  (`gpio_sysfs.c:288`); `hal_gpio_unmap` unexports pin `i` for `gpio_map[i]`, where the
  other functions keep pin `i + 1` (`gpio_sysfs.c:245`); the numbers of pins below 10 are
  written with a blank in front, so that such a pin is never exported;
* the receive timeout of the LoRa modem is signalled on DIO1, which nobody watches,
  although the comment in `sx127x.c:462-464` has it raise the interrupt; the FSK branch of the handler
  loops for ever when it finds no flag; the length of an FSK packet is read from the
  register that the last transmission wrote (`sx127x.c:614`), so it is that length plus
  one, or 64; a continuous reception goes
  on while the handler reads, so a length may be of one packet and the data of the next;
* `hal_wait_until` returns at once when the time lies ahead and waits when it has passed
  (`sx127x_hal_linux.c:126`);
* `serial_io_watch` of `seriald` goes on using the channel of knotd after
  `unix_io_destroy` has cleared it.

## 5. Proofs

Every safety invariant, action property and refinement that the passing runs check is a
theorem, for every value of the constants that satisfies the assumptions of the modules.
Each proof has the same shape: an inductive invariant that contains the property, checked
with TLC as an invariant of the run before it was proved; one lemma for every operator of
the model that says what it returns; one lemma for every action; and a temporal theorem
that puts them together. The parts of the invariants below are the facts without which
they are not inductive.

| Module | Theorems about properties of the runs |
|---|---|
| `NrfLinkProofs` | lemmas only: what each `hal_comm_*` call and helper keeps |
| `NrfCommProofs` | `TypeOK`, `PipesAgree`, `KeepaliveBounded`, `FifoOfChannel`, `EventKept`, `FreshConnection` |
| `NrfManagerProofs` | `CountMatches`, `OneSlotPerDevice`, `NoPipeLeaked` |
| `DataLinkProofs` | `ChannelSpec` (refinement), `WholeWhileStaying` |
| `Nrf24RadioProofs` | `AnswerHeard`, `NothingLeftToSend`, `SentIsOwn`, `PhySpec` (refinement) |
| `KnownPeersProofs` | `SlotsAgree`, `AcceptsWhatItTold`, `SavesWhatItTold` |
| `Sx127xProofs` | `ModemMatches`, `AntennaMatches`, `SentWasSent`, `LengthIsOwn` |
| `HalProofs` | `NeverEarly`, `AtMostOneLate`, `ListedIsRecent`; `GeneralKept`, `BlockSpec` (refinement) |

### The arguments

*Link layer.* `NrfLinkProofs` states one lemma per operator of `NrfLink`: if a record is
`Good`, so is every record the operator returns. `Good` is the conjunction of `HalType`,
`HalPipesAgree`, `HalKeepaliveBounded`, `HalFifoOfChannel` and

* `HalNamed`: a CONNECTED event carries a real address. Without it an accepted
  connection could open a pipe under the address that stands for "not enabled", and
  the table and the radio would disagree;
* `HalIdle`: while the driver is closed or failed no pipe is allocated, so that
  opening it again, which disables all pipes of the radio, leaves the three records
  in agreement.

A second lemma per operator says what it does to the event slot and to the pipes in use
(`Calm`: no pipe comes into use, an event that is there stays or is taken; `Kept`, for the
calls that do take a pipe into use: its buffers are empty; `SlotKept`, for all but the
three calls of `Takes`: the event stays). The two action properties follow. `FifoOfChannel` says of the FIFO only that no broadcast waits
there off the management channel; packets of data pipes may wait on either.

*Daemon.* The invariant (`HalInv`, `TableInv`, `CursorInv`) adds that the link layer is open
and `Good`, and that the slot whose iteration of `clients_read` comes next is in use. Each
callback either leaves the table alone (`CalmHandler`), takes a slot (`EnterTable`) or frees
one (`LeaveTable`); the last two count the slots with the cardinality theorems. That no pipe
is leaked needs `Calm` of the link layer: running the machine of *all* connections inside a
call never takes a pipe that the daemon did not ask for. What `radio_stop` leaves for the
air is a fold over the slots of which the provers can show nothing; the invariant speaks of
the record without it (`Now`), and `TypeCorrect` has the hypothesis `~OnAir`.

*Messages.* `IInv` of `DataLinkProofs` says how the packets in the FIFO are ordered
(`OrderInv`: by message, the last packet of a message last, all later than what arrived)
and that they were numbered by `write_raw`; losing any of them, or all of them by a hop,
keeps it, so a message can never arrive twice or after a later one, whatever it is made
of. For whole messages the order is not enough: `NoGapInv` and `PartialInv` say that
what was reassembled, the FIFO and the sender's next packet follow each other without a gap.
The joint of two messages that finding 2 shows is where this fails after a hop.

*nRF24L01 driver.* `WriteInv` lists the three states of a write (waiting, sent, given up),
`IdleInv` says that nothing of a write is left, `PipesInv` what the address registers hold:
pipe 1 has the high bytes as soon as any data pipe is enabled, and `pipe0_open` and
`pipe0_address` say what pipe 0 is without the borrowing, except that they are stale while
no pipe is enabled. The refinement has one lemma for each operation (`SetPipeMaps`, ...).

*Known devices.* `SlotsAgree` is kept by the calls because the scan for a free slot, which
ends by a counter, finds what it should (`ScanFacts`). Until the bus is there the slots in
use are the first ones (`PackedInv`), so that an object made for position `i` is that of
slot `i`. `ToldInv` relates memory, file, pending write and the callers' knowledge;
`FewInv` is needed because a start loads no more devices than there are slots. Both
properties about what callers were told have a premise, `intact /\ exact`, and so has
`ToldInv`: without `exact` they are refuted by finding 4.

*LoRa radio.* `ModemInv` and `AntennaInv` say that the radio sleeps between operations and
that an output of `gpio_map` is one for the kernel; `SentInv` that a flag of a transmission
in either modem belongs to the last operation, though its edge may be old; `LengthInv`
follows the registers from the flag through the handler.

*Timers and beacons.* With `elapsed = (now - start) mod Modulus`, the code's difference is
`elapsed`, or `elapsed - 1` after a wrap (`DifferenceValue`). A behaviour of the table of
beacons is, through the variables of the timer, one of `HalTime` (`BeaconsAreTimers`), and
a listed device is at most `BCAST_TIMEOUT + sweep` old, as it was within the timeout at the
last sweep and both have aged alike since.

*EEPROM.* `StorageInv` says that every write of a call lies in its own block, the blocks of
one call are different (`CallInv`), the size of the configuration goes first, and the cells
already written hold their value (`ProgressInv`). `LayoutFacts` shows the blocks disjoint,
`StepDisturbs` what a byte or a power failure may change, `ContentsKept` that every other
block reads as before, `WrittenContent` that a finished write reads as what was written.

### Recursion and induction

The library's induction rules cannot be used here, as they take an operator as a
parameter. Where a proof needs induction it takes the least counterexample instead
(`LeastElement`, from the theorem that the naturals are well-founded): for the slots in
`NrfManagerProofs`, the slots and the entries of the file in `KnownPeersProofs`, and in `HalProofs` for `Address`, whose recursion
over the blocks (`AddressDef`) has to be established before anything is known of it. For
the same reason `write_file` is modelled by `Kept`, the kept positions in their order, and
not by the `SelectSeq` of the library.

### Assumptions

Only those the modules name: numbers of pipes, slots, timeouts and depths are positive,
marks such as `NoMac` and `Broken` are no value, the daemon is a gateway (`DaemonAssumption`),
a chip with a TX FIFO of at least two packets (`TxAssumption`), an EEPROM whose cells can be
counted in the two bytes of a size (`EepromAssumption`), blocks of positive size of which a
caller passes at most `MaxLength` bytes (`BlocksAssumption`), packets that are not empty
(`LengthAssumption`). TLC evaluates each on its instance. One theorem has a hypothesis of its
own, `TypeCorrect` of the daemon (`~OnAir`), which the runs `Manager` and `Manager_shared`
satisfy.

### Model-checked only

* Liveness: `SilentPeerDropped`, `BeaconsForever`, `MgmtRevisited`, `MessageServed`,
  `LossHandled`, `SenderReady`, `WriteReturns`, `HalfOpenEnds`, `DeadThingDropped`,
  `TransmissionEnds`. Fairness and ENABLED are out of the prover's reach.
* `NrfNet`, which only has properties of that kind. What holds of a daemon alone and of a
  thing alone is proved, with arbitrary packets in the place of the other side.
* The four findings.

## 6. Plan

What is left, the most useful first.

1. `NrfNet`: an inductive invariant that relates both ends (a pipe the gateway holds and
   the connection of the thing with its address), which is the safety behind `HalfOpenEnds`
   and needs the lemmas of `NrfLinkProofs` for `N` of the gateway and of the thing.
2. The safety parts of the liveness properties: what a step towards the end of a
   wait cannot undo (the age of a silent peer, the state of a write, the window of the data
   channel).
3. `OnePeerPerPipe` of the daemon under the hypothesis that makes finding 1 impossible, so
   that the theorem says what a repair of `evt_presence` would have to establish.
4. Larger instances of `NrfNet`, with a second thing, if its liveness can be split.

## 7. Not modelled

* Pure input, output and wording: log messages, the command line and configuration files
  of the daemons, SPI transfers, names and keys of known devices, the sniffer and echo
  tools, the D-Bus proxy (it relays property changes).
* Storage on Linux: a key file that each call reads and writes whole; it keeps nothing
  between calls.
* `seriald`: two callbacks that copy bytes. What they get wrong is the use of a channel
  after it was cleared or released, which ends the process; there is no protocol.
* Of the radios: transmission power, frequency, spreading factor, bit errors on the air
  (the chips check a CRC), and a chip that stops answering, except for the LoRa chip with
  its reset pin driven. `lorad` is a stub.
* Of GPIO: reading a pin, which changes nothing; analog input and PWM, which are stubs.
* Time as a number: the link layer's windows and the waits of the LoRa driver are
  abstracted to their order; steps of the real-time clock, from which `hal_time_ms` reads,
  are left out, and with them that every timer jumps when the clock is set back.
