----------------------------- MODULE Nrf24Radio -----------------------------
(***************************************************************************)
(* The driver of the nRF24L01 (nrf24l01.c, phy_driver_nrf24.c,             *)
(* phy_driver.c) over the registers and FIFOs of the chip.                 *)
(*                                                                         *)
(* chip is a record: the registers, one field for each group of bits the   *)
(* driver uses; ce, the pin that lets the chip receive or transmit; the    *)
(* FIFOs.  Functions of nrf24l01.c are operators from a chip to a chip,    *)
(* and an ioctl composes them.  The bits of a register are a set or a      *)
(* Boolean; an address is its four high bytes and its last byte.  Pipes 2  *)
(* and up have a register for the last byte only and take the others from  *)
(* the register of pipe 1.                                                 *)
(*                                                                         *)
(* The chip works by itself while ce is high (receiving) or after a pulse  *)
(* of it (transmitting), so a write is three steps: the driver fills the   *)
(* FIFO and pulses ce, the chip transmits, the driver sees the status and  *)
(* returns to reception.  An ioctl starts with ce low and is one step.     *)
(***************************************************************************)
EXTENDS Integers, Sequences, FiniteSets

CONSTANTS
    PipeMax,            \* NRF24_PIPE_MAX (5 in the chip)
    High,               \* high bytes of the addresses of data pipes
    Broadcast,          \* high bytes of aa_pipe0, the address of pipe 0
    Channel,            \* the channels callers ask for
    InvalidChannel,     \* those among them beyond NRF24_CH_MAX_1MBPS
    DefaultChannel,     \* NRF24_CHANNEL_DEFAULT
    Payload,            \* what is transmitted
    RxDepth, TxDepth,   \* the FIFOs (3 packets each in the chip)
    MaxOpen             \* users that hold the driver open (a bound)

ASSUME PipeAssumption == PipeMax \in Nat \ {0}
ASSUME ChannelAssumption == InvalidChannel \subseteq Channel
ASSUME RxAssumption == RxDepth \in Nat \ {0}
ASSUME TxAssumption == TxDepth \in Nat \ {0, 1}
ASSUME OpenAssumption == MaxOpen \in Nat \ {0}
ASSUME PayloadAssumption == 0 \notin Payload
ASSUME HighAssumption == "reset" \notin High \cup {Broadcast}

Pipe == 0..PipeMax
Address == [high : High \cup {Broadcast}, last : Pipe]
Unset == [high |-> "reset", last |-> 0]         \* what a register holds at power-on
AnyAddress == Address \cup {Unset}
AnyChannel == Channel \cup {DefaultChannel}
NoPipe == PipeMax + 1                           \* NRF24_NO_PIPE (7 in the chip)
Width == {"none", "some", "excess"}             \* of a payload: 0, up to 32, beyond
Packet == [pipe : Pipe, addr : AnyAddress, chan : AnyChannel]
Aired == [addr : AnyAddress, chan : AnyChannel, payload : Payload \cup {0}]

VARIABLES
    chip,               \* registers, pins and FIFOs
    ref_open,           \* users of the driver
    pipe0_open, pipe0_address,
    call,               \* the write in progress: its pipe and payload, or NoCall
    air                 \* the packet the chip has put on the air for it

driver == <<ref_open, pipe0_open, pipe0_address>>
vars == <<chip, driver, call, air>>

NoCall == [pipe |-> 0, payload |-> 0, full |-> FALSE]
NoAir == [addr |-> Unset, chan |-> DefaultChannel, payload |-> 0]

PoweredOff ==
    [pwr_up |-> FALSE, prim_rx |-> FALSE, ce |-> FALSE, busy |-> FALSE,
     rf_ch |-> DefaultChannel, en_aa |-> FALSE, retr |-> 0, en_rxaddr |-> {},
     rx_p0 |-> Unset, rx_p1 |-> Unset, rx_last |-> [p \in 2..PipeMax |-> 0],
     tx_addr |-> Unset, tx_ds |-> FALSE, max_rt |-> FALSE,
     tx_fifo |-> <<>>, rx_fifo |-> <<>>]

Init ==
    /\ chip = PoweredOff /\ ref_open = 0
    /\ pipe0_open = FALSE /\ pipe0_address = Unset
    /\ call = NoCall /\ air = NoAir

(* Definitions named Bad... are deliberate faults: each replaces the       *)
(* definition after it in a run that shows that a property can fail.       *)

---------------------------------------------------------------------------
(* Addresses of pipes: what the chip listens to, and reading it back.      *)
RxAddr(c, p) ==
    CASE p = 0 -> c.rx_p0
      [] p = 1 -> c.rx_p1
      [] OTHER -> [high |-> c.rx_p1.high, last |-> c.rx_last[p]]

SetAddressPipe(c, p, a) ==
    CASE p = 0 -> [c EXCEPT !.rx_p0 = a]
      [] p = 1 -> [c EXCEPT !.rx_p1 = a]
      [] OTHER -> [c EXCEPT !.rx_last[p] = a.last]

(* nrf24l01_init: every register the driver relies on gets a value, the    *)
(* status and the FIFOs are emptied.  The address registers and the        *)
(* statics of the file stay as they are.                                   *)
RadioInit(c) ==
    [c EXCEPT !.pwr_up = TRUE, !.prim_rx = FALSE, !.ce = FALSE, !.busy = FALSE,
              !.rf_ch = DefaultChannel, !.en_aa = FALSE, !.retr = 0,
              !.en_rxaddr = {}, !.tx_ds = FALSE, !.max_rt = FALSE,
              !.tx_fifo = <<>>, !.rx_fifo = <<>>]

RadioDeinit(c) == [c EXCEPT !.ce = FALSE, !.pwr_up = FALSE]

---------------------------------------------------------------------------
(* The functions of nrf24l01.c that an ioctl or a write is made of.        *)

SetStandby(c) == [c EXCEPT !.ce = FALSE]

(* nrf24l01_open_pipe on a pipe that is not enabled.  Pipe 1 holds the     *)
(* high bytes for the pipes after it, even while it is not enabled itself. *)
BadOpenPipe(c, p, a) ==
    SetAddressPipe([c EXCEPT !.en_rxaddr = @ \cup {p}], p, a)

OpenPipe(c, p, a) ==
    LET enabled == SetAddressPipe([c EXCEPT !.en_rxaddr = @ \cup {p}], p, a)
    IN  IF p > 1 /\ 1 \notin c.en_rxaddr THEN SetAddressPipe(enabled, 1, a) ELSE enabled

ClosePipe(c, p) == [c EXCEPT !.en_rxaddr = @ \ {p}]

SetChannelReg(c, ch, ack) ==
    IF ch \in InvalidChannel THEN c
    ELSE IF ch = c.rf_ch THEN [c EXCEPT !.en_aa = ack]
    ELSE [c EXCEPT !.rf_ch = ch, !.en_aa = ack, !.tx_ds = FALSE, !.max_rt = FALSE,
                   !.tx_fifo = <<>>, !.rx_fifo = <<>>]

(* SETUP_RETR: the delay between repetitions is longer the higher the pipe,*)
(* in steps of 250us from 500us (1) to 1750us (6); 0 stands for none.      *)
Retransmission(c, p) == IF c.en_aa THEN p + 1 ELSE 0

(* nrf24l01_set_ptx: with auto-acknowledgement the chip awaits the answer  *)
(* on pipe 0, so that pipe is enabled and its address register borrowed.   *)
BadSetPtxAnswer(c, p) ==
    [c EXCEPT !.ce = FALSE, !.prim_rx = FALSE, !.tx_ds = FALSE, !.max_rt = FALSE,
              !.retr = Retransmission(c, p), !.tx_addr = RxAddr(c, p)]
BadSetPtxStatus(c, p) ==
    [c EXCEPT !.ce = FALSE, !.prim_rx = FALSE,
              !.retr = Retransmission(c, p), !.tx_addr = RxAddr(c, p),
              !.en_rxaddr = IF c.en_aa THEN @ \cup {0} ELSE @,
              !.rx_p0 = IF c.en_aa THEN RxAddr(c, p) ELSE @]

SetPtx(c, p) ==
    LET a == RxAddr(c, p)
        ptx == [c EXCEPT !.ce = FALSE, !.prim_rx = FALSE, !.tx_addr = a,
                         !.tx_ds = FALSE, !.max_rt = FALSE,
                         !.retr = Retransmission(c, p)]
    IN  IF c.en_aa THEN [ptx EXCEPT !.en_rxaddr = @ \cup {0}, !.rx_p0 = a] ELSE ptx

(* nrf24l01_ptx_data: ce is pulsed unless the FIFO is full by now.         *)
FullAfter(c) == Len(c.tx_fifo) + 1 >= TxDepth

PtxData(c, d) ==
    [c EXCEPT !.tx_fifo = IF Len(@) < TxDepth THEN Append(@, d) ELSE @,
              !.busy = ~FullAfter(c)]

(* nrf24l01_ptx_wait_datasent after its loop.                              *)
BadWaitDatasent(c) == c

WaitDatasent(c) == IF c.max_rt THEN [c EXCEPT !.tx_fifo = <<>>] ELSE c

(* nrf24l01_set_prx: pipe 0 gets back what it had before the transmission, *)
(* by the two statics, which stand here for pipe0_open and pipe0_address.  *)
BadSetPrx(c, opened, a) == [c EXCEPT !.ce = TRUE, !.prim_rx = TRUE]

SetPrx(c, opened, a) ==
    LET prx == [c EXCEPT !.ce = TRUE, !.prim_rx = TRUE]
    IN  IF opened THEN [prx EXCEPT !.rx_p0 = a]
                  ELSE [prx EXCEPT !.en_rxaddr = @ \ {0}]

---------------------------------------------------------------------------
(* phy_driver.c: the chip is set up for the first user and switched off    *)
(* after the last one.                                                     *)
Idle == ref_open > 0 /\ call = NoCall

PhyOpen ==
    /\ ref_open < MaxOpen /\ call = NoCall
    /\ ref_open' = ref_open + 1
    /\ chip' = IF ref_open = 0 THEN RadioInit(chip) ELSE chip
    /\ UNCHANGED <<pipe0_open, pipe0_address, call, air>>

BadLastUser == TRUE

LastUser == ref_open = 1

PhyClose ==
    /\ Idle
    /\ ref_open' = ref_open - 1
    /\ chip' = IF LastUser THEN RadioDeinit(chip) ELSE chip
    /\ UNCHANGED <<pipe0_open, pipe0_address, call, air>>

(* The addresses callers give to pipes.  Pipe 0 has the broadcast address  *)
(* and is opened before any other (hal_comm_socket gives it out first).    *)
(* The pipes from 1 on have the address of the node that initiated their   *)
(* connections and the number of the pipe; on a gateway that is one node,  *)
(* and a thing has one such pipe only.                                     *)
AddressFits(p, a) ==
    /\ a.last = p
    /\ IF p = 0 THEN a.high = Broadcast
       ELSE /\ a.high \in High /\ 0 \in chip.en_rxaddr
            /\ \A q \in chip.en_rxaddr \ {0, p} : RxAddr(chip, q).high = a.high

IoctlSetPipe(p, a) ==
    LET opens == p \notin chip.en_rxaddr
        c == SetStandby(chip)
    IN  /\ Idle /\ AddressFits(p, a)
        /\ pipe0_open' = (pipe0_open \/ (opens /\ p = 0))
        /\ pipe0_address' = IF opens /\ p = 0 THEN a ELSE pipe0_address
        /\ chip' = SetPrx(IF opens THEN OpenPipe(c, p, a) ELSE c,
                         pipe0_open', pipe0_address')
        /\ UNCHANGED <<ref_open, call, air>>

IoctlResetPipe(p) ==
    /\ Idle
    /\ pipe0_open' = IF p = 0 /\ 0 \in chip.en_rxaddr THEN FALSE ELSE pipe0_open
    /\ chip' = SetPrx(ClosePipe(SetStandby(chip), p), pipe0_open', pipe0_address)
    /\ UNCHANGED <<ref_open, pipe0_address, call, air>>

IoctlSetChannel(ch, ack) ==
    /\ Idle
    /\ chip' = SetPrx(SetChannelReg(SetStandby(chip), ch, ack), pipe0_open, pipe0_address)
    /\ UNCHANGED <<driver, call, air>>

IoctlStandby ==
    /\ Idle
    /\ chip' = SetStandby(chip)
    /\ UNCHANGED <<driver, call, air>>

(* nrf24l01_prx_data, by the width the chip reports for the packet at the  *)
(* head: with none it stays in the FIFO, with more than 32 the FIFO is     *)
(* flushed.                                                                *)
PrxData(c, width) ==
    [c EXCEPT !.rx_fifo = CASE width = "none" -> @
                            [] width = "some" -> Tail(@)
                            [] width = "excess" -> <<>>]

PrxPipeAvailable(c) == IF c.rx_fifo = <<>> THEN NoPipe ELSE Head(c.rx_fifo).pipe

(* nrf24l01_read: the caller names a pipe, and a packet of another pipe at *)
(* the head stays there, or names none and takes any.                      *)
PhyRead(p) ==
    /\ Idle /\ PrxPipeAvailable(chip) # NoPipe
    /\ p \in {NoPipe, PrxPipeAvailable(chip)}
    /\ \E width \in Width : chip' = PrxData(chip, width)
    /\ UNCHANGED <<driver, call, air>>

(* nrf24l01_write, up to the pulse of ce and from the end of the wait.     *)
PhyWrite(p, d) ==
    /\ Idle /\ p \in chip.en_rxaddr
    /\ chip' = PtxData(SetPtx(chip, p), d)
    /\ call' = [pipe |-> p, payload |-> d, full |-> FullAfter(chip)]
    /\ UNCHANGED <<driver, air>>

Settled == call.full \/ chip.tx_ds \/ chip.max_rt

BadPhyWriteEnd ==
    /\ call # NoCall /\ Settled
    /\ IF chip.max_rt
       THEN chip' = [chip EXCEPT !.max_rt = FALSE, !.busy = TRUE] /\ UNCHANGED <<call, air>>
       ELSE /\ chip' = SetPrx(chip, pipe0_open, pipe0_address)
            /\ call' = NoCall /\ air' = NoAir
    /\ UNCHANGED driver

PhyWriteEnd ==
    /\ call # NoCall /\ Settled
    /\ call' = NoCall /\ air' = NoAir
    /\ chip' = SetPrx(IF call.full THEN chip ELSE WaitDatasent(chip),
                     pipe0_open, pipe0_address)
    /\ UNCHANGED driver

---------------------------------------------------------------------------
(* The chip by itself.                                                     *)

(* It transmits the oldest packet of its FIFO.  When acknowledgements are  *)
(* on it drops the packet once the answer has come, which it hears only on *)
(* pipe 0 under the address it sent to, and keeps it when it gives up.     *)
HearsAnswer(c) == 0 \in c.en_rxaddr /\ c.rx_p0 = c.tx_addr

Transmit ==
    /\ chip.busy
    /\ air' = [addr |-> chip.tx_addr, chan |-> chip.rf_ch, payload |-> Head(chip.tx_fifo)]
    /\ \/ /\ chip.en_aa => HearsAnswer(chip)
          /\ chip' = [chip EXCEPT !.busy = FALSE, !.tx_ds = TRUE, !.tx_fifo = Tail(@)]
       \/ /\ chip.en_aa
          /\ chip' = [chip EXCEPT !.busy = FALSE, !.max_rt = TRUE]
    /\ UNCHANGED <<driver, call>>

(* A packet sent to one of the addresses it listens to arrives.            *)
Receive(p) ==
    /\ chip.pwr_up /\ chip.ce /\ chip.prim_rx
    /\ p \in chip.en_rxaddr /\ Len(chip.rx_fifo) < RxDepth
    /\ chip' = [chip EXCEPT !.rx_fifo = Append(@,
                  [pipe |-> p, addr |-> RxAddr(chip, p), chan |-> chip.rf_ch])]
    /\ UNCHANGED <<driver, call, air>>

Next ==
    \/ PhyOpen \/ PhyClose \/ IoctlStandby \/ PhyWriteEnd \/ Transmit
    \/ \E p \in Pipe : IoctlResetPipe(p) \/ Receive(p)
    \/ \E p \in Pipe \cup {NoPipe} : PhyRead(p)
    \/ \E p \in Pipe, a \in Address : IoctlSetPipe(p, a)
    \/ \E ch \in Channel, ack \in BOOLEAN : IoctlSetChannel(ch, ack)
    \/ \E p \in Pipe, d \in Payload : PhyWrite(p, d)

Spec == Init /\ [][Next]_vars

(* The chip finishes what it was told to send; the driver polls it.        *)
FairSpec == Spec /\ WF_vars(Transmit) /\ WF_vars(PhyWriteEnd)

---------------------------------------------------------------------------
(* Properties.                                                             *)

Chip ==
    [pwr_up : BOOLEAN, prim_rx : BOOLEAN, ce : BOOLEAN, busy : BOOLEAN,
     rf_ch : AnyChannel, en_aa : BOOLEAN, retr : 0..(PipeMax + 1),
     en_rxaddr : SUBSET Pipe, rx_p0 : AnyAddress, rx_p1 : AnyAddress,
     rx_last : [2..PipeMax -> Pipe], tx_addr : AnyAddress,
     tx_ds : BOOLEAN, max_rt : BOOLEAN, tx_fifo : Seq(Payload), rx_fifo : Seq(Packet)]

TypeOK ==
    /\ chip \in Chip
    /\ Len(chip.tx_fifo) <= TxDepth /\ Len(chip.rx_fifo) <= RxDepth
    /\ ref_open \in 0..MaxOpen /\ pipe0_open \in BOOLEAN /\ pipe0_address \in AnyAddress
    /\ call \in [pipe : Pipe, payload : Payload \cup {0}, full : BOOLEAN]
    /\ air \in Aired

(* A packet sent with acknowledgement can be acknowledged: while the chip  *)
(* transmits, pipe 0 listens to the address transmitted to, and the chip   *)
(* repeats the packet exactly on a channel with acknowledgement.           *)
AnswerHeard ==
    chip.busy => /\ chip.en_aa => HearsAnswer(chip)
                 /\ chip.en_aa <=> chip.retr # 0

(* A write starts with an empty TX FIFO, so the packet that goes out is    *)
(* its own and the FIFO never fills up, which would make every later write *)
(* fail.                                                                   *)
NothingLeftToSend ==
    /\ call = NoCall /\ ref_open > 0 => chip.tx_fifo = <<>>
    /\ ~call.full

(* A write that the chip settles as sent has put its own packet on the     *)
(* air, to the address of its pipe, and on the channel that is set.        *)
SentIsOwn ==
    call # NoCall /\ chip.tx_ds =>
        air = [addr |-> chip.tx_addr, chan |-> chip.rf_ch, payload |-> call.payload]

(* Every write returns: the loop that polls the status ends.               *)
WriteReturns == (call # NoCall) ~> (call = NoCall)

(* The registers implement the radio of the link layer: a pipe listens to  *)
(* the address it was opened with, whatever is opened, closed or sent on   *)
(* the other pipes.  While a write borrows pipe 0 its address is the one   *)
(* in pipe0_address.  The radio is on as long as somebody uses it: were it *)
(* powered down for another user's sake, no later step would be allowed.   *)
Pipe0Address ==
    IF call # NoCall THEN IF pipe0_open THEN pipe0_address ELSE Unset
    ELSE IF 0 \in chip.en_rxaddr THEN chip.rx_p0 ELSE Unset

Open(p) ==
    IF ~chip.pwr_up THEN Unset
    ELSE IF p = 0 THEN Pipe0Address
    ELSE IF p \in chip.en_rxaddr THEN RxAddr(chip, p) ELSE Unset

Outcome ==
    IF call = NoCall THEN "none"
    ELSE IF chip.tx_ds THEN "sent"
    ELSE IF chip.max_rt THEN "lost"
    ELSE "pending"

Phy == INSTANCE PhyRadio WITH
    NoAddress <- Unset,
    InitialChannel <- DefaultChannel,
    FifoDepth <- RxDepth,
    up <- chip.pwr_up,
    open <- [p \in Pipe |-> Open(p)],
    chan <- IF ~chip.pwr_up THEN DefaultChannel ELSE chip.rf_ch,
    ack <- chip.pwr_up /\ chip.en_aa,
    listening <- chip.pwr_up /\ chip.ce /\ chip.prim_rx,
    fifo <- IF ~chip.pwr_up THEN <<>> ELSE chip.rx_fifo,
    sending <- IF call = NoCall THEN NoAir
               ELSE [addr |-> chip.tx_addr, chan |-> chip.rf_ch, payload |-> call.payload],
    outcome <- Outcome

PhySpec == Phy!Spec

=============================================================================
