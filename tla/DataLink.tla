------------------------------ MODULE DataLink ------------------------------
(***************************************************************************)
(* One direction of a connection on the data channel: the fragmentation    *)
(* of write_raw and the reassembly of read_raw (comm_nrf24l01.c), with the *)
(* receiver's radio between them.                                          *)
(*                                                                         *)
(* A message of Size[m] packets is sent as DATA_FRAG packets numbered from *)
(* 0 and one DATA_END; at most MaxFrags of them (128 bytes in packets of   *)
(* 30).  write_raw sends them in one call, but the receiver is another     *)
(* device: its steps fall between any two packets.  Each packet is         *)
(* acknowledged by the radio; a packet is not acknowledged when it is lost,*)
(* when the FIFO is full, when the receiver is on the other channel, or    *)
(* when only the acknowledgement is lost.  The radio drops its own         *)
(* retransmissions of a packet it has, so a packet arrives at most once.   *)
(*                                                                         *)
(* A fragment is <<message, number>>, so a buffer shows what it is made of.*)
(***************************************************************************)
EXTENDS Integers, Sequences

CONSTANTS
    MaxMsgs,            \* messages written in a behaviour (a bound)
    Size,               \* packets of every message
    MaxFrags,           \* packets of the longest message (5 in the code)
    FifoDepth           \* RX FIFO of the radio (3 in the chip)

ASSUME MsgsAssumption == MaxMsgs \in Nat
ASSUME FragsAssumption == MaxFrags \in Nat \ {0}
ASSUME SizeAssumption == Size \in [1..MaxMsgs -> 1..MaxFrags]
ASSUME FifoAssumption == FifoDepth \in Nat \ {0}

VARIABLES
    written,            \* messages accepted by hal_comm_write so far
    tx,                 \* the message in buffer_tx, 0 when len_tx = 0
    seqnumber_tx,
    fifo,               \* RX FIFO of the receiver
    away,               \* the receiver is on the management channel
    stayed,             \* it never was there so far (for the properties)
    seqnumber_rx,
    buffer_rx,          \* the first offset_rx bytes of buffer_rx
    rx,                 \* the complete message, <<>> when len_rx = 0
    arrived             \* the messages completed, in this order

sender == <<written, tx, seqnumber_tx>>
receiver == <<seqnumber_rx, buffer_rx, rx, arrived>>
place == <<away, stayed>>
vars == <<sender, fifo, place, receiver>>

Packet == [msg : 1..MaxMsgs, nseq : 0..(MaxFrags - 1), end : BOOLEAN]
Whole(m) == [i \in 1..Size[m] |-> <<m, i - 1>>]

Init ==
    /\ written = 0 /\ tx = 0 /\ seqnumber_tx = 0
    /\ fifo = <<>> /\ away = FALSE /\ stayed = TRUE
    /\ seqnumber_rx = 0 /\ buffer_rx = <<>> /\ rx = <<>> /\ arrived = <<>>

---------------------------------------------------------------------------
(* hal_comm_write: -EBUSY while a message waits or is on its way.          *)
CommWrite ==
    /\ tx = 0 /\ written < MaxMsgs
    /\ written' = written + 1 /\ tx' = written + 1
    /\ UNCHANGED <<seqnumber_tx, fifo, place, receiver>>

(* Definitions named Bad... are deliberate faults: each replaces the       *)
(* definition after it in a run that shows that a property can fail.       *)

(* One turn of the loop of write_raw.  After the last packet, or when one  *)
(* is not acknowledged, the buffer and the numbering are reset.            *)
Last == seqnumber_tx + 1 = Size[tx]
Arriving == [msg |-> tx, nseq |-> seqnumber_tx, end |-> Last]
CanArrive == ~away /\ Len(fifo) < FifoDepth

Acknowledged ==
    IF Last THEN tx' = 0 /\ seqnumber_tx' = 0
            ELSE seqnumber_tx' = seqnumber_tx + 1 /\ UNCHANGED tx

BadGiveUp == UNCHANGED <<tx, seqnumber_tx>>

GiveUp == tx' = 0 /\ seqnumber_tx' = 0

SendPacket ==
    /\ tx # 0
    /\ \/ CanArrive /\ fifo' = Append(fifo, Arriving) /\ (Acknowledged \/ GiveUp)
       \/ GiveUp /\ UNCHANGED fifo
    /\ UNCHANGED <<written, place, receiver>>

---------------------------------------------------------------------------
(* One turn of the loop of read_raw.  A packet is discarded while a        *)
(* complete message waits to be read, and when its number is not the one   *)
(* expected; the number 0 always starts afresh.  What does not fit into    *)
(* buffer_rx is cut off.                                                   *)
BadExpectedStale(p) == seqnumber_rx

Expected(p) == IF p.nseq = 0 THEN 0 ELSE seqnumber_rx

Reassemble(p) ==
    LET buf == IF p.nseq = 0 THEN <<>> ELSE buffer_rx
        got == IF Len(buf) < MaxFrags THEN Append(buf, <<p.msg, p.nseq>>) ELSE buf
    IN  IF rx # <<>> \/ Expected(p) # p.nseq
        THEN UNCHANGED receiver
        ELSE IF p.end
        THEN /\ rx' = got /\ arrived' = Append(arrived, p.msg)
             /\ seqnumber_rx' = 0 /\ buffer_rx' = <<>>
        ELSE /\ seqnumber_rx' = Expected(p) + 1 /\ buffer_rx' = got
             /\ UNCHANGED <<rx, arrived>>

ReadRaw ==
    /\ ~away /\ fifo # <<>>
    /\ Reassemble(Head(fifo))
    /\ fifo' = Tail(fifo)
    /\ UNCHANGED <<sender, place>>

(* hal_comm_read hands the message to the application.                     *)
CommRead ==
    /\ rx # <<>>
    /\ rx' = <<>>
    /\ UNCHANGED <<sender, fifo, place, seqnumber_rx, buffer_rx, arrived>>

(* The receiver's hop to the management channel flushes its FIFO, as does  *)
(* the hop back, when nothing is left to flush.                            *)
HopAway ==
    /\ ~away
    /\ away' = TRUE /\ stayed' = FALSE /\ fifo' = <<>>
    /\ UNCHANGED <<sender, receiver>>

HopBack ==
    /\ away
    /\ away' = FALSE
    /\ UNCHANGED <<sender, fifo, stayed, receiver>>

Next == CommWrite \/ SendPacket \/ ReadRaw \/ CommRead \/ HopAway \/ HopBack

Spec == Init /\ [][Next]_vars

(* Both devices call running() again and again.                            *)
FairSpec ==
    /\ Spec
    /\ WF_vars(SendPacket) /\ WF_vars(ReadRaw) /\ WF_vars(CommRead) /\ WF_vars(HopBack)

---------------------------------------------------------------------------
(* Properties.                                                             *)

TypeOK ==
    /\ written \in 0..MaxMsgs /\ tx \in 0..MaxMsgs /\ arrived \in Seq(1..MaxMsgs)
    /\ seqnumber_tx \in 0..(MaxFrags - 1) /\ seqnumber_rx \in 0..(MaxFrags - 1)
    /\ fifo \in Seq(Packet) /\ Len(fifo) <= FifoDepth
    /\ away \in BOOLEAN /\ stayed \in BOOLEAN
    /\ \A b \in {buffer_rx, rx} :
          b \in Seq((1..MaxMsgs) \X (0..(MaxFrags - 1))) /\ Len(b) <= MaxFrags

(* A message handed to the application is one that was written, with all   *)
(* its packets and nothing of another message: what a datagram is.         *)
WholeMessages == rx # <<>> => \E m \in 1..written : rx = Whole(m)

(* That holds as long as the receiver stays on the data channel, whatever  *)
(* packets or acknowledgements are lost and however full the FIFO is.      *)
WholeWhileStaying == stayed => WholeMessages

(* The connection is a datagram channel as far as the order goes: no       *)
(* message completes twice and none overtakes another.                     *)
Datagrams == INSTANCE DatagramChannel
ChannelSpec == Datagrams!Spec

(* The sender is ready for the next message again and again.               *)
SenderReady == []<>(tx = 0)

=============================================================================
