------------------------------ MODULE PhyRadio ------------------------------
(***************************************************************************)
(* What the link layer takes the radio for when it calls phy_* (drivers/): *)
(* pipes that are closed or have one address each, one channel, a receiver *)
(* that is on or off, a FIFO of packets received, and a transmission that  *)
(* succeeds or fails.  No registers: Nrf24Radio implements this module.    *)
(***************************************************************************)
EXTENDS Integers, Sequences, FiniteSets

CONSTANTS
    Pipe,               \* numbers of the pipes
    Address,            \* access addresses
    NoAddress,          \* what a closed pipe has, none of them
    Channel,            \* channels the caller may ask for
    InvalidChannel,     \* those of them outside the range of the chip
    InitialChannel,     \* the channel after phy_open
    Payload,            \* what is transmitted
    FifoDepth           \* RX FIFO

NoPacket == [addr |-> NoAddress, chan |-> InitialChannel, payload |-> 0]

VARIABLES
    up,                 \* is the driver open?
    open,               \* the address of every pipe
    chan, ack,          \* channel, and are packets acknowledged on it?
    listening,
    fifo,               \* packets received, with the address they were sent to
    sending,            \* the packet being transmitted, NoPacket if none
    outcome             \* "pending", "sent" or "lost" while sending, "none" else

vars == <<up, open, chan, ack, listening, fifo, sending, outcome>>
config == <<up, open, chan, ack>>

Closed == [p \in Pipe |-> NoAddress]

Init ==
    /\ up = FALSE /\ open = Closed /\ chan = InitialChannel /\ ack = FALSE
    /\ listening = FALSE /\ fifo = <<>> /\ sending = NoPacket /\ outcome = "none"

Idle == up /\ outcome = "none"

Start ==
    /\ ~up /\ up' = TRUE
    /\ UNCHANGED <<open, chan, ack, listening, fifo, sending, outcome>>

Stop ==
    /\ Idle
    /\ up' = FALSE /\ open' = Closed /\ chan' = InitialChannel /\ ack' = FALSE
    /\ listening' = FALSE /\ fifo' = <<>> /\ UNCHANGED <<sending, outcome>>

SetPipe(p, a) ==
    /\ Idle
    /\ open' = [open EXCEPT ![p] = IF @ = NoAddress THEN a ELSE @]
    /\ listening' = TRUE
    /\ UNCHANGED <<up, chan, ack, fifo, sending, outcome>>

ResetPipe(p) ==
    /\ Idle
    /\ open' = [open EXCEPT ![p] = NoAddress]
    /\ listening' = TRUE
    /\ UNCHANGED <<up, chan, ack, fifo, sending, outcome>>

SetChannel(c, acked) ==
    /\ Idle
    /\ IF c \in InvalidChannel THEN UNCHANGED <<chan, ack, fifo>>
       ELSE /\ chan' = c /\ ack' = acked
            /\ fifo' = IF c = chan THEN fifo ELSE <<>>
    /\ listening' = TRUE
    /\ UNCHANGED <<up, open, sending, outcome>>

Standby ==
    /\ Idle
    /\ listening' = FALSE
    /\ UNCHANGED <<config, fifo, sending, outcome>>

(* A packet sent to the address of an open pipe arrives.                   *)
Receive(p) ==
    /\ Idle /\ listening /\ open[p] # NoAddress /\ Len(fifo) < FifoDepth
    /\ fifo' = Append(fifo, [pipe |-> p, addr |-> open[p], chan |-> chan])
    /\ UNCHANGED <<config, listening, sending, outcome>>

(* The packet at the head is read by its own pipe, or by a caller that     *)
(* names none.  It stays when it has no payload, and all are dropped when  *)
(* its width is not credible.                                              *)
Read ==
    /\ Idle /\ fifo # <<>>
    /\ fifo' \in {fifo, Tail(fifo), <<>>}
    /\ UNCHANGED <<config, listening, sending, outcome>>

(* Exactly this packet goes to exactly the address of the pipe, the call   *)
(* does not return before its fate is known, and the receiver is on again  *)
(* when it does.                                                           *)
Write(p, d) ==
    /\ Idle /\ open[p] # NoAddress
    /\ sending' = [addr |-> open[p], chan |-> chan, payload |-> d]
    /\ outcome' = "pending" /\ listening' = FALSE
    /\ UNCHANGED <<config, fifo>>

Transmit ==
    /\ outcome = "pending"
    /\ outcome' \in IF ack THEN {"sent", "lost"} ELSE {"sent"}
    /\ UNCHANGED <<config, listening, fifo, sending>>

Return ==
    /\ outcome \in {"sent", "lost"}
    /\ sending' = NoPacket /\ outcome' = "none" /\ listening' = TRUE
    /\ UNCHANGED <<config, fifo>>

Next ==
    \/ Start \/ Stop \/ Standby \/ Read \/ Transmit \/ Return
    \/ \E p \in Pipe : ResetPipe(p) \/ Receive(p)
    \/ \E p \in Pipe, a \in Address : SetPipe(p, a)
    \/ \E c \in Channel, acked \in BOOLEAN : SetChannel(c, acked)
    \/ \E p \in Pipe, d \in Payload : Write(p, d)

Spec == Init /\ [][Next]_vars

=============================================================================
