-------------------------- MODULE DatagramChannel --------------------------
(***************************************************************************)
(* What a user of hal_comm_write and hal_comm_read is promised on one      *)
(* connection: datagrams.  A message arrives whole or not at all, at most  *)
(* once, and messages arrive in the order they were written.               *)
(* Messages are numbered by the order of the writes.                       *)
(***************************************************************************)
EXTENDS Naturals, Sequences

CONSTANT MaxMsgs        \* messages written in a behaviour (a bound)

VARIABLES
    written,            \* number of messages accepted by hal_comm_write
    arrived             \* the messages that arrived, in this order

Init == written = 0 /\ arrived = <<>>

Write ==
    /\ written < MaxMsgs
    /\ written' = written + 1
    /\ UNCHANGED arrived

(* A later message than the last arrives; those in between are lost.       *)
Latest == IF arrived = <<>> THEN 0 ELSE arrived[Len(arrived)]

Arrive ==
    /\ \E m \in (Latest + 1)..written : arrived' = Append(arrived, m)
    /\ UNCHANGED written

Next == Write \/ Arrive

Spec == Init /\ [][Next]_<<written, arrived>>

=============================================================================
