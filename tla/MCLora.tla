------------------------------- MODULE MCLora -------------------------------
(* The LoRa radio on its own, under the fairness of its program.           *)
EXTENDS Sx127x
=============================================================================
