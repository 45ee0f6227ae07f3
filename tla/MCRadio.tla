------------------------------ MODULE MCRadio -------------------------------
(* An instance of Nrf24Radio for TLC: the broadcast pipe, pipes 1 and 2,   *)
(* the high bytes of two initiators.                                       *)
EXTENDS Nrf24Radio

CONSTANTS gateway1, gateway2

=============================================================================
