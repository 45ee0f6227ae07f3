------------------------------- MODULE MCComm -------------------------------
(* Instances of NrfComm: the addresses are model values.                   *)
EXTENDS NrfComm
CONSTANTS gw, t1
=============================================================================
