-------------------------------- MODULE MCNet --------------------------------
(* Instances of NrfNet: the addresses are model values.                    *)
EXTENDS NrfNet
CONSTANTS gw, t1
=============================================================================
