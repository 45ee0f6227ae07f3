----------------------------- MODULE MCManager -----------------------------
(* Instances of NrfManager: the addresses are model values.                *)
EXTENDS NrfManager
CONSTANTS gw, t1, t2
=============================================================================
