------------------------------ MODULE MCKnown -------------------------------
(* Instances of KnownPeers for TLC: the devices are alike.                 *)
EXTENDS KnownPeers, TLC

CONSTANTS d1, d2, d3

Alike == Permutations(Device)

=============================================================================
