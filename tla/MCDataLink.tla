---------------------------- MODULE MCDataLink ----------------------------
(* Instances of DataLink: messages of one, two and three packets.          *)
EXTENDS DataLink
Sizes == <<2, 3, 1, 2, 3, 3>>
===========================================================================
