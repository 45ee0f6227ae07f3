------------------------------- MODULE MCHal -------------------------------
(***************************************************************************)
(* Three parts below the daemons that share nothing, for one run of TLC:   *)
(* the table of beacons with its timer, the EEPROM of a thing, and the     *)
(* LoRa radio with its pins.  A behaviour has steps of one part, chosen at *)
(* the start.                                                              *)
(***************************************************************************)
EXTENDS Beacons, StorageAvr, Sx127x

VARIABLE part           \* the one that takes steps

Blocks2 == <<2, 1>>

halVars == <<beaconVars, storageVars, vars, part>>

HalInit ==
    /\ part \in {"timer", "storage", "radio"}
    /\ BeaconsInit /\ StorageInit /\ Init
    /\ part # "timer" => now = 0

HalNext ==
    \/ part = "timer" /\ BeaconsNext /\ UNCHANGED <<storageVars, vars, part>>
    \/ part = "storage" /\ StorageNext /\ UNCHANGED <<beaconVars, vars, part>>
    \/ part = "radio" /\ Next /\ UNCHANGED <<beaconVars, storageVars, part>>

HalSpec == HalInit /\ [][HalNext]_halVars /\ Fairness

=============================================================================
