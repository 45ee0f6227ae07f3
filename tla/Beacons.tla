------------------------------ MODULE Beacons ------------------------------
(***************************************************************************)
(* The table of recent beacons of the gateway daemon (peer_bcast_table in  *)
(* src/nrfd/manager.c), which GetBroadcastingDevices lists, seen from one  *)
(* device: entries are independent of each other.  The entry keeps the     *)
(* clock reading of the last beacon; the timer of module HalTime is that   *)
(* reading and the time since.  A GLib timeout removes what is too old.    *)
(***************************************************************************)
EXTENDS HalTime

CONSTANTS
    BCAST_TIMEOUT,          \* an entry this old is removed
    Period                  \* timeout_iterator runs so often (5 s)

ASSUME BcastAssumption == BCAST_TIMEOUT \in Nat /\ Period \in Nat

VARIABLES
    listed,                 \* the device is in the table
    sweep                   \* time since the table was last swept

beaconVars == <<timerVars, listed, sweep>>

BeaconsInit == TimerInit /\ listed = FALSE /\ sweep = 0

(* evt_presence stamps the entry, an old one or a new one.  When it makes  *)
(* a connection the entry is removed again.                                *)
EvtPresence ==
    /\ Restart
    /\ listed' \in BOOLEAN
    /\ UNCHANGED sweep

(* timeout_iterator: check_timeout decides for every entry.                *)
CheckTimeout == HalTimeout(now, start, BCAST_TIMEOUT)

TimeoutIterator ==
    /\ listed' = (listed /\ ~CheckTimeout)
    /\ sweep' = 0
    /\ UNCHANGED timerVars

(* Time passes; the main loop is never late with the sweep.                *)
TimePasses ==
    /\ sweep < Period
    /\ Tick
    /\ sweep' = sweep + 1
    /\ UNCHANGED listed

BeaconsNext == EvtPresence \/ TimeoutIterator \/ TimePasses

BeaconsSpec == BeaconsInit /\ [][BeaconsNext]_beaconVars

---------------------------------------------------------------------------
(* Properties.                                                             *)

(* "Get list of devices that sent presence recently": a listed device has  *)
(* sent a beacon within the timeout and one period of the sweep, also when *)
(* the clock has wrapped since.                                            *)
ListedIsRecent == listed => elapsed <= BCAST_TIMEOUT + Period

=============================================================================
