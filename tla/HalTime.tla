------------------------------ MODULE HalTime ------------------------------
(***************************************************************************)
(* The timers of the program: hal_timeout (src/hal/time/time_linux.c, and  *)
(* the same code in time_avr.cpp) on a millisecond clock that wraps.  A    *)
(* user of it keeps the reading of the clock when the timer was started    *)
(* and asks again and again whether the timeout has passed: the windows of *)
(* running() and presence_connect(), the keepalive anchors, the age of a   *)
(* beacon.                                                                 *)
(*                                                                         *)
(* The clock advances by one; a step of the real-time clock of Linux       *)
(* (CLOCK_REALTIME set by hand or by NTP) is not modelled.                 *)
(***************************************************************************)
EXTENDS Integers

CONSTANT Modulus            \* 2^32: readings are uint32_t

ASSUME ModulusAssumption == Modulus \in Nat \ {0}

VARIABLES
    now,                    \* hal_time_ms()
    start,                  \* the reading when the timer was started
    elapsed                 \* the time that has really passed since then

timerVars == <<now, start, elapsed>>

Reading == 0..(Modulus - 1)

(* Definitions named Bad... are deliberate faults: each replaces the       *)
(* definition after it in a run that shows that a property can fail.       *)

(* current - start, or current + (ULONG_MAX - start) when the clock has    *)
(* wrapped since: ULONG_MAX is 2^32 - 1, or is cut to it by the addition.  *)
BadDifferenceSwapped(current, begin) ==
    IF current < begin THEN begin - current ELSE current - begin
BadDifferenceClamped(current, begin) ==
    IF current < begin THEN 0 ELSE current - begin

Difference(current, begin) ==
    IF current < begin
    THEN (current + (Modulus - 1 - begin)) % Modulus
    ELSE current - begin

HalTimeout(current, begin, timeout) == Difference(current, begin) >= timeout

TimerInit ==
    /\ now \in Reading
    /\ start = now
    /\ elapsed = 0

(* A timer is looked at before the clock comes round to its start again.   *)
Tick ==
    /\ elapsed + 1 < Modulus
    /\ now' = (now + 1) % Modulus
    /\ elapsed' = elapsed + 1
    /\ UNCHANGED start

Restart ==
    /\ start' = now
    /\ elapsed' = 0
    /\ UNCHANGED now

TimerNext == Tick \/ Restart

TimerSpec == TimerInit /\ [][TimerNext]_timerVars

---------------------------------------------------------------------------
(* Properties.                                                             *)

TypeOK == now \in Reading /\ start \in Reading /\ elapsed \in Reading

(* No timeout is flagged before its time, whatever the clock reads.        *)
NeverEarly == \A t \in Reading : HalTimeout(now, start, t) => elapsed >= t

(* A timeout is flagged at the latest one tick after its time: the branch  *)
(* for a wrapped clock counts one tick less than have passed.              *)
AtMostOneLate == \A t \in Reading : elapsed > t => HalTimeout(now, start, t)

=============================================================================
