----------------------------- MODULE GpioSysfs -----------------------------
(***************************************************************************)
(* GPIO through sysfs, src/hal/gpio/gpio_sysfs.c: the bits of gpio_map and *)
(* what the kernel knows of the pins, as one record g.  Every function is  *)
(* an operator from a record to the SET of records the call may leave      *)
(* behind.                                                                 *)
(*                                                                         *)
(*  - initialized, direction: the pins with BIT_INITIALIZED and with       *)
(*    BIT_DIRECTION (an output) set in gpio_map, which dies with the       *)
(*    process;                                                             *)
(*  - exported, out, high, edges: the kernel's record of the exported pins *)
(*    (outputs, outputs driven high, pins whose edges are reported), which *)
(*    outlives it;                                                         *)
(*  - lost: history, the pins this process wrote last in vain.             *)
(***************************************************************************)
EXTENDS Integers, FiniteSets

CONSTANT Flaky          \* the pins whose files in sysfs may fail (a bound)
ASSUME FlakyAssumption == Flaky \subseteq Nat

HIGHEST_GPIO == 28

GpioBoot == [initialized |-> {}, direction |-> {},
             exported |-> {}, out |-> {}, high |-> {}, edges |-> {}, lost |-> {}]

(* gpio_export writes the number with "%2d": a pin below 10 gets a blank   *)
(* in front, which the kernel does not take for a number.                  *)
GpioExport(g, p) == IF p < 10 THEN {} ELSE {[g EXCEPT !.exported = @ \cup {p}]}

(* gpio_unexport: the kernel forgets the pin, whoever exported it.         *)
GpioUnexport(g, P) ==
    [g EXCEPT !.exported = @ \ P, !.out = @ \ P, !.high = @ \ P, !.edges = @ \ P]

(* gpio_direction: writing "out" drives the pin low.                       *)
GpioDirection(g, p, mode) ==
    [g EXCEPT !.out = IF mode = "output" THEN @ \cup {p} ELSE @ \ {p},
              !.high = @ \ {p}, !.lost = @ \ {p}]

(* gpio_write.  When open or write fails the pin keeps its level; nobody   *)
(* looks at the result.                                                    *)
GpioWrite(g, p, value) ==
    {[g EXCEPT !.high = IF value = 0 THEN @ \ {p} ELSE @ \cup {p}, !.lost = @ \ {p}]}
    \cup (IF p \in Flaky THEN {[g EXCEPT !.lost = @ \cup {p}]} ELSE {})

(* hal_gpio_setup, also what is left of the map when the process ends.     *)
Setup(g) == [g EXCEPT !.initialized = {}, !.direction = {}, !.lost = {}]

(* hal_gpio_unmap visits gpio_map by index and unexports the index; pin p  *)
(* has index p - 1.  What cannot be unexported stays.                      *)
Unmap(g) ==
    LET P == {p - 1 : p \in g.initialized}
    IN  {Setup(GpioUnexport(g, P \ F)) : F \in SUBSET (P \cap Flaky)}

(* hal_gpio_pin_mode.  A failure may come before or after the export.      *)
PinMode(g, p, mode) ==
    LET ready == IF p \in g.initialized THEN {g}
                 ELSE {[e EXCEPT !.initialized = @ \cup {p}] : e \in GpioExport(g, p)}
        moved(e) == [GpioDirection(e, p, mode) EXCEPT
                        !.direction = IF mode = "output" THEN @ \cup {p} ELSE @ \ {p}]
    IN  IF p > HIGHEST_GPIO \/ ready = {} THEN {g}
        ELSE {moved(e) : e \in ready} \cup (IF p \in Flaky THEN {g} \cup ready ELSE {})

IsOutput(g, p) == p \in g.initialized /\ p \in g.direction

(* hal_gpio_digital_write makes the pin an output and calls itself again.  *)
(* While hal_gpio_pin_mode keeps failing it never returns, and the process *)
(* runs out of stack: these are the returning calls.                       *)
BadDigitalWrite(g, p, value) ==
    IF IsOutput(g, p) THEN GpioWrite(g, p, value) ELSE {g}

DigitalWrite(g, p, value) ==
    IF IsOutput(g, p) THEN GpioWrite(g, p, value)
    ELSE UNION {GpioWrite(h, p, value) :
                    h \in {h \in PinMode(g, p, "output") : IsOutput(h, p)}}

(* gpio_edge, for rising edges.                                            *)
GpioEdge(g, p) == [g EXCEPT !.edges = @ \cup {p}]

(* hal_gpio_get_fd: is there a descriptor, and what is left behind.  A pin *)
(* that is not an input is refused (-EIO), the edge may be refused, and    *)
(* then the value file may not open.                                       *)
GetFd(g, p) ==
    LET failed(h) == [fd |-> FALSE, pins |-> h]
    IN  IF p \notin g.initialized \/ p \in g.direction THEN {failed(g)}
        ELSE {[fd |-> TRUE, pins |-> GpioEdge(g, p)]}
             \cup (IF p \in Flaky THEN {failed(g), failed(GpioEdge(g, p))} ELSE {})

=============================================================================
