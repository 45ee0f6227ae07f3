------------------------------- MODULE Sx127x -------------------------------
(***************************************************************************)
(* The LoRa/FSK radio driver src/lora/sx127x.c with its Linux layer        *)
(* src/lora/sx127x_hal_linux.c over GPIO (module GpioSysfs), the chip, and *)
(* a program that uses the driver.                                         *)
(*                                                                         *)
(* Nothing in the repository calls the driver yet.  The program modelled   *)
(* obeys its assertions: an operation is started only from SLEEP, that is  *)
(* after the interrupt handler or radio_sleep.  It watches the descriptor  *)
(* of init_gpio_fd (DIO0) and runs the handler on an edge; it also runs    *)
(* the handler when radio_irq_flag shows it one of the LoRa flags it polls *)
(* for.                                                                    *)
(*                                                                         *)
(* The handler is several steps, for the chip goes on meanwhile; the other *)
(* calls find the chip idle and are one step each.  A packet is its        *)
(* length.  Frequency, power, spreading factor, timing (hal_wait_until)    *)
(* and the random seed are left out.                                       *)
(***************************************************************************)
EXTENDS GpioSysfs

CONSTANTS
    Length,             \* lengths of packets (a bound)
    Polled              \* the flags the program polls for
ASSUME LengthAssumption == Length \subseteq Nat \ {0}
ASSUME PolledAssumption == Polled \subseteq {"TXDONE", "RXDONE", "RXTOUT"}

VARIABLES
    gpio,               \* the pins
    chip,               \* the registers of the radio
    lmic,               \* LMIC: is the modem LoRa, and its ih
    edge,               \* an edge of DIO0 that the program has not read
    pc,                 \* down, idle, a step of the handler, or hung
    busy,               \* the program waits for the end of an operation
    got,                \* what the handler reports
    last                \* history: the operation started last

vars == <<gpio, chip, lmic, edge, pc, busy, got, last>>

(* The pins of the Raspberry Pi 3.                                         *)
NSS == 25
RXTX == 24
RST == 17
DIO == <<21, 4, 24>>

Nothing == [what |-> "none", len |-> 0, pkt |-> 0]
NoOperation == [kind |-> "none", lora |-> FALSE, single |-> FALSE, done |-> FALSE]
ZeroConfig == [lora |-> FALSE, ih |-> 0]

(* The registers after a reset.  enabled: the LoRa interrupts not masked;  *)
(* dio0: what DIO0 is mapped to; implicit: the header mode; plen and       *)
(* fsk_plen: PayloadLength of each modem; pkt: the packet received last,   *)
(* whose length is RxNbBytes.                                              *)
ChipReset ==
    [mode |-> "standby", lora |-> FALSE, dio0 |-> 0,
     flags |-> {}, enabled |-> {"TXDONE", "RXDONE", "RXTOUT"}, fsk |-> {},
     implicit |-> FALSE, plen |-> 1, pkt |-> 0, fsk_plen |-> 64]

(* Definitions named Bad... are deliberate faults: each replaces the       *)
(* definition after it in a run that shows that a property can fail.       *)

---------------------------------------------------------------------------
(* The chip.                                                               *)

(* A write of RegOpMode: the modem changes only in SLEEP.  Leaving a mode  *)
(* clears the FSK flags, save PAYLOADREADY while the FIFO is kept.         *)
OpMode(c, lora, mode) ==
    [c EXCEPT !.mode = mode,
              !.lora = IF c.mode = "sleep" THEN lora ELSE @,
              !.fsk = IF mode \in {"sleep", "standby"} THEN @ \cap {"PAYLOADREADY"} ELSE {}]

(* DIO0: 0 is RxDone for LoRa and PacketSent/PayloadReady for FSK, 1 is    *)
(* TxDone for LoRa; 3 is none of them.                                     *)
Dio0(c) ==
    IF c.lora THEN \/ c.dio0 = 0 /\ "RXDONE" \in c.flags
                   \/ c.dio0 = 1 /\ "TXDONE" \in c.flags
    ELSE c.dio0 = 0 /\ c.fsk \cap {"PACKETSENT", "PAYLOADREADY"} # {}

(* The registers change; a rising edge is kept for the program to see.     *)
ChipBecomes(c) ==
    /\ chip' = c
    /\ edge' = (edge \/ (pc # "down" /\ DIO[1] \in gpio.edges /\ Dio0(c) /\ ~Dio0(chip)))

Raise(c, flag) == [c EXCEPT !.flags = @ \cup ({flag} \cap c.enabled)]

(* A transmission ends.  The LoRa modem goes to STANDBY by itself.         *)
ChipSent ==
    /\ chip.mode = "tx" /\ "PACKETSENT" \notin chip.fsk
    /\ ChipBecomes(IF chip.lora THEN [Raise(chip, "TXDONE") EXCEPT !.mode = "standby"]
                   ELSE [chip EXCEPT !.fsk = @ \cup {"PACKETSENT"}])
    /\ last' = [last EXCEPT !.done = TRUE]
    /\ UNCHANGED <<gpio, lmic, pc, busy, got>>

(* A packet arrives; a LoRa packet without a header has the length set.    *)
ChipReceived(n) ==
    /\ chip.mode \in {"rx", "rx_single"} /\ "PAYLOADREADY" \notin chip.fsk
    /\ chip.lora /\ chip.implicit => n = chip.plen
    /\ ChipBecomes(IF chip.lora
                   THEN [Raise(chip, "RXDONE") EXCEPT
                            !.pkt = n,
                            !.mode = IF @ = "rx_single" THEN "standby" ELSE @]
                   ELSE [chip EXCEPT !.fsk = @ \cup {"PAYLOADREADY"}, !.pkt = n])
    /\ UNCHANGED <<gpio, lmic, pc, busy, got, last>>

(* Nothing was heard in time.                                              *)
ChipTimeout ==
    /\ \/ /\ chip.mode = "rx_single"
          /\ ChipBecomes([Raise(chip, "RXTOUT") EXCEPT !.mode = "standby"])
       \/ /\ chip.mode = "rx" /\ ~chip.lora /\ "TIMEOUT" \notin chip.fsk
          /\ ChipBecomes([chip EXCEPT !.fsk = @ \cup {"TIMEOUT"}])
    /\ UNCHANGED <<gpio, lmic, pc, busy, got, last>>

---------------------------------------------------------------------------
(* Starting an operation.                                                  *)

(* configLoraModem: an implicit header brings its length.                  *)
ConfigLoraModem(c) ==
    [c EXCEPT !.implicit = lmic.ih # 0, !.plen = IF lmic.ih # 0 THEN lmic.ih ELSE @]

(* LoRa: DIO0 is mapped, all flags are cleared, all interrupts masked but  *)
(* some.  MAP_DIO2_LORA_NOP is 0xC0, not 0x0C: or-ed to MAP_DIO0_LORA_...  *)
(* it sets the bits of DIO0, so RegDioMapping1 becomes 0xF0 for a          *)
(* transmission and 0xC0 for a reception, and DIO0 is 3 for both.          *)
BadStartIrqsKept(c, enabled) == [c EXCEPT !.dio0 = 3, !.enabled = enabled]
BadStartIrqsMasked(c, enabled) == [c EXCEPT !.dio0 = 3, !.flags = {}]

StartIrqs(c, enabled) == [c EXCEPT !.dio0 = 3, !.flags = {}, !.enabled = enabled]

(* opmodeLora or opmodeFSK, which end in SLEEP, then STANDBY.              *)
Standby(c, lora) ==
    LET s == OpMode(c, lora, "sleep") IN OpMode(s, s.lora, "standby")

TxLora(c, n) ==
    LET s == StartIrqs(ConfigLoraModem(Standby(c, TRUE)), {"TXDONE"})
    IN  OpMode([s EXCEPT !.plen = n], s.lora, "tx")

TxFsk(c, n) ==
    LET s == Standby(c, FALSE)
    IN  OpMode([s EXCEPT !.dio0 = 0, !.fsk_plen = n + 1], s.lora, "tx")

(* rxlorairqmask.                                                          *)
RxLoraIrqs == [SINGLE |-> {"RXDONE", "RXTOUT"}, SCAN |-> {"RXDONE"}, RSSI |-> {}]

(* For RSSI the modem has a fixed configuration, with an explicit header.  *)
RxLora(c, rxmode) ==
    LET s == Standby(c, TRUE)
        m == IF rxmode = "RSSI" THEN [s EXCEPT !.implicit = FALSE] ELSE ConfigLoraModem(s)
    IN  OpMode(StartIrqs(m, RxLoraIrqs[rxmode]), m.lora,
               IF rxmode = "SINGLE" THEN "rx_single" ELSE "rx")

RxFsk(c) ==
    LET s == Standby(c, FALSE) IN OpMode([s EXCEPT !.dio0 = 0], s.lora, "rx")

Start(kind, single, value, c) ==
    /\ pc = "idle" /\ ~busy
    /\ gpio' \in DigitalWrite(gpio, RXTX, value)
    /\ ChipBecomes(c)
    /\ busy' = TRUE
    /\ last' = [kind |-> kind, lora |-> lmic.lora, single |-> single, done |-> FALSE]
    /\ UNCHANGED <<lmic, pc, got>>

RadioTx(n) ==
    Start("tx", FALSE, 1, IF lmic.lora THEN TxLora(chip, n) ELSE TxFsk(chip, n))

RadioRx(rxmode) ==
    Start("rx", rxmode = "SINGLE", 0,
          IF lmic.lora THEN RxLora(chip, rxmode) ELSE RxFsk(chip))

(* radio_sleep: whatever runs is given up; flags and edges stay.           *)
RadioSleep ==
    /\ pc = "idle"
    /\ ChipBecomes(OpMode(chip, chip.lora, "sleep"))
    /\ busy' = FALSE
    /\ UNCHANGED <<gpio, lmic, pc, got, last>>

(* radio_set_config: at any time, an operation in progress or not.  FSK    *)
(* does not use ih.                                                        *)
RadioSetConfig(lora, ih) ==
    /\ pc = "idle"
    /\ lmic' = [lora |-> lora, ih |-> ih]
    /\ UNCHANGED <<gpio, chip, edge, pc, busy, got, last>>

---------------------------------------------------------------------------
(* radio_irq_handler.                                                      *)

(* The flags, of the modem the chip is in now, are read once.  FSK without *)
(* any of them is a loop without an end.                                   *)
HandlerFlags ==
    /\ pc = "idle"
    /\ edge \/ (chip.lora /\ chip.flags \cap Polled # {})
    /\ edge' = FALSE
    /\ LET flags == IF chip.lora THEN chip.flags ELSE chip.fsk
           says(what) == got' = [Nothing EXCEPT !.what = what]
       IN  IF flags \cap {"TXDONE", "PACKETSENT"} # {}
           THEN says("sent") /\ pc' = "clear"
           ELSE IF flags \cap {"RXDONE", "PAYLOADREADY"} # {}
           THEN says("packet") /\ pc' = "len"
           ELSE IF flags \cap {"RXTOUT", "TIMEOUT"} # {}
           THEN says("timeout") /\ pc' = "clear"
           ELSE says("none") /\ pc' = IF chip.lora THEN "clear" ELSE "hung"
    /\ UNCHANGED <<gpio, chip, lmic, busy, last>>

(* The length, then the FIFO.                                              *)
BadReceivedLength == IF lmic.ih # 0 THEN chip.plen ELSE chip.pkt

ReceivedLength ==
    IF ~chip.lora THEN chip.fsk_plen
    ELSE IF chip.implicit THEN chip.plen
    ELSE chip.pkt

HandlerLength ==
    /\ pc = "len"
    /\ got' = [got EXCEPT !.len = ReceivedLength]
    /\ pc' = "fifo"
    /\ UNCHANGED <<gpio, chip, lmic, edge, busy, last>>

HandlerFifo ==
    /\ pc = "fifo"
    /\ got' = [got EXCEPT !.pkt = chip.pkt]
    /\ pc' = "clear"
    /\ UNCHANGED <<gpio, chip, lmic, edge, busy, last>>

(* LoRa: everything masked and cleared.  Then to SLEEP.                    *)
BadHandlerDone(c) == IF c.lora THEN [c EXCEPT !.enabled = {}, !.flags = {}] ELSE c

HandlerDone(c) ==
    OpMode(IF c.lora THEN [c EXCEPT !.enabled = {}, !.flags = {}] ELSE c, c.lora, "sleep")

HandlerEnd ==
    /\ pc = "clear"
    /\ ChipBecomes(HandlerDone(chip))
    /\ pc' = "idle" /\ busy' = FALSE /\ got' = Nothing
    /\ UNCHANGED <<gpio, lmic, last>>

Handler == HandlerFlags \/ HandlerLength \/ HandlerFifo \/ HandlerEnd

---------------------------------------------------------------------------
(* The life of the program.                                                *)

(* init_gpio.  DIO[3] is the pin of the antenna switch, too.               *)
InitGpio(g) ==
    LET output(G, p) == UNION {PinMode(h, p, "output") : h \in G}
        input(G, p) == UNION {PinMode(h, p, "input") : h \in G}
        driven == output(output(output({Setup(g)}, NSS), RXTX), RST)
    IN  input(input(input(driven, DIO[1]), DIO[2]), DIO[3])

(* hal_pin_rst(1).                                                         *)
ResetHigh(g) == UNION {DigitalWrite(h, RST, 1) : h \in PinMode(g, RST, "output")}

(* The rest of radio_init: noise is received, then the chip sleeps.        *)
Seeded(c) ==
    LET r == RxLora(OpMode(c, c.lora, "sleep"), "RSSI") IN OpMode(r, r.lora, "sleep")

(* hal_init and radio_init, then init_gpio_fd; a program that gets no      *)
(* descriptor ends.  A reset pin that was not driven high has reset        *)
(* nothing; one that is not let go holds the chip, which never answers.    *)
Boot ==
    /\ pc = "down"
    /\ \E g \in InitGpio(gpio) : \E h \in ResetHigh(g) : \E f \in PinMode(h, RST, "input") :
        LET c == IF RST \in h.high THEN ChipReset ELSE chip
        IN  IF RST \in f.high
            THEN pc' = "hung" /\ gpio' = f /\ chip' = c
            ELSE \E i \in DigitalWrite(f, RXTX, 0) : \E w \in GetFd(i, DIO[1]) :
                    /\ chip' = Seeded(c)
                    /\ IF w.fd THEN pc' = "idle" /\ gpio' = w.pins
                       ELSE pc' = "down" /\ gpio' = Setup(w.pins)
    /\ UNCHANGED <<lmic, edge, busy, got, last>>

Ends(g) ==
    /\ gpio' = g
    /\ pc' = "down" /\ edge' = FALSE /\ busy' = FALSE
    /\ got' = Nothing /\ lmic' = ZeroConfig /\ last' = NoOperation
    /\ UNCHANGED chip

(* hal_pins_unmap and exit, or a crash: the chip goes on.                  *)
Stop == pc = "idle" /\ ~busy /\ \E g \in Unmap(gpio) : Ends(g)
Crash == pc # "down" /\ Ends(Setup(gpio))

Init ==
    /\ gpio = GpioBoot /\ chip = ChipReset /\ lmic = ZeroConfig
    /\ edge = FALSE /\ pc = "down" /\ busy = FALSE
    /\ got = Nothing /\ last = NoOperation

Next ==
    \/ Boot \/ Stop \/ Crash
    \/ \E n \in Length : RadioTx(n) \/ ChipReceived(n)
    \/ \E rxmode \in DOMAIN RxLoraIrqs : RadioRx(rxmode)
    \/ RadioSetConfig(FALSE, 0) \/ \E ih \in Length \cup {0} : RadioSetConfig(TRUE, ih)
    \/ RadioSleep \/ Handler
    \/ ChipSent \/ ChipTimeout

Spec == Init /\ [][Next]_vars

(* The program dispatches the edges it watches; a transmission ends.       *)
Fairness == WF_vars(Handler) /\ WF_vars(ChipSent)

FairSpec == Spec /\ Fairness

---------------------------------------------------------------------------
(* Properties.                                                             *)

Active == chip.mode \in {"tx", "rx", "rx_single"}

(* ASSERT((readReg(RegOpMode) & OPMODE_LORA) != 0) and its like, commented *)
(* out in the code: the radio works with the modem the operation was       *)
(* configured for, although the modem bit is writable in SLEEP only and    *)
(* operations of the two modems follow each other in any order.            *)
ModemMatches == Active /\ busy => chip.lora = last.lora

(* The antenna switch is driven, to the side the radio uses unless the     *)
(* write of its pin failed, whatever the pin was before: init_gpio leaves  *)
(* it an input, as it uses it for DIO2 as well, its export or direction    *)
(* may fail, and a crash leaves it as it was.                              *)
AntennaMatches ==
    Active /\ busy =>
        /\ RXTX \in gpio.exported \cap gpio.out
        /\ RXTX \in gpio.lost \/ (RXTX \in gpio.high <=> chip.mode = "tx")

(* The handler reports a packet as sent only when the transmission started *)
(* last is over, even when it runs for an edge of an operation that was    *)
(* given up.                                                               *)
SentWasSent == pc = "clear" /\ got.what = "sent" => last.kind = "tx" /\ last.done

(* The length reported for a LoRa packet is its own, although the header   *)
(* mode may be configured anew between its arrival and the handler.  (A    *)
(* continuous reception goes on under the handler and may replace the      *)
(* packet between the two readings.)                                       *)
LengthIsOwn ==
    pc = "clear" /\ got.what = "packet" /\ last.lora /\ last.single => got.len = got.pkt

(* A transmission ends for a program that polls: the flag it waits for is  *)
(* raised, although the last handler masked every interrupt, and though    *)
(* the edge of an operation that was given up may come in between.  An FSK *)
(* transmission may end in the endless loop of the handler, a LoRa         *)
(* transmission never does.                                                *)
TransmissionEnds ==
    busy /\ last.kind = "tx" ~> ~busy \/ (pc = "hung" /\ ~last.lora)

(* "The corresponding IRQ will inform us about completion" of a LoRa       *)
(* transmission: false for a program that waits for the interrupt, since   *)
(* TxDone is not what DIO0 is mapped to.                                   *)
IrqInforms == busy /\ last.kind = "tx" /\ last.lora ~> ~busy

=============================================================================
