---------------------------- MODULE Sx127xProofs ----------------------------
(***************************************************************************)
(* The safety of the LoRa/FSK radio driver (module Sx127x) for packets of  *)
(* any length and any pins that fail, with the lemmas about GPIO (module   *)
(* GpioSysfs) it rests on.                                                 *)
(***************************************************************************)
EXTENDS Sx127x, TLAPS

LoraFlags == {"TXDONE", "RXDONE", "RXTOUT"}
FskFlags == {"PACKETSENT", "PAYLOADREADY", "TIMEOUT"}
Modes == {"sleep", "standby", "tx", "rx", "rx_single"}

Chip ==
    [mode : Modes, lora : BOOLEAN, dio0 : {0, 3},
     flags : SUBSET LoraFlags, enabled : SUBSET LoraFlags, fsk : SUBSET FskFlags,
     implicit : BOOLEAN, plen : Nat, pkt : Nat, fsk_plen : Nat]

Pins == SUBSET Nat
Gpio == [initialized : Pins, direction : Pins,
         exported : Pins, out : Pins, high : Pins, edges : Pins, lost : Pins]

Config == [lora : BOOLEAN, ih : Nat]
Report == [what : {"none", "sent", "packet", "timeout"}, len : Nat, pkt : Nat]
Operation == [kind : {"none", "tx", "rx"}, lora : BOOLEAN, single : BOOLEAN, done : BOOLEAN]

TypeOK ==
    /\ gpio \in Gpio /\ chip \in Chip /\ lmic \in Config
    /\ edge \in BOOLEAN /\ busy \in BOOLEAN
    /\ pc \in {"down", "idle", "len", "fifo", "clear", "hung"}
    /\ got \in Report /\ last \in Operation

(* What gpio_map takes for initialized is exported, and what it takes for  *)
(* an output is one for the kernel.                                        *)
OutputsExported(g) ==
    /\ g.initialized \subseteq g.exported
    /\ g.direction \subseteq g.initialized \cap g.out

Runs == pc \notin {"down", "hung"}

(* Between two operations the radio sleeps; the modem is the one of the    *)
(* operation.                                                              *)
ModemInv ==
    /\ pc = "down" => ~busy /\ ~last.lora
    /\ Runs /\ ~busy => chip.mode = "sleep"
    /\ busy => chip.lora = last.lora
    /\ Runs /\ last.lora => chip.lora

AntennaInv == OutputsExported(gpio) /\ AntennaMatches

Sent == last.kind = "tx" /\ last.done

(* While the program runs a flag of a transmission is one of the last      *)
(* operation.                                                              *)
SentInv ==
    /\ Runs => /\ chip.mode = "tx" => last.kind = "tx"
               /\ chip.lora /\ "TXDONE" \in chip.flags => Sent
               /\ "PACKETSENT" \in chip.fsk => Sent
    /\ pc = "clear" /\ got.what = "sent" => Sent
    /\ pc \in {"len", "fifo"} => got.what = "packet"

SingleLora == last.lora /\ last.single

(* The flag of a packet received alone says that the registers are of it,  *)
(* until the next operation; the handler runs under that flag.             *)
LengthInv ==
    SingleLora =>
    /\ chip.mode # "rx"
    /\ "RXDONE" \in chip.flags =>
          /\ chip.mode # "rx_single"
          /\ chip.implicit => chip.plen = chip.pkt
    /\ pc \in {"len", "fifo"} => "RXDONE" \in chip.flags
    /\ pc = "fifo" => got.len = chip.pkt
    /\ pc = "clear" /\ got.what = "packet" => got.len = got.pkt

IInv == TypeOK /\ ModemInv /\ AntennaInv /\ SentInv /\ LengthInv

---------------------------------------------------------------------------
(* GPIO.                                                                   *)

Sound(g) == g \in Gpio /\ OutputsExported(g)

(* The fields of a record of pins.                                         *)
LEMMA GpioFacts ==
    ASSUME NEW g \in Gpio
    PROVE  /\ g.initialized \in Pins /\ g.direction \in Pins /\ g.exported \in Pins
           /\ g.out \in Pins /\ g.high \in Pins /\ g.edges \in Pins
           /\ g.lost \in Pins
  BY DEF Gpio

(* hal_gpio_pin_mode leaves no output that the kernel does not know,       *)
(* whether it succeeds or fails.                                           *)
LEMMA PinModeSound ==
    ASSUME NEW g, Sound(g), NEW p \in Nat, NEW mode, NEW h \in PinMode(g, p, mode)
    PROVE  Sound(h)
<1> DEFINE ready == IF p \in g.initialized THEN {g}
                    ELSE {[e EXCEPT !.initialized = @ \cup {p}] : e \in GpioExport(g, p)}
           moved(e) == [GpioDirection(e, p, mode) EXCEPT
                           !.direction = IF mode = "output" THEN @ \cup {p} ELSE @ \ {p}]
<1>1. h = g \/ h \in ready \/ \E e \in ready : h = moved(e)
  BY DEF PinMode
<1>2. ASSUME NEW e \in ready
      PROVE  Sound(e) /\ p \in e.initialized
  <2>1. CASE p \in g.initialized
    BY <2>1
  <2>2. CASE p \notin g.initialized
    <3>1. e = [[g EXCEPT !.exported = @ \cup {p}] EXCEPT !.initialized = @ \cup {p}]
      BY <2>2 DEF GpioExport
    <3> QED BY <2>2, <3>1, GpioFacts DEF Sound, OutputsExported, Gpio, Pins
  <2> QED BY <2>1, <2>2
<1>3. ASSUME NEW e \in ready
      PROVE  Sound(moved(e))
  <2>1. Sound(e) /\ p \in e.initialized
    BY <1>2
  <2> HIDE DEF ready
  <2> DEFINE d == GpioDirection(e, p, mode)
  <2>2. /\ d \in Gpio /\ d.initialized = e.initialized /\ d.exported = e.exported
        /\ d.direction = e.direction
        /\ d.out = IF mode = "output" THEN e.out \cup {p} ELSE e.out \ {p}
    BY <2>1, GpioFacts DEF Sound, Gpio, Pins, GpioDirection
  <2>3. moved(e) = [d EXCEPT !.direction = IF mode = "output" THEN @ \cup {p} ELSE @ \ {p}]
    OBVIOUS
  <2> HIDE DEF d
  <2> HIDE DEF moved
  <2> QED BY <2>1, <2>2, <2>3 DEF Sound, OutputsExported, Gpio, Pins
<1> HIDE DEF ready, moved
<1> QED BY <1>1, <1>2, <1>3

(* A sequence of calls.                                                    *)
LEMMA PinModesSound ==
    ASSUME NEW G, \A g \in G : Sound(g), NEW p \in Nat, NEW mode
    PROVE  \A h \in UNION {PinMode(g, p, mode) : g \in G} : Sound(h)
  BY PinModeSound

(* hal_gpio_digital_write, when it returns, has made the pin an output for *)
(* the kernel, and driven it unless the write failed.                      *)
LEMMA DigitalWriteFacts ==
    ASSUME NEW g, Sound(g), NEW p \in Nat, NEW value, NEW h \in DigitalWrite(g, p, value)
    PROVE  /\ Sound(h) /\ p \in h.exported \cap h.out
           /\ p \in h.lost \/ (p \in h.high <=> value # 0)
<1>1. PICK e : Sound(e) /\ IsOutput(e, p) /\ h \in GpioWrite(e, p, value)
  <2>1. CASE IsOutput(g, p)
    BY <2>1 DEF DigitalWrite
  <2>2. CASE ~IsOutput(g, p)
    BY <2>2, PinModeSound DEF DigitalWrite
  <2> QED BY <2>1, <2>2
<1>2. e \in Gpio /\ p \in e.exported \cap e.out
  BY <1>1 DEF Sound, OutputsExported, IsOutput
<1> DEFINE high == IF value = 0 THEN e.high \ {p} ELSE e.high \cup {p}
           driven == [e EXCEPT !.high = high, !.lost = e.lost \ {p}]
           kept == [e EXCEPT !.lost = e.lost \cup {p}]
<1>3. h = driven \/ h = kept
  BY <1>1 DEF GpioWrite
<1>4. high \in Pins /\ (p \in high <=> value # 0)
  BY <1>2, GpioFacts DEF Pins
<1> HIDE DEF high
<1>5. Sound(driven) /\ p \in driven.exported \cap driven.out /\ driven.high = high
  BY <1>1, <1>2, <1>4, GpioFacts DEF Sound, OutputsExported, Gpio, Pins
<1>6. Sound(kept) /\ p \in kept.exported \cap kept.out /\ p \in kept.lost
  BY <1>1, <1>2, GpioFacts DEF Sound, OutputsExported, Gpio, Pins
<1> HIDE DEF driven, kept
<1> QED BY <1>3, <1>4, <1>5, <1>6

(* hal_gpio_get_fd.                                                        *)
LEMMA GetFdSound ==
    ASSUME NEW g, Sound(g), NEW p \in Nat, NEW w \in GetFd(g, p)
    PROVE  Sound(w.pins)
<1>1. w.pins \in {g, GpioEdge(g, p)}
  BY DEF GetFd
<1>2. Sound(GpioEdge(g, p))
  BY GpioFacts DEF Sound, OutputsExported, Gpio, Pins, GpioEdge
<1> QED BY <1>1, <1>2

(* hal_gpio_setup, hal_gpio_unmap: gpio_map is empty.                      *)
LEMMA SetupSound ==
    ASSUME NEW g \in Gpio
    PROVE  Sound(Setup(g)) /\ \A h \in Unmap(g) : Sound(h)
<1>1. Sound(Setup(g))
  BY GpioFacts DEF Sound, OutputsExported, Gpio, Pins, Setup
<1>2. ASSUME NEW P
      PROVE  GpioUnexport(g, P) \in Gpio /\ Sound(Setup(GpioUnexport(g, P)))
  BY GpioFacts DEF Sound, OutputsExported, Gpio, Pins, Setup, GpioUnexport
<1> QED BY <1>1, <1>2 DEF Unmap

(* init_gpio, and the reset of the chip.                                   *)
LEMMA InitGpioSound ==
    ASSUME NEW g \in Gpio
    PROVE  /\ \A h \in InitGpio(g) : Sound(h)
           /\ \A e : Sound(e) => \A h \in ResetHigh(e) : Sound(h)
<1> DEFINE output(G, p) == UNION {PinMode(h, p, "output") : h \in G}
           input(G, p) == UNION {PinMode(h, p, "input") : h \in G}
<1>1. \A h \in {Setup(g)} : Sound(h)
  BY SetupSound
<1>2. NSS \in Nat /\ RXTX \in Nat /\ RST \in Nat
      /\ DIO[1] \in Nat /\ DIO[2] \in Nat /\ DIO[3] \in Nat
  BY DEF NSS, RXTX, RST, DIO
<1>3. ASSUME NEW G, NEW p \in Nat, \A h \in G : Sound(h)
      PROVE  (\A h \in output(G, p) : Sound(h)) /\ (\A h \in input(G, p) : Sound(h))
  BY <1>3, PinModesSound
<1> HIDE DEF output, input
<1> DEFINE o == output(output(output({Setup(g)}, NSS), RXTX), RST)
<1>4. \A h \in o : Sound(h)
  BY <1>1, <1>2, <1>3
<1>5. InitGpio(g) = input(input(input(o, DIO[1]), DIO[2]), DIO[3])
  BY Zenon DEF InitGpio, input, output
<1> HIDE DEF o
<1>6. \A h \in InitGpio(g) : Sound(h)
  BY <1>2, <1>3, <1>4, <1>5
<1>7. ASSUME NEW e, Sound(e), NEW h \in ResetHigh(e)
      PROVE  Sound(h)
  <2>1. PICK d \in PinMode(e, RST, "output") : h \in DigitalWrite(d, RST, 1)
    BY <1>7 DEF ResetHigh
  <2>2. Sound(d)
    BY <1>2, <1>7, PinModeSound
  <2> QED BY <1>2, <2>1, <2>2, DigitalWriteFacts
<1> QED BY <1>6, <1>7

---------------------------------------------------------------------------
(* The chip.                                                               *)

(* The modes are five.                                                     *)
LEMMA ModesFacts ==
    /\ "sleep" \in Modes /\ "standby" \in Modes
    /\ "tx" \in Modes /\ "rx" \in Modes /\ "rx_single" \in Modes
  BY DEF Modes

(* The registers after a change of mode.                                   *)
LEMMA OpModeFacts ==
    ASSUME NEW c \in Chip, NEW lora \in BOOLEAN, NEW mode \in Modes
    PROVE  LET d == OpMode(c, lora, mode) IN
           /\ d \in Chip /\ d.mode = mode
           /\ c.mode = "sleep" => d.lora = lora
           /\ c.mode # "sleep" => d.lora = c.lora
           /\ d.flags = c.flags /\ d.pkt = c.pkt
           /\ d.implicit = c.implicit /\ d.plen = c.plen
           /\ d.fsk \subseteq c.fsk /\ "PACKETSENT" \notin d.fsk
  BY DEF OpMode, Chip, Modes, FskFlags, LoraFlags

(* opmodeLora and opmodeFSK of a sleeping chip.                            *)
LEMMA StandbyFacts ==
    ASSUME NEW c \in Chip, c.mode = "sleep", NEW lora \in BOOLEAN
    PROVE  LET d == Standby(c, lora) IN d \in Chip /\ d.mode = "standby" /\ d.lora = lora
<1> DEFINE s == OpMode(c, lora, "sleep")
           d == OpMode(s, lora, "standby")
<1>1. s \in Chip /\ s.mode = "sleep" /\ s.lora = lora
  BY OpModeFacts, ModesFacts
<1>2. Standby(c, lora) = OpMode(s, s.lora, "standby")
  BY Zenon DEF Standby
<1> HIDE DEF s
<1>3. d \in Chip /\ d.mode = "standby" /\ d.lora = lora
  BY <1>1, ModesFacts DEF OpMode, Chip, FskFlags
<1> QED BY <1>1, <1>2, <1>3

(* What an operation starts with: the modem it is configured for and no    *)
(* flag of an earlier one.                                                 *)
Started(d, lora, mode) ==
    /\ d \in Chip /\ d.mode = mode /\ d.lora = lora
    /\ lora => d.flags = {}
    /\ "PACKETSENT" \notin d.fsk

(* configLoraModem and the masks of the interrupts.                        *)
LEMMA ConfigFacts ==
    ASSUME NEW c \in Chip, lmic \in Config, NEW enabled \in SUBSET LoraFlags
    PROVE  /\ ConfigLoraModem(c) \in Chip
           /\ ConfigLoraModem(c).mode = c.mode /\ ConfigLoraModem(c).lora = c.lora
           /\ StartIrqs(c, enabled) \in Chip
           /\ StartIrqs(c, enabled).mode = c.mode
           /\ StartIrqs(c, enabled).lora = c.lora
           /\ StartIrqs(c, enabled).flags = {}
<1>1. lmic.ih \in Nat
  BY DEF Config
<1>2. ConfigLoraModem(c) \in Chip /\ ConfigLoraModem(c).mode = c.mode
        /\ ConfigLoraModem(c).lora = c.lora
  BY <1>1 DEF ConfigLoraModem, Chip
<1>3. /\ StartIrqs(c, enabled) \in Chip
      /\ StartIrqs(c, enabled).mode = c.mode
      /\ StartIrqs(c, enabled).lora = c.lora
      /\ StartIrqs(c, enabled).flags = {}
  BY DEF StartIrqs, Chip
<1> QED BY <1>2, <1>3

(* radio_tx of a sleeping chip.                                            *)
LEMMA TxFacts ==
    ASSUME NEW c \in Chip, c.mode = "sleep", lmic \in Config, NEW n \in Nat
    PROVE  Started(TxLora(c, n), TRUE, "tx") /\ Started(TxFsk(c, n), FALSE, "tx")
<1>1. Started(TxLora(c, n), TRUE, "tx")
  <2> DEFINE a == Standby(c, TRUE)
             b == ConfigLoraModem(a)
             s == StartIrqs(b, {"TXDONE"})
             t == [s EXCEPT !.plen = n]
  <2>1. a \in Chip /\ a.lora = TRUE
    BY StandbyFacts
  <2> HIDE DEF a
  <2>2. b \in Chip /\ b.lora = TRUE
    BY <2>1, ConfigFacts
  <2> HIDE DEF b
  <2>3. s \in Chip /\ s.lora = TRUE /\ s.flags = {}
    BY <2>2, ConfigFacts DEF LoraFlags
  <2> HIDE DEF s
  <2>4. t \in Chip /\ t.lora = TRUE /\ t.flags = {}
    BY <2>3 DEF Chip
  <2> HIDE DEF t
  <2>5. Started(OpMode(t, TRUE, "tx"), TRUE, "tx")
    BY <2>4, OpModeFacts, ModesFacts DEF Started
  <2>6. TxLora(c, n) = OpMode(t, s.lora, "tx")
    BY Zenon DEF TxLora, a, b, s, t
  <2> QED BY <2>3, <2>5, <2>6
<1>2. Started(TxFsk(c, n), FALSE, "tx")
  <2> DEFINE s == Standby(c, FALSE)
             t == [s EXCEPT !.dio0 = 0, !.fsk_plen = n + 1]
  <2>1. s \in Chip /\ s.lora = FALSE
    BY StandbyFacts
  <2> HIDE DEF s
  <2>2. t \in Chip /\ t.lora = FALSE
    <3>1. n + 1 \in Nat
      OBVIOUS
    <3> QED BY <2>1, <3>1 DEF Chip
  <2> HIDE DEF t
  <2>3. Started(OpMode(t, t.lora, "tx"), FALSE, "tx")
    <3> DEFINE d == OpMode(t, t.lora, "tx")
    <3>1. d \in Chip /\ d.mode = "tx" /\ d.lora = t.lora /\ "PACKETSENT" \notin d.fsk
      <4>1. t.lora \in BOOLEAN
        BY <2>2
      <4> QED BY SMTT(60), <2>2, <4>1, OpModeFacts, ModesFacts
    <3> HIDE DEF d
    <3>2. Started(d, FALSE, "tx")
      BY <2>2, <3>1 DEF Started
    <3> QED BY <3>2 DEF d
  <2>4. TxFsk(c, n) = OpMode(t, s.lora, "tx")
    BY Zenon DEF TxFsk, s, t
  <2>5. t.lora = s.lora
    BY <2>1, <2>2
  <2> QED BY Zenon, <2>3, <2>4, <2>5
<1> QED BY <1>1, <1>2

RxMode(rxmode) == IF rxmode = "SINGLE" THEN "rx_single" ELSE "rx"

(* radio_rx of a sleeping chip.                                            *)
LEMMA RxFacts ==
    ASSUME NEW c \in Chip, c.mode = "sleep", lmic \in Config,
           NEW rxmode \in DOMAIN RxLoraIrqs
    PROVE  /\ Started(RxLora(c, rxmode), TRUE, RxMode(rxmode))
           /\ Started(RxFsk(c), FALSE, "rx")
<1>1. Started(RxLora(c, rxmode), TRUE, RxMode(rxmode))
  <2> DEFINE s == Standby(c, TRUE)
             m == IF rxmode = "RSSI" THEN [s EXCEPT !.implicit = FALSE] ELSE ConfigLoraModem(s)
             t == StartIrqs(m, RxLoraIrqs[rxmode])
  <2>1. s \in Chip /\ s.lora = TRUE
    BY StandbyFacts
  <2> HIDE DEF s
  <2>2. m \in Chip /\ m.lora = TRUE
    <3>1. [s EXCEPT !.implicit = FALSE] \in Chip /\ [s EXCEPT !.implicit = FALSE].lora = TRUE
      BY <2>1 DEF Chip
    <3>2. ConfigLoraModem(s) \in Chip /\ ConfigLoraModem(s).lora = TRUE
      BY <2>1, ConfigFacts
    <3> QED BY <3>1, <3>2
  <2> HIDE DEF m
  <2>3. RxLoraIrqs[rxmode] \in SUBSET LoraFlags /\ RxMode(rxmode) \in Modes
    BY DEF RxLoraIrqs, LoraFlags, RxMode, Modes
  <2>4. t \in Chip /\ t.lora = TRUE /\ t.flags = {}
    BY <2>2, <2>3, ConfigFacts
  <2> HIDE DEF t
  <2>5. Started(OpMode(t, TRUE, RxMode(rxmode)), TRUE, RxMode(rxmode))
    BY <2>3, <2>4, OpModeFacts DEF Started
  <2>6. RxLora(c, rxmode) = OpMode(t, m.lora, RxMode(rxmode))
    BY Zenon DEF RxLora, s, m, t, RxMode
  <2> QED BY <2>2, <2>5, <2>6
<1>2. Started(RxFsk(c), FALSE, "rx")
  <2> DEFINE s == Standby(c, FALSE)
             t == [s EXCEPT !.dio0 = 0]
  <2>1. s \in Chip /\ s.lora = FALSE
    BY StandbyFacts
  <2> HIDE DEF s
  <2>2. t \in Chip /\ t.lora = FALSE
    BY <2>1 DEF Chip
  <2> HIDE DEF t
  <2>3. Started(OpMode(t, t.lora, "rx"), FALSE, "rx")
    <3> DEFINE d == OpMode(t, t.lora, "rx")
    <3>1. d \in Chip /\ d.mode = "rx" /\ d.lora = t.lora /\ "PACKETSENT" \notin d.fsk
      <4>1. t.lora \in BOOLEAN
        BY <2>2
      <4> QED BY SMTT(60), <2>2, <4>1, OpModeFacts, ModesFacts
    <3> HIDE DEF d
    <3>2. Started(d, FALSE, "rx")
      BY <2>2, <3>1 DEF Started
    <3> QED BY <3>2 DEF d
  <2>4. RxFsk(c) = OpMode(t, s.lora, "rx")
    BY Zenon DEF RxFsk, s, t
  <2>5. t.lora = s.lora
    BY <2>1, <2>2
  <2> QED BY Zenon, <2>3, <2>4, <2>5
<1> QED BY <1>1, <1>2

---------------------------------------------------------------------------
(* The steps.                                                              *)

(* What the types say of the fields.                                       *)
LEMMA FieldFacts ==
    ASSUME TypeOK
    PROVE  /\ gpio \in Gpio /\ lmic \in Config /\ chip \in Chip /\ last \in Operation
           /\ chip.flags \subseteq LoraFlags /\ chip.fsk \subseteq FskFlags
           /\ chip.mode \in Modes /\ chip.lora \in BOOLEAN
           /\ chip.pkt \in Nat /\ chip.plen \in Nat /\ chip.fsk_plen \in Nat
           /\ last.kind \in {"none", "tx", "rx"} /\ last.lora \in BOOLEAN
           /\ last.single \in BOOLEAN /\ last.done \in BOOLEAN
           /\ lmic.lora \in BOOLEAN /\ lmic.ih \in Nat
  BY DEF TypeOK, Gpio, Config, Chip, Operation

(* The registers after a step of the chip or a call.                       *)
LEMMA BecomesFacts ==
    ASSUME NEW c, ChipBecomes(c)
    PROVE  chip' = c /\ edge' \in BOOLEAN
  BY Zenon DEF ChipBecomes

(* What a step of the chip may change.                                     *)
ChipGoesOn(c) ==
    /\ chip' = c /\ edge' \in BOOLEAN /\ c \in Chip
    /\ UNCHANGED <<gpio, lmic, pc, busy, got>>
    /\ chip.mode # "sleep" /\ c.mode \in {chip.mode, "standby"} /\ c.lora = chip.lora
    /\ last' \in Operation /\ last'.kind = last.kind /\ last'.lora = last.lora
    /\ last'.single = last.single /\ (last.done => last'.done)
    /\ Runs /\ "TXDONE" \in c.flags => "TXDONE" \in chip.flags \/ Sent'
    /\ Runs /\ "PACKETSENT" \in c.fsk => "PACKETSENT" \in chip.fsk \/ Sent'
    /\ chip.flags \subseteq c.flags
    /\ SingleLora /\ "RXDONE" \in chip.flags =>
          c.pkt = chip.pkt /\ c.implicit = chip.implicit /\ c.plen = chip.plen
    /\ SingleLora /\ "RXDONE" \in c.flags /\ "RXDONE" \notin chip.flags =>
          c.mode = "standby" /\ (c.implicit => c.plen = c.pkt)

(* Such a step keeps the invariant.                                        *)
LEMMA GoesOnKept ==
    ASSUME IInv, NEW c, ChipGoesOn(c)
    PROVE  IInv'
<1>1. TypeOK'
  BY DEF IInv, TypeOK, ChipGoesOn
<1>2. ModemInv'
  BY DEF IInv, ModemInv, ChipGoesOn, Runs
<1>3. AntennaInv'
  BY DEF IInv, AntennaInv, AntennaMatches, Active, ChipGoesOn
<1>4. SentInv'
  BY DEF IInv, SentInv, Runs, Sent, ChipGoesOn
<1>5. LengthInv'
  BY DEF IInv, LengthInv, SingleLora, ChipGoesOn
<1> QED BY <1>1, <1>2, <1>3, <1>4, <1>5 DEF IInv

(* The end of a transmission.                                              *)
LEMMA SentKept ==
    ASSUME IInv, ChipSent
    PROVE  IInv'
<1> DEFINE a == [Raise(chip, "TXDONE") EXCEPT !.mode = "standby"]
           b == [chip EXCEPT !.fsk = @ \cup {"PACKETSENT"}]
           c == IF chip.lora THEN a ELSE b
<1>1. chip.mode = "tx" /\ ChipBecomes(c) /\ last' = [last EXCEPT !.done = TRUE]
        /\ UNCHANGED <<gpio, lmic, pc, busy, got>>
  BY DEF ChipSent
<1>2. /\ chip \in Chip /\ last \in Operation /\ chip.flags \subseteq LoraFlags
      /\ chip.fsk \subseteq FskFlags
  BY FieldFacts DEF IInv
<1>3. a \in Chip /\ a.mode = "standby" /\ a.lora = chip.lora
        /\ chip.flags \subseteq a.flags /\ a.flags \subseteq chip.flags \cup {"TXDONE"}
        /\ a.fsk = chip.fsk /\ a.pkt = chip.pkt
        /\ a.implicit = chip.implicit /\ a.plen = chip.plen
  BY <1>2, ModesFacts DEF Raise, Chip, LoraFlags
<1>4. b \in Chip /\ b.mode = chip.mode /\ b.lora = chip.lora /\ b.flags = chip.flags
        /\ b.pkt = chip.pkt
        /\ b.implicit = chip.implicit /\ b.plen = chip.plen
  BY <1>2 DEF Chip, FskFlags
<1>5. /\ last' \in Operation /\ last'.kind = last.kind /\ last'.lora = last.lora
      /\ Runs => last.kind = "tx"
      /\ last'.single = last.single /\ last'.done = TRUE
  BY <1>1, <1>2 DEF Operation, IInv, SentInv, Runs
<1> HIDE DEF a, b
<1>6. c \in Chip /\ c.mode \in {chip.mode, "standby"} /\ c.lora = chip.lora
        /\ chip.flags \subseteq c.flags /\ c.flags \subseteq chip.flags \cup {"TXDONE"}
        /\ c.pkt = chip.pkt
        /\ c.implicit = chip.implicit /\ c.plen = chip.plen
  BY <1>3, <1>4
<1> HIDE DEF c
<1>7. chip' = c /\ edge' \in BOOLEAN
  BY <1>1, BecomesFacts
<1>8. ChipGoesOn(c)
  BY <1>1, <1>5, <1>6, <1>7 DEF ChipGoesOn, Sent
<1> QED BY <1>8, GoesOnKept

(* A packet.                                                               *)
LEMMA ReceivedKept ==
    ASSUME IInv, NEW n \in Length, ChipReceived(n)
    PROVE  IInv'
<1> DEFINE a == [Raise(chip, "RXDONE") EXCEPT
                    !.pkt = n, !.mode = IF @ = "rx_single" THEN "standby" ELSE @]
           b == [chip EXCEPT !.fsk = @ \cup {"PAYLOADREADY"}, !.pkt = n]
           c == IF chip.lora THEN a ELSE b
<1>1. /\ chip.mode \in {"rx", "rx_single"} /\ ChipBecomes(c)
      /\ chip.lora /\ chip.implicit => n = chip.plen
      /\ UNCHANGED <<gpio, lmic, pc, busy, got, last>>
  BY DEF ChipReceived
<1>2. /\ chip \in Chip /\ last \in Operation /\ chip.flags \subseteq LoraFlags
      /\ chip.fsk \subseteq FskFlags /\ n \in Nat
  BY FieldFacts, LengthAssumption DEF IInv
<1>3. a \in Chip /\ a.lora = chip.lora /\ a.mode \in {chip.mode, "standby"}
        /\ (chip.mode = "rx_single" => a.mode = "standby")
        /\ chip.flags \subseteq a.flags /\ a.flags \subseteq chip.flags \cup {"RXDONE"}
        /\ a.fsk = chip.fsk /\ a.pkt = n
        /\ a.implicit = chip.implicit /\ a.plen = chip.plen
  <2> DEFINE r == Raise(chip, "RXDONE")
  <2>1. r \in Chip /\ r.lora = chip.lora /\ r.mode = chip.mode
        /\ chip.flags \subseteq r.flags /\ r.flags \subseteq chip.flags \cup {"RXDONE"}
        /\ r.fsk = chip.fsk /\ r.implicit = chip.implicit /\ r.plen = chip.plen
    BY <1>2 DEF Raise, Chip, LoraFlags
  <2> DEFINE m == IF r.mode = "rx_single" THEN "standby" ELSE r.mode
             q == [r EXCEPT !.pkt = n, !.mode = m]
  <2>2. a = q
    BY Zenon
  <2> HIDE DEF r, a
  <2>3. m \in Modes /\ m \in {chip.mode, "standby"} /\ (chip.mode = "rx_single" => m = "standby")
    BY <2>1, ModesFacts DEF Chip
  <2> HIDE DEF m
  <2>4. q \in Chip /\ q.lora = chip.lora /\ q.mode = m
          /\ q.flags = r.flags /\ q.fsk = chip.fsk /\ q.pkt = n
          /\ q.implicit = chip.implicit /\ q.plen = chip.plen
    BY <1>2, <2>1, <2>3 DEF Chip
  <2> HIDE DEF q
  <2> QED BY <2>1, <2>2, <2>3, <2>4
<1>4. b \in Chip /\ b.mode = chip.mode /\ b.lora = chip.lora /\ b.flags = chip.flags
        /\ ("PACKETSENT" \in b.fsk => "PACKETSENT" \in chip.fsk)
  BY <1>2 DEF Chip, FskFlags
<1>5. SingleLora => chip.mode = "rx_single" /\ "RXDONE" \notin chip.flags
  BY <1>1 DEF IInv, LengthInv
<1> HIDE DEF a, b
<1>6. c \in Chip /\ c.lora = chip.lora /\ c.mode \in {chip.mode, "standby"}
        /\ chip.flags \subseteq c.flags /\ c.flags \subseteq chip.flags \cup {"RXDONE"}
        /\ ("PACKETSENT" \in c.fsk => "PACKETSENT" \in chip.fsk)
  BY <1>3, <1>4
<1>7. SingleLora /\ "RXDONE" \in c.flags =>
         c.mode = "standby" /\ (c.implicit => c.plen = c.pkt)
  BY <1>1, <1>3, <1>4, <1>5
<1> HIDE DEF c
<1>8. chip' = c /\ edge' \in BOOLEAN
  BY <1>1, BecomesFacts
<1>9. ChipGoesOn(c)
  BY <1>1, <1>2, <1>5, <1>6, <1>7, <1>8 DEF ChipGoesOn
<1> QED BY <1>9, GoesOnKept

(* Nothing was heard.                                                      *)
LEMMA TimeoutKept ==
    ASSUME IInv, ChipTimeout
    PROVE  IInv'
<1> DEFINE a == [Raise(chip, "RXTOUT") EXCEPT !.mode = "standby"]
           b == [chip EXCEPT !.fsk = @ \cup {"TIMEOUT"}]
<1>1. /\ \/ chip.mode = "rx_single" /\ ChipBecomes(a)
         \/ chip.mode = "rx" /\ ChipBecomes(b)
      /\ UNCHANGED <<gpio, lmic, pc, busy, got, last>>
  BY DEF ChipTimeout
<1>2. /\ chip \in Chip /\ last \in Operation /\ chip.flags \subseteq LoraFlags
      /\ chip.fsk \subseteq FskFlags
  BY FieldFacts DEF IInv
<1>3. a \in Chip /\ a.mode = "standby" /\ a.lora = chip.lora
        /\ chip.flags \subseteq a.flags /\ a.flags \subseteq chip.flags \cup {"RXTOUT"}
        /\ a.fsk = chip.fsk /\ a.pkt = chip.pkt
        /\ a.implicit = chip.implicit /\ a.plen = chip.plen
  BY <1>2, ModesFacts DEF Raise, Chip, LoraFlags
<1>4. b \in Chip /\ b.mode = chip.mode /\ b.lora = chip.lora /\ b.flags = chip.flags
        /\ ("PACKETSENT" \in b.fsk => "PACKETSENT" \in chip.fsk)
        /\ b.pkt = chip.pkt
        /\ b.implicit = chip.implicit /\ b.plen = chip.plen
  BY <1>2 DEF Chip, FskFlags
<1> HIDE DEF a, b
<1>5. PICK c \in {a, b} : ChipBecomes(c) /\ chip.mode # "sleep"
  BY <1>1
<1>6. c \in Chip /\ c.mode \in {chip.mode, "standby"} /\ c.lora = chip.lora
        /\ chip.flags \subseteq c.flags /\ c.flags \subseteq chip.flags \cup {"RXTOUT"}
        /\ ("PACKETSENT" \in c.fsk => "PACKETSENT" \in chip.fsk)
        /\ c.pkt = chip.pkt
        /\ c.implicit = chip.implicit /\ c.plen = chip.plen
  BY <1>3, <1>4, <1>5
<1>7. chip' = c /\ edge' \in BOOLEAN
  BY <1>5, BecomesFacts
<1>8. ChipGoesOn(c)
  BY <1>1, <1>2, <1>5, <1>6, <1>7 DEF ChipGoesOn
<1> QED BY <1>8, GoesOnKept

(* An operation is started.                                                *)
LEMMA StartKept ==
    ASSUME IInv, NEW kind, NEW single \in BOOLEAN, NEW value, NEW mode, NEW c,
           Started(c, lmic.lora, mode), Start(kind, single, value, c),
           \/ kind = "tx" /\ value = 1 /\ mode = "tx" /\ ~single
           \/ kind = "rx" /\ value = 0 /\ mode = "rx" /\ ~(single /\ lmic.lora)
           \/ kind = "rx" /\ value = 0 /\ mode = "rx_single"
    PROVE  IInv'
<1>1. /\ pc = "idle" /\ pc' = "idle" /\ busy' = TRUE
      /\ gpio' \in DigitalWrite(gpio, RXTX, value)
      /\ last' = [kind |-> kind, lora |-> lmic.lora, single |-> single, done |-> FALSE]
      /\ UNCHANGED <<lmic, got>>
      /\ chip' = c /\ edge' \in BOOLEAN
  BY BecomesFacts DEF Start
<1>2. /\ last' \in Operation /\ last'.kind = kind /\ last'.lora = lmic.lora
      /\ last'.single = single
  BY <1>1, FieldFacts DEF IInv, Operation
<1>3. Sound(gpio)
  BY DEF IInv, TypeOK, AntennaInv, Sound
<1>4. RXTX \in Nat
  BY DEF RXTX
<1>5. /\ Sound(gpio') /\ RXTX \in gpio'.exported \cap gpio'.out
      /\ RXTX \in gpio'.lost \/ (RXTX \in gpio'.high <=> value # 0)
  BY <1>1, <1>3, <1>4, DigitalWriteFacts
<1>6. /\ c \in Chip /\ c.mode = mode /\ c.lora = lmic.lora
      /\ (lmic.lora => c.flags = {}) /\ "PACKETSENT" \notin c.fsk
  BY DEF Started
<1>7. TypeOK'
  BY <1>1, <1>2, <1>5, <1>6 DEF IInv, TypeOK, Sound
<1>8. ModemInv'
  BY <1>1, <1>2, <1>6 DEF ModemInv, Runs
<1>9. AntennaInv'
  BY <1>1, <1>5, <1>6 DEF AntennaInv, AntennaMatches, Sound
<1>10. SentInv'
  BY <1>1, <1>2, <1>6 DEF SentInv, Runs
<1>11. LengthInv'
  BY <1>1, <1>2, <1>6 DEF LengthInv, SingleLora
<1> QED BY <1>7, <1>8, <1>9, <1>10, <1>11 DEF IInv

(* radio_tx and radio_rx.                                                  *)
LEMMA OperationKept ==
    ASSUME IInv, (\E n \in Length : RadioTx(n)) \/ (\E rxmode \in DOMAIN RxLoraIrqs : RadioRx(rxmode))
    PROVE  IInv'
<1>1. chip \in Chip /\ lmic \in Config /\ lmic.lora \in BOOLEAN
  BY FieldFacts DEF IInv
<1>2. pc = "idle" /\ ~busy
  BY DEF RadioTx, RadioRx, Start
<1>3. chip.mode = "sleep"
  BY <1>2 DEF IInv, ModemInv, Runs
<1>4. ASSUME NEW n \in Length, RadioTx(n)
      PROVE  IInv'
  <2> DEFINE c == IF lmic.lora THEN TxLora(chip, n) ELSE TxFsk(chip, n)
  <2>1. Start("tx", FALSE, 1, c)
    BY <1>4 DEF RadioTx
  <2>2. Started(TxLora(chip, n), TRUE, "tx") /\ Started(TxFsk(chip, n), FALSE, "tx")
    BY <1>1, <1>3, TxFacts, LengthAssumption
  <2>3. Started(c, lmic.lora, "tx")
    BY <1>1, <2>2
  <2> HIDE DEF c
  <2> QED BY <2>1, <2>3, StartKept
<1>5. ASSUME NEW rxmode \in DOMAIN RxLoraIrqs, RadioRx(rxmode)
      PROVE  IInv'
  <2> DEFINE c == IF lmic.lora THEN RxLora(chip, rxmode) ELSE RxFsk(chip)
             single == rxmode = "SINGLE"
             mode == IF lmic.lora THEN RxMode(rxmode) ELSE "rx"
  <2>1. Start("rx", single, 0, c)
    BY <1>5 DEF RadioRx
  <2>2. /\ Started(RxLora(chip, rxmode), TRUE, RxMode(rxmode))
        /\ Started(RxFsk(chip), FALSE, "rx")
    BY <1>1, <1>3, RxFacts
  <2>3. Started(c, lmic.lora, mode)
    BY <1>1, <2>2
  <2>4. single \in BOOLEAN /\ mode \in {"rx", "rx_single"}
          /\ (mode = "rx" => ~(single /\ lmic.lora))
    BY DEF RxMode
  <2> HIDE DEF c, single, mode
  <2> QED BY <2>1, <2>3, <2>4, StartKept
<1> QED BY <1>4, <1>5

(* The chip goes to sleep in the middle of anything.                       *)
LEMMA SleepsKept ==
    ASSUME IInv, NEW c \in Chip, pc \in {"idle", "clear"},
           c.lora = chip.lora, c.flags \in {{}, chip.flags},
           c.pkt = chip.pkt, c.implicit = chip.implicit, c.plen = chip.plen,
           ChipBecomes(OpMode(c, c.lora, "sleep")),
           pc' = "idle", busy' = FALSE, got' \in Report,
           UNCHANGED <<gpio, lmic, last>>
    PROVE  IInv'
<1> DEFINE d == OpMode(c, c.lora, "sleep")
<1>1. c.lora \in BOOLEAN
  BY DEF Chip
<1>2. /\ d \in Chip /\ d.mode = "sleep" /\ d.lora = c.lora
      /\ d.flags = c.flags /\ d.pkt = c.pkt
      /\ d.implicit = c.implicit /\ d.plen = c.plen
      /\ "PACKETSENT" \notin d.fsk
  BY <1>1, ModesFacts DEF OpMode, Chip, FskFlags
<1> HIDE DEF d
<1>3. chip' = d /\ edge' \in BOOLEAN
  BY BecomesFacts DEF d
<1>4. TypeOK'
  BY <1>2, <1>3 DEF IInv, TypeOK
<1>5. ModemInv'
  BY <1>2, <1>3 DEF IInv, ModemInv, Runs
<1>6. AntennaInv'
  BY <1>2, <1>3 DEF IInv, AntennaInv, AntennaMatches
<1>7. SentInv'
  BY <1>2, <1>3 DEF IInv, SentInv, Runs, Sent
<1>8. LengthInv'
  BY <1>2, <1>3 DEF IInv, LengthInv, SingleLora
<1> QED BY <1>4, <1>5, <1>6, <1>7, <1>8 DEF IInv

(* radio_sleep and the end of the handler.                                 *)
LEMMA RadioSleepKept ==
    ASSUME IInv, RadioSleep \/ HandlerEnd
    PROVE  IInv'
<1>1. chip \in Chip /\ got \in Report
  BY DEF IInv, TypeOK
<1>2. CASE RadioSleep
  BY <1>1, <1>2, SleepsKept DEF RadioSleep
<1>3. CASE HandlerEnd
  <2> DEFINE c == IF chip.lora THEN [chip EXCEPT !.enabled = {}, !.flags = {}] ELSE chip
  <2>1. /\ c \in Chip /\ c.lora = chip.lora /\ c.flags \in {{}, chip.flags}
        /\ c.pkt = chip.pkt
        /\ c.implicit = chip.implicit /\ c.plen = chip.plen
    <3> DEFINE e == [chip EXCEPT !.enabled = {}, !.flags = {}]
    <3>1. /\ e \in Chip /\ e.lora = chip.lora /\ e.flags = {}
          /\ e.pkt = chip.pkt
          /\ e.implicit = chip.implicit /\ e.plen = chip.plen
      BY <1>1 DEF Chip
    <3> HIDE DEF e
    <3>2. c = IF chip.lora THEN e ELSE chip
      BY DEF e
    <3> QED BY <1>1, <3>1, <3>2
  <2>2. HandlerDone(chip) = OpMode(c, chip.lora, "sleep")
    BY Zenon DEF HandlerDone
  <2> HIDE DEF c
  <2>3. Nothing \in Report
    BY DEF Nothing, Report
  <2>4. /\ ChipBecomes(OpMode(c, c.lora, "sleep")) /\ pc = "clear"
        /\ pc' = "idle" /\ busy' = FALSE /\ got' = Nothing /\ UNCHANGED <<gpio, lmic, last>>
    BY <1>3, <2>1, <2>2 DEF HandlerEnd
  <2> QED BY <2>1, <2>3, <2>4, SleepsKept
<1> QED BY <1>2, <1>3

(* The handler reads the flags.                                            *)
LEMMA FlagsCases ==
    ASSUME HandlerFlags
    PROVE  LET flags == IF chip.lora THEN chip.flags ELSE chip.fsk IN
           /\ pc = "idle" /\ edge' = FALSE /\ UNCHANGED <<gpio, chip, lmic, busy, last>>
           /\ \/ /\ "TXDONE" \in flags \/ "PACKETSENT" \in flags
                 /\ got' = [Nothing EXCEPT !.what = "sent"] /\ pc' = "clear"
              \/ /\ "RXDONE" \in flags \/ "PAYLOADREADY" \in flags
                 /\ got' = [Nothing EXCEPT !.what = "packet"] /\ pc' = "len"
              \/ got' = [Nothing EXCEPT !.what = "timeout"] /\ pc' = "clear"
              \/ got' = [Nothing EXCEPT !.what = "none"] /\ pc' \in {"clear", "hung"}
<1> DEFINE flags == IF chip.lora THEN chip.flags ELSE chip.fsk
           says(what) == got' = [Nothing EXCEPT !.what = what]
<1>1. \/ flags \cap {"TXDONE", "PACKETSENT"} # {} /\ says("sent") /\ pc' = "clear"
      \/ flags \cap {"RXDONE", "PAYLOADREADY"} # {} /\ says("packet") /\ pc' = "len"
      \/ says("timeout") /\ pc' = "clear"
      \/ says("none") /\ pc' \in {"clear", "hung"}
  BY DEF HandlerFlags
<1>2. pc = "idle" /\ edge' = FALSE /\ UNCHANGED <<gpio, chip, lmic, busy, last>>
  BY DEF HandlerFlags
<1>3. /\ flags \cap {"TXDONE", "PACKETSENT"} # {} => "TXDONE" \in flags \/ "PACKETSENT" \in flags
      /\ flags \cap {"RXDONE", "PAYLOADREADY"} # {} => "RXDONE" \in flags \/ "PAYLOADREADY" \in flags
  OBVIOUS
<1> QED BY <1>1, <1>2, <1>3

(* What it reports is of the last operation.                               *)
LEMMA FlagsKept ==
    ASSUME IInv, HandlerFlags
    PROVE  IInv'
<1> DEFINE flags == IF chip.lora THEN chip.flags ELSE chip.fsk
           report(w) == [Nothing EXCEPT !.what = w]
<1>1. pc = "idle" /\ edge' = FALSE /\ UNCHANGED <<gpio, chip, lmic, busy, last>>
  BY FlagsCases
<1>2. \A w \in {"none", "sent", "packet", "timeout"} :
         report(w) \in Report /\ report(w).what = w
  BY DEF Nothing, Report
<1>3. \/ /\ "TXDONE" \in flags \/ "PACKETSENT" \in flags
         /\ got' = report("sent") /\ pc' = "clear"
      \/ /\ "RXDONE" \in flags \/ "PAYLOADREADY" \in flags
         /\ got' = report("packet") /\ pc' = "len"
      \/ got' = report("timeout") /\ pc' = "clear"
      \/ got' = report("none") /\ pc' \in {"clear", "hung"}
  BY FlagsCases
<1> HIDE DEF report
<1>4. /\ got' \in Report /\ pc' \in {"len", "clear", "hung"}
      /\ pc' = "clear" /\ got'.what = "sent" => "TXDONE" \in flags \/ "PACKETSENT" \in flags
      /\ pc' = "len" => "RXDONE" \in flags \/ "PAYLOADREADY" \in flags
      /\ pc' = "clear" => got'.what # "packet"
      /\ pc' = "len" => got'.what = "packet"
  BY <1>2, <1>3
<1>5. chip.flags \subseteq LoraFlags /\ chip.fsk \subseteq FskFlags
  BY FieldFacts DEF IInv
<1>6. TypeOK'
  BY <1>1, <1>4 DEF IInv, TypeOK
<1>7. ModemInv'
  BY <1>1, <1>4 DEF IInv, ModemInv, Runs
<1>8. AntennaInv'
  BY <1>1 DEF IInv, AntennaInv, AntennaMatches, Active
<1>9. SentInv'
  <2>1. pc' = "clear" /\ got'.what = "sent" => Sent
    BY <1>1, <1>4, <1>5 DEF IInv, SentInv, Runs, LoraFlags, FskFlags
  <2> QED BY <1>1, <1>4, <2>1 DEF IInv, SentInv, Sent, Runs
<1>10. LengthInv'
  <2>1. SingleLora => chip.lora
    BY <1>1 DEF IInv, ModemInv, Runs, SingleLora
  <2>2. SingleLora /\ pc' = "len" => "RXDONE" \in chip.flags
    BY <1>4, <1>5, <2>1 DEF LoraFlags
  <2> QED BY <1>1, <1>4, <2>2 DEF IInv, LengthInv, SingleLora
<1> QED BY <1>6, <1>7, <1>8, <1>9, <1>10 DEF IInv

(* It reads the length and the packet.                                     *)
LEMMA ReadingKept ==
    ASSUME IInv, HandlerLength \/ HandlerFifo
    PROVE  IInv'
<1>1. /\ chip \in Chip /\ got \in Report
      /\ chip.pkt \in Nat /\ chip.plen \in Nat /\ chip.fsk_plen \in Nat
  BY FieldFacts DEF IInv, TypeOK
<1>2. CASE HandlerLength
  <2>1. /\ pc = "len" /\ pc' = "fifo" /\ got' = [got EXCEPT !.len = ReceivedLength]
        /\ UNCHANGED <<gpio, chip, lmic, edge, busy, last>>
    BY <1>2 DEF HandlerLength
  <2>2. ReceivedLength \in Nat
    BY <1>1 DEF ReceivedLength
  <2>3. SingleLora => ReceivedLength = chip.pkt
    <3>1. SingleLora => chip.lora
      BY <2>1 DEF IInv, ModemInv, Runs, SingleLora
    <3>2. chip.lora => ReceivedLength = IF chip.implicit THEN chip.plen ELSE chip.pkt
      BY DEF ReceivedLength
    <3> QED BY <2>1, <3>1, <3>2 DEF IInv, LengthInv
  <2>4. got' \in Report /\ got'.len = ReceivedLength /\ got'.what = got.what
    BY <1>1, <2>1, <2>2 DEF Report
  <2>5. TypeOK' /\ ModemInv'
    BY <2>1, <2>4 DEF IInv, TypeOK, ModemInv, Runs
  <2>6. AntennaInv' /\ SentInv'
    BY <1>1, <2>1, <2>4 DEF IInv, AntennaInv, AntennaMatches, Active, SentInv, Runs, Sent
  <2>7. LengthInv'
    BY <2>1, <2>3, <2>4 DEF IInv, LengthInv, SingleLora
  <2> QED BY <2>5, <2>6, <2>7 DEF IInv
<1>3. CASE HandlerFifo
  <2>1. /\ pc = "fifo" /\ pc' = "clear" /\ got' = [got EXCEPT !.pkt = chip.pkt]
        /\ UNCHANGED <<gpio, chip, lmic, edge, busy, last>>
    BY <1>3 DEF HandlerFifo
  <2>2. got' \in Report /\ got'.pkt = chip.pkt /\ got'.len = got.len /\ got'.what = got.what
    BY <1>1, <2>1 DEF Report
  <2>3. TypeOK' /\ ModemInv'
    BY <2>1, <2>2 DEF IInv, TypeOK, ModemInv, Runs
  <2>4. AntennaInv' /\ LengthInv'
    BY <2>1, <2>2 DEF IInv, AntennaInv, AntennaMatches, Active, LengthInv, SingleLora
  <2>5. SentInv'
    BY <2>1, <2>2 DEF IInv, SentInv, Runs, Sent
  <2> QED BY <2>3, <2>4, <2>5 DEF IInv
<1> QED BY <1>2, <1>3

(* radio_set_config changes nothing of the chip.                           *)
LEMMA ConfigKept ==
    ASSUME IInv, NEW lora \in BOOLEAN, NEW ih \in Length \cup {0}, RadioSetConfig(lora, ih)
    PROVE  IInv'
<1>1. /\ lmic' = [lora |-> lora, ih |-> ih]
      /\ UNCHANGED <<gpio, chip, edge, pc, busy, got, last>>
  BY DEF RadioSetConfig
<1>2. lmic' \in Config
  BY <1>1, LengthAssumption DEF Config
<1>3. TypeOK' /\ ModemInv'
  BY <1>1, <1>2 DEF IInv, TypeOK, ModemInv, Runs
<1>4. AntennaInv' /\ SentInv' /\ LengthInv'
  BY <1>1 DEF IInv, AntennaInv, AntennaMatches, Active, SentInv, Runs, Sent, LengthInv, SingleLora
<1> QED BY <1>3, <1>4 DEF IInv

(* The chip after a reset.                                                 *)
LEMMA ResetFacts ==
    ChipReset \in Chip /\ ChipReset.mode = "standby" /\ ChipReset.flags = {} /\ ChipReset.fsk = {}
  BY DEF ChipReset, Chip, Modes, LoraFlags, FskFlags

(* The chip after radio_init.                                              *)
LEMMA SeededFacts ==
    ASSUME NEW c \in Chip, lmic \in Config
    PROVE  /\ Seeded(c) \in Chip /\ Seeded(c).mode = "sleep" /\ Seeded(c).lora
           /\ Seeded(c).flags = {} /\ "PACKETSENT" \notin Seeded(c).fsk
<1> DEFINE a == OpMode(c, c.lora, "sleep")
           r == RxLora(a, "RSSI")
           d == OpMode(r, r.lora, "sleep")
<1>1. a \in Chip /\ a.mode = "sleep"
  <2>1. c.lora \in BOOLEAN
    BY DEF Chip
  <2> QED BY <2>1, OpModeFacts, ModesFacts
<1>2. Seeded(c) = d
  BY Zenon DEF Seeded
<1> HIDE DEF a
<1>3. r \in Chip /\ r.lora = TRUE /\ r.flags = {}
  <2>1. "RSSI" \in DOMAIN RxLoraIrqs
    BY DEF RxLoraIrqs
  <2> QED BY <1>1, <2>1, RxFacts DEF Started
<1> HIDE DEF r
<1>4. d \in Chip /\ d.mode = "sleep" /\ d.lora = r.lora /\ d.flags = r.flags
        /\ "PACKETSENT" \notin d.fsk
  <2>1. r.lora \in BOOLEAN
    BY <1>3
  <2> QED BY <1>3, <2>1, OpModeFacts, ModesFacts
<1> HIDE DEF d
<1> QED BY <1>2, <1>3, <1>4

(* The program starts: hal_init, radio_init, init_gpio_fd.                 *)
LEMMA BootKept ==
    ASSUME IInv, Boot
    PROVE  IInv'
<1>1. pc = "down" /\ ~busy /\ UNCHANGED <<lmic, edge, busy, got, last>>
  BY DEF Boot, IInv, ModemInv
<1>2. RST \in Nat /\ RXTX \in Nat /\ DIO[1] \in Nat
  BY DEF RST, RXTX, DIO
<1> DEFINE StartsAs(h, f) ==
        LET c == IF RST \in h.high THEN ChipReset ELSE chip
        IN  IF RST \in f.high
            THEN pc' = "hung" /\ gpio' = f /\ chip' = c
            ELSE \E i \in DigitalWrite(f, RXTX, 0) : \E w \in GetFd(i, DIO[1]) :
                    /\ chip' = Seeded(c)
                    /\ IF w.fd THEN pc' = "idle" /\ gpio' = w.pins
                       ELSE pc' = "down" /\ gpio' = Setup(w.pins)
<1>3. PICK g \in InitGpio(gpio) :
        \E h \in ResetHigh(g) : \E f \in PinMode(h, RST, "input") : StartsAs(h, f)
  BY Zenon DEF Boot
<1>4. PICK h \in ResetHigh(g) : \E f \in PinMode(h, RST, "input") : StartsAs(h, f)
  BY Zenon, <1>3
<1>5. PICK f \in PinMode(h, RST, "input") : StartsAs(h, f)
  BY Zenon, <1>4
<1> DEFINE c == IF RST \in h.high THEN ChipReset ELSE chip
<1>6. c \in Chip
  BY ResetFacts DEF IInv, TypeOK
<1>7. \/ pc' = "hung" /\ gpio' = f /\ chip' = c
      \/ \E i \in DigitalWrite(f, RXTX, 0) : \E w \in GetFd(i, DIO[1]) :
            /\ chip' = Seeded(c)
            /\ \/ pc' = "idle" /\ gpio' = w.pins
               \/ pc' = "down" /\ gpio' = Setup(w.pins)
  BY <1>5
<1> HIDE DEF c
<1>8. Sound(f)
  <2>1. Sound(g)
    BY InitGpioSound DEF IInv, TypeOK
  <2>2. Sound(h)
    BY <2>1, InitGpioSound DEF IInv, TypeOK
  <2> QED BY <1>2, <2>2, PinModeSound
<1>9. /\ Sound(gpio') /\ chip' \in Chip
      /\ \/ pc' = "hung"
         \/ pc' = "down"
         \/ /\ pc' = "idle" /\ chip'.mode = "sleep" /\ chip'.lora /\ chip'.flags = {}
            /\ "PACKETSENT" \notin chip'.fsk
  <2>1. CASE pc' = "hung" /\ gpio' = f /\ chip' = c
    BY <1>6, <1>8, <2>1
  <2>2. ASSUME NEW i \in DigitalWrite(f, RXTX, 0), NEW w \in GetFd(i, DIO[1]),
               gpio' \in {w.pins, Setup(w.pins)}
        PROVE  Sound(gpio')
    <3>1. Sound(i)
      BY <1>2, <1>8, DigitalWriteFacts
    <3>2. Sound(w.pins)
      BY <1>2, <3>1, GetFdSound
    <3>3. Sound(Setup(w.pins))
      BY <3>2, SetupSound DEF Sound
    <3> QED BY <2>2, <3>2, <3>3
  <2> QED BY <1>6, <1>7, <2>1, <2>2, SeededFacts DEF IInv, TypeOK
<1>10. TypeOK'
  BY <1>1, <1>9 DEF IInv, TypeOK, Sound
<1>11. SentInv' /\ LengthInv' /\ ModemInv' /\ AntennaInv'
  <2>1. ~last.lora
    BY <1>1 DEF IInv, ModemInv
  <2> QED BY <1>1, <1>9, <2>1 DEF SentInv, LengthInv, SingleLora, ModemInv, Runs,
                                  AntennaInv, AntennaMatches, Sound
<1> QED BY <1>10, <1>11 DEF IInv

(* The program ends or crashes, while the chip goes on.                    *)
LEMMA EndsKept ==
    ASSUME IInv, Stop \/ Crash
    PROVE  IInv'
<1>1. /\ gpio' = Setup(gpio) \/ gpio' \in Unmap(gpio)
      /\ UNCHANGED chip /\ pc' = "down" /\ edge' = FALSE /\ busy' = FALSE
      /\ got' = Nothing /\ lmic' = ZeroConfig /\ last' = NoOperation
  BY DEF Stop, Crash, Ends
<1>2. Sound(gpio')
  BY <1>1, SetupSound DEF IInv, TypeOK
<1>3. got' \in Report /\ lmic' \in Config /\ last' \in Operation /\ last'.lora = FALSE
  BY <1>1 DEF Nothing, Report, ZeroConfig, Config, NoOperation, Operation
<1>4. TypeOK' /\ ModemInv'
  BY <1>1, <1>2, <1>3 DEF IInv, TypeOK, ModemInv, Runs, Sound
<1>5. AntennaInv' /\ SentInv' /\ LengthInv'
  BY <1>1, <1>2, <1>3 DEF IInv, AntennaInv, AntennaMatches, SentInv, Runs, LengthInv, SingleLora, Sound
<1> QED BY <1>4, <1>5 DEF IInv

(* Nothing runs yet.                                                       *)
LEMMA InitIInv == Init => IInv
<1> SUFFICES ASSUME Init PROVE IInv
  OBVIOUS
<1>1. /\ gpio = GpioBoot /\ chip = ChipReset /\ lmic = ZeroConfig /\ edge = FALSE
      /\ pc = "down" /\ busy = FALSE /\ got = Nothing /\ last = NoOperation
  BY DEF Init
<1>2. gpio \in Gpio /\ OutputsExported(gpio)
  BY <1>1 DEF GpioBoot, Gpio, Pins, OutputsExported
<1>3. got \in Report /\ lmic \in Config /\ last \in Operation /\ last.lora = FALSE
  BY <1>1 DEF Nothing, Report, ZeroConfig, Config, NoOperation, Operation
<1>4. TypeOK
  BY <1>1, <1>2, <1>3, ResetFacts DEF TypeOK
<1> QED BY <1>1, <1>2, <1>3, <1>4, ResetFacts
        DEF IInv, ModemInv, Runs, AntennaInv, AntennaMatches, SentInv, LengthInv, SingleLora

(* The invariant holds in every reachable state.                           *)
THEOREM Invariance == Spec => []IInv
<1>1. IInv /\ [Next]_vars => IInv'
  <2>1. CASE Next
    <3> SUFFICES ASSUME IInv, Next PROVE IInv'
      BY <2>1
    <3>1. CASE \/ \E n \in Length : RadioTx(n)
               \/ \E rxmode \in DOMAIN RxLoraIrqs : RadioRx(rxmode)
      BY <3>1, OperationKept
    <3>2. CASE \E n \in Length : ChipReceived(n)
      BY <3>2, ReceivedKept
    <3>3. CASE RadioSetConfig(FALSE, 0) \/ \E ih \in Length \cup {0} : RadioSetConfig(TRUE, ih)
      BY <3>3, ConfigKept
    <3>4. CASE RadioSleep \/ Handler
      BY <3>4, RadioSleepKept, FlagsKept, ReadingKept DEF Handler
    <3>5. CASE Boot \/ Stop \/ Crash \/ ChipSent \/ ChipTimeout
      BY <3>5, BootKept, EndsKept, SentKept, TimeoutKept
    <3> QED BY <3>1, <3>2, <3>3, <3>4, <3>5 DEF Next
  <2>2. CASE UNCHANGED vars
    BY <2>2 DEF vars, IInv, TypeOK, ModemInv, Runs, AntennaInv, AntennaMatches, Active,
                SentInv, Sent, LengthInv, SingleLora
  <2> QED BY <2>1, <2>2
<1> QED BY <1>1, InitIInv, PTL DEF Spec

(* The radio works with the modem the operation was configured for: the    *)
(* modem bit is writable in SLEEP only, and every way an operation ends    *)
(* leads there.                                                            *)
THEOREM ModemAlwaysMatches == Spec => []ModemMatches
<1>1. IInv => ModemMatches
  BY DEF IInv, ModemInv, ModemMatches
<1> QED BY <1>1, Invariance, PTL

(* The antenna switch is driven to the side the radio uses, whatever       *)
(* failures and crashes left of the pins.                                  *)
THEOREM AntennaAlwaysMatches == Spec => []AntennaMatches
<1>1. IInv => AntennaMatches
  BY DEF IInv, AntennaInv
<1> QED BY <1>1, Invariance, PTL

(* A packet is reported as sent only when the last operation was a         *)
(* transmission that is over.                                              *)
THEOREM SentAlwaysWasSent == Spec => []SentWasSent
<1>1. IInv => SentWasSent
  BY DEF IInv, SentInv, Runs, SentWasSent, Sent
<1> QED BY <1>1, Invariance, PTL

(* The length reported for a packet received alone is its own.             *)
THEOREM LengthAlwaysOwn == Spec => []LengthIsOwn
<1>1. IInv => LengthIsOwn
  BY DEF IInv, LengthInv, SingleLora, LengthIsOwn
<1> QED BY <1>1, Invariance, PTL

=============================================================================
