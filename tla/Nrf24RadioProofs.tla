-------------------------- MODULE Nrf24RadioProofs --------------------------
(***************************************************************************)
(* The driver of the nRF24L01 (module Nrf24Radio), for any number of pipes *)
(* and users, any channels, addresses and payloads and FIFOs of any depth: *)
(* its safety, and that it implements the radio that the link layer takes  *)
(* it for (module PhyRadio).                                               *)
(***************************************************************************)
EXTENDS Nrf24Radio, SequenceTheorems, TLAPS

(* The chip is powered while somebody uses the driver.                     *)
PowerInv ==
    /\ chip.pwr_up <=> ref_open > 0
    /\ call # NoCall => ref_open > 0

(* Between two writes nothing is left of a write.                          *)
IdleInv == call = NoCall => ~chip.busy /\ chip.tx_fifo = <<>> /\ air = NoAir

OnAir == [addr |-> chip.tx_addr, chan |-> chip.rf_ch, payload |-> call.payload]

(* A write in progress: the packet waits, was sent, or was given up.       *)
WriteInv ==
    call # NoCall =>
    /\ ~chip.prim_rx /\ ~chip.ce /\ ~call.full
    /\ chip.en_aa => HearsAnswer(chip)
    /\ chip.en_aa <=> chip.retr # 0
    /\ \/ /\ chip.busy /\ ~chip.tx_ds /\ ~chip.max_rt
          /\ air = NoAir /\ chip.tx_fifo = <<call.payload>>
       \/ /\ ~chip.busy /\ chip.tx_ds /\ ~chip.max_rt
          /\ air = OnAir /\ chip.tx_fifo = <<>>
       \/ /\ ~chip.busy /\ ~chip.tx_ds /\ chip.max_rt /\ chip.en_aa
          /\ chip.tx_fifo = <<call.payload>>

(* The pipes: pipe 1 holds the high bytes for the others, and the two      *)
(* statics say what pipe 0 is without the borrowing of a write.  They are  *)
(* stale only while no pipe is enabled.                                    *)
PipesInv ==
    /\ chip.en_rxaddr \ {0} # {} => chip.rx_p1 \in Address
    /\ pipe0_open => pipe0_address \in Address
    /\ call = NoCall /\ 0 \in chip.en_rxaddr => pipe0_open /\ chip.rx_p0 = pipe0_address
    /\ call = NoCall /\ pipe0_open => 0 \in chip.en_rxaddr \/ chip.en_rxaddr = {}
    /\ call # NoCall /\ pipe0_open => 0 \in chip.en_rxaddr

IInv == TypeOK /\ PowerInv /\ IdleInv /\ WriteInv /\ PipesInv

---------------------------------------------------------------------------
(* The functions of nrf24l01.c.                                            *)

(* The fields of a chip.                                                   *)
LEMMA ChipFacts ==
    ASSUME NEW c \in Chip
    PROVE  /\ c.pwr_up \in BOOLEAN /\ c.prim_rx \in BOOLEAN /\ c.ce \in BOOLEAN
           /\ c.busy \in BOOLEAN /\ c.en_aa \in BOOLEAN
           /\ c.tx_ds \in BOOLEAN /\ c.max_rt \in BOOLEAN
           /\ c.rf_ch \in AnyChannel /\ c.retr \in 0..(PipeMax + 1)
           /\ c.en_rxaddr \in SUBSET Pipe
           /\ c.rx_p0 \in AnyAddress /\ c.rx_p1 \in AnyAddress /\ c.tx_addr \in AnyAddress
           /\ c.rx_last \in [2..PipeMax -> Pipe]
           /\ c.tx_fifo \in Seq(Payload) /\ c.rx_fifo \in Seq(Packet)
  BY DEF Chip

(* The pipes and their addresses.                                          *)
LEMMA PipeFacts ==
    /\ 0 \in Pipe /\ 1 \in Pipe /\ PipeMax \in Nat
    /\ \A p \in Pipe : p \in Nat /\ (p # 0 /\ p # 1 => p \in 2..PipeMax /\ p > 1)
    /\ \A a \in Address : a \in AnyAddress /\ a # Unset
                            /\ a.high \in High \cup {Broadcast} /\ a.last \in Pipe
    /\ Unset \in AnyAddress
<1>1. Unset.high = "reset"
  BY DEF Unset
<1>2. \A a \in Address : a.high \in High \cup {Broadcast} /\ a.last \in Pipe
  BY DEF Address
<1>3. \A a \in Address : a # Unset
  BY <1>1, <1>2, HighAssumption
<1> QED BY <1>2, <1>3, PipeAssumption DEF Pipe, AnyAddress

(* What a pipe listens to.                                                 *)
LEMMA RxAddrFacts ==
    ASSUME NEW c \in Chip, NEW p \in Pipe
    PROVE  /\ p = 0 => RxAddr(c, p) = c.rx_p0
           /\ p = 1 => RxAddr(c, p) = c.rx_p1
           /\ p \notin {0, 1} => RxAddr(c, p) = [high |-> c.rx_p1.high, last |-> c.rx_last[p]]
           /\ p # 0 => RxAddr(c, p).high = c.rx_p1.high
           /\ p # 0 /\ c.rx_p1 \in Address => RxAddr(c, p) \in Address
<1>1. /\ p = 0 => RxAddr(c, p) = c.rx_p0
      /\ p = 1 => RxAddr(c, p) = c.rx_p1
      /\ p \notin {0, 1} => RxAddr(c, p) = [high |-> c.rx_p1.high, last |-> c.rx_last[p]]
  BY DEF RxAddr
<1>2. p \notin {0, 1} => c.rx_last[p] \in Pipe
  BY ChipFacts, PipeFacts
<1>3. p # 0 => RxAddr(c, p).high = c.rx_p1.high
  BY <1>1
<1>4. p # 0 /\ c.rx_p1 \in Address => RxAddr(c, p) \in Address
  BY <1>1, <1>2 DEF Address
<1> QED BY <1>1, <1>3, <1>4

(* What the calls about pipes leave alone.                                 *)
SameRadio(c, d) ==
    /\ d.pwr_up = c.pwr_up /\ d.rf_ch = c.rf_ch /\ d.en_aa = c.en_aa /\ d.retr = c.retr
    /\ d.tx_addr = c.tx_addr /\ d.busy = c.busy /\ d.tx_ds = c.tx_ds /\ d.max_rt = c.max_rt
    /\ d.tx_fifo = c.tx_fifo /\ d.rx_fifo = c.rx_fifo

SamePipes(c, d) == d.rx_p1 = c.rx_p1 /\ d.rx_last = c.rx_last

(* The pipes that share their high bytes listen to the same addresses.     *)
LEMMA SamePipesFacts ==
    ASSUME NEW c \in Chip, NEW d \in Chip, SamePipes(c, d), NEW p \in Pipe, p # 0
    PROVE  RxAddr(d, p) = RxAddr(c, p)
  BY RxAddrFacts DEF SamePipes

(* nrf24l01_set_standby.                                                   *)
LEMMA StandbyFacts ==
    ASSUME NEW c \in Chip
    PROVE  LET d == SetStandby(c) IN
           /\ d \in Chip /\ SameRadio(c, d) /\ SamePipes(c, d)
           /\ d.ce = FALSE /\ d.prim_rx = c.prim_rx
           /\ d.en_rxaddr = c.en_rxaddr /\ d.rx_p0 = c.rx_p0
  BY DEF SetStandby, Chip, SameRadio, SamePipes

(* nrf24l01_set_prx.                                                       *)
LEMMA PrxFacts ==
    ASSUME NEW c \in Chip, NEW opened \in BOOLEAN, NEW a \in AnyAddress
    PROVE  LET d == SetPrx(c, opened, a) IN
           /\ d \in Chip /\ SameRadio(c, d) /\ SamePipes(c, d)
           /\ d.ce = TRUE /\ d.prim_rx = TRUE
           /\ d.en_rxaddr = IF opened THEN c.en_rxaddr ELSE c.en_rxaddr \ {0}
           /\ d.rx_p0 = IF opened THEN a ELSE c.rx_p0
<1> DEFINE prx == [c EXCEPT !.ce = TRUE, !.prim_rx = TRUE]
           own == [prx EXCEPT !.rx_p0 = a]
           closed == [prx EXCEPT !.en_rxaddr = @ \ {0}]
<1>1. /\ prx \in Chip /\ SameRadio(c, prx) /\ SamePipes(c, prx)
      /\ prx.ce = TRUE /\ prx.prim_rx = TRUE
      /\ prx.en_rxaddr = c.en_rxaddr /\ prx.rx_p0 = c.rx_p0
  BY DEF Chip, SameRadio, SamePipes
<1>2. SetPrx(c, opened, a) = IF opened THEN own ELSE closed
  BY Zenon DEF SetPrx
<1> HIDE DEF prx
<1>3. /\ own \in Chip /\ SameRadio(c, own) /\ SamePipes(c, own)
      /\ own.ce = TRUE /\ own.prim_rx = TRUE
      /\ own.en_rxaddr = c.en_rxaddr /\ own.rx_p0 = a
  BY <1>1 DEF Chip, SameRadio, SamePipes
<1>4. /\ closed \in Chip /\ SameRadio(c, closed) /\ SamePipes(c, closed)
      /\ closed.ce = TRUE /\ closed.prim_rx = TRUE
      /\ closed.en_rxaddr = c.en_rxaddr \ {0} /\ closed.rx_p0 = c.rx_p0
  BY <1>1 DEF Chip, SameRadio, SamePipes
<1> HIDE DEF own, closed
<1> QED BY <1>2, <1>3, <1>4

(* nrf24l01_close_pipe.                                                    *)
LEMMA CloseFacts ==
    ASSUME NEW c \in Chip, NEW p \in Pipe
    PROVE  LET d == ClosePipe(c, p) IN
           /\ d \in Chip /\ SameRadio(c, d) /\ SamePipes(c, d)
           /\ d.en_rxaddr = c.en_rxaddr \ {p} /\ d.rx_p0 = c.rx_p0
  BY DEF ClosePipe, Chip, SameRadio, SamePipes

(* The register of the address of one pipe.                                *)
LEMMA AddressFacts ==
    ASSUME NEW c \in Chip, NEW p \in Pipe, NEW a \in Address
    PROVE  LET d == SetAddressPipe(c, p, a) IN
           /\ d \in Chip /\ SameRadio(c, d) /\ d.en_rxaddr = c.en_rxaddr
           /\ p = 0 => d.rx_p0 = a /\ SamePipes(c, d)
           /\ p # 0 => d.rx_p0 = c.rx_p0
           /\ p = 1 => d.rx_p1 = a /\ d.rx_last = c.rx_last
           /\ p \notin {0, 1} => d.rx_p1 = c.rx_p1 /\ d.rx_last = [c.rx_last EXCEPT ![p] = a.last]
<1>1. a \in AnyAddress /\ a.last \in Pipe
  BY PipeFacts
<1>2. CASE p = 0
  BY <1>1, <1>2 DEF SetAddressPipe, Chip, SameRadio, SamePipes
<1>3. CASE p = 1
  <2> DEFINE e == [c EXCEPT !.rx_p1 = a]
  <2>1. SetAddressPipe(c, p, a) = e
    BY <1>3 DEF SetAddressPipe
  <2>2. /\ e \in Chip /\ SameRadio(c, e) /\ e.en_rxaddr = c.en_rxaddr
        /\ e.rx_p0 = c.rx_p0 /\ e.rx_p1 = a /\ e.rx_last = c.rx_last
    BY <1>1 DEF Chip, SameRadio
  <2> HIDE DEF e
  <2> QED BY <1>3, <2>1, <2>2
<1>4. CASE p \notin {0, 1}
  <2>1. SetAddressPipe(c, p, a) = [c EXCEPT !.rx_last[p] = a.last]
    BY <1>4 DEF SetAddressPipe
  <2> DEFINE last == [c.rx_last EXCEPT ![p] = a.last]
             e == [c EXCEPT !.rx_last = last]
  <2>2. last \in [2..PipeMax -> Pipe]
    BY <1>1, ChipFacts
  <2>3. e = SetAddressPipe(c, p, a)
    BY <2>1, Zenon
  <2> HIDE DEF last
  <2>4. /\ e \in Chip /\ SameRadio(c, e) /\ e.en_rxaddr = c.en_rxaddr
        /\ e.rx_p0 = c.rx_p0 /\ e.rx_p1 = c.rx_p1 /\ e.rx_last = last
    BY <2>2 DEF Chip, SameRadio
  <2> HIDE DEF e
  <2> QED BY <1>4, <2>3, <2>4 DEF last
<1> QED BY <1>2, <1>3, <1>4

(* The register of the address of pipe 1.                                  *)
LEMMA FirstAddressFacts ==
    ASSUME NEW c \in Chip, NEW a \in Address
    PROVE  LET d == SetAddressPipe(c, 1, a) IN
           /\ d \in Chip /\ SameRadio(c, d) /\ d.en_rxaddr = c.en_rxaddr
           /\ d.rx_p0 = c.rx_p0 /\ d.rx_p1 = a /\ d.rx_last = c.rx_last
<1>1. a \in AnyAddress
  BY PipeFacts
<1>2. SetAddressPipe(c, 1, a) = [c EXCEPT !.rx_p1 = a]
  BY DEF SetAddressPipe
<1> QED BY <1>1, <1>2 DEF Chip, SameRadio

(* nrf24l01_open_pipe: the pipe listens to its address, and the others     *)
(* that share the high bytes of it still listen to theirs.                 *)
LEMMA OpenFacts ==
    ASSUME NEW c \in Chip, NEW p \in Pipe, NEW a \in Address, a.last = p,
           \A q \in c.en_rxaddr \ {0, p} : p # 0 => RxAddr(c, q).high = a.high,
           c.en_rxaddr \ {0} # {} => c.rx_p1 \in Address,
           p \notin c.en_rxaddr
    PROVE  LET d == OpenPipe(c, p, a) IN
           /\ d \in Chip /\ SameRadio(c, d) /\ d.en_rxaddr = c.en_rxaddr \cup {p}
           /\ RxAddr(d, p) = a
           /\ \A q \in c.en_rxaddr : RxAddr(d, q) = RxAddr(c, q)
           /\ p # 0 => d.rx_p0 = c.rx_p0
           /\ d.en_rxaddr \ {0} # {} => d.rx_p1 \in Address
<1> DEFINE e == [c EXCEPT !.en_rxaddr = @ \cup {p}]
           f == SetAddressPipe(e, p, a)
           g == SetAddressPipe(f, 1, a)
<1>1. e \in Chip /\ SameRadio(c, e) /\ SamePipes(c, e) /\ e.rx_p0 = c.rx_p0
        /\ e.en_rxaddr = c.en_rxaddr \cup {p}
  BY ChipFacts DEF Chip, SameRadio, SamePipes
<1>2. OpenPipe(c, p, a) = IF p > 1 /\ 1 \notin c.en_rxaddr THEN g ELSE f
  BY Zenon DEF OpenPipe
<1> HIDE DEF e
<1>3. /\ f \in Chip /\ SameRadio(e, f) /\ f.en_rxaddr = e.en_rxaddr
      /\ p = 0 => f.rx_p0 = a /\ SamePipes(e, f)
      /\ p # 0 => f.rx_p0 = e.rx_p0
      /\ p = 1 => f.rx_p1 = a /\ f.rx_last = e.rx_last
      /\ p \notin {0, 1} => f.rx_p1 = e.rx_p1 /\ f.rx_last = [e.rx_last EXCEPT ![p] = a.last]
  BY <1>1, AddressFacts
<1> HIDE DEF f
<1>4. /\ g \in Chip /\ SameRadio(f, g) /\ g.en_rxaddr = f.en_rxaddr
      /\ g.rx_p0 = f.rx_p0 /\ g.rx_p1 = a /\ g.rx_last = f.rx_last
  BY <1>3, FirstAddressFacts
<1> HIDE DEF g
<1> DEFINE d == IF p > 1 /\ 1 \notin c.en_rxaddr THEN g ELSE f
<1>5. /\ d \in Chip /\ SameRadio(c, d) /\ d.en_rxaddr = c.en_rxaddr \cup {p}
      /\ p = 0 => d.rx_p0 = a /\ d.rx_p1 = c.rx_p1
      /\ p # 0 => d.rx_p0 = c.rx_p0
  BY <1>1, <1>3, <1>4, PipeFacts DEF SameRadio, SamePipes
<1>6. a = [high |-> a.high, last |-> a.last]
  BY DEF Address
<1>7. c.en_rxaddr \subseteq Pipe /\ c.rx_last \in [2..PipeMax -> Pipe]
        /\ d.rx_last \in [2..PipeMax -> Pipe]
  BY <1>5, ChipFacts
<1>8. p \notin {0, 1} => d.rx_last[p] = p /\ \A q \in 2..PipeMax \ {p} : d.rx_last[q] = c.rx_last[q]
  <2>1. p \notin {0, 1} => d.rx_last = [c.rx_last EXCEPT ![p] = a.last] /\ p \in 2..PipeMax
    BY <1>1, <1>3, <1>4, PipeFacts DEF SamePipes
  <2> HIDE DEF d
  <2> QED BY <1>7, <2>1
<1>9. p \in {0, 1} => \A q \in 2..PipeMax : d.rx_last[q] = c.rx_last[q]
  BY <1>1, <1>3, <1>4, PipeFacts DEF SamePipes
<1>10. p # 0 => d.rx_p1.high = a.high /\ d.rx_p1 \in Address
  <2>1. CASE p = 1
    BY <1>3, <2>1
  <2>2. CASE p \notin {0, 1} /\ 1 \notin c.en_rxaddr
    BY <1>4, <2>2, PipeFacts
  <2>3. CASE p \notin {0, 1} /\ 1 \in c.en_rxaddr
    <3>1. RxAddr(c, 1) = c.rx_p1
      BY RxAddrFacts, PipeFacts
    <3>2. d.rx_p1 = c.rx_p1
      BY <1>1, <1>3, <2>3 DEF SamePipes
    <3> QED BY <2>3, <3>1, <3>2
  <2> QED BY <2>1, <2>2, <2>3
<1>11. RxAddr(d, p) = a
  <2>1. CASE p = 0
    BY <1>5, <2>1, RxAddrFacts
  <2>2. CASE p = 1
    BY <1>3, <1>5, <2>2, RxAddrFacts
  <2>3. CASE p \notin {0, 1}
    BY <1>5, <1>6, <1>8, <1>10, <2>3, RxAddrFacts
  <2> QED BY <2>1, <2>2, <2>3
<1>12. ASSUME NEW q \in c.en_rxaddr
       PROVE  RxAddr(d, q) = RxAddr(c, q)
  <2>1. q \in Pipe /\ q # p
    BY <1>7
  <2>2. CASE q = 0
    BY <1>5, <2>1, <2>2, RxAddrFacts
  <2>3. CASE q = 1
    <3>1. d.rx_p1 = c.rx_p1
      BY <1>1, <1>3, <1>5, <2>1, <2>3, PipeFacts DEF SamePipes
    <3> QED BY <1>5, <2>1, <2>3, <3>1, RxAddrFacts
  <2>4. CASE q \notin {0, 1}
    <3>1. d.rx_last[q] = c.rx_last[q]
      BY <1>8, <1>9, <2>1, <2>4, PipeFacts
    <3>2. d.rx_p1.high = c.rx_p1.high
      <4>1. CASE p = 0
        BY <1>5, <4>1
      <4>2. CASE p # 0
        <5>1. RxAddr(c, q).high = a.high /\ RxAddr(c, q).high = c.rx_p1.high
          BY <2>1, <2>4, <4>2, RxAddrFacts
        <5> QED BY <1>10, <4>2, <5>1
      <4> QED BY <4>1, <4>2
    <3> QED BY <1>5, <2>1, <2>4, <3>1, <3>2, RxAddrFacts
  <2> QED BY <2>2, <2>3, <2>4
<1>13. d.en_rxaddr \ {0} # {} => d.rx_p1 \in Address
  BY <1>5, <1>10
<1> QED BY <1>2, <1>5, <1>11, <1>12, <1>13

(* nrf24l01_set_channel.                                                   *)
LEMMA ChannelFacts ==
    ASSUME NEW c \in Chip, NEW ch \in Channel, NEW ack \in BOOLEAN
    PROVE  LET d == SetChannelReg(c, ch, ack) IN
           /\ d \in Chip /\ SamePipes(c, d)
           /\ d.en_rxaddr = c.en_rxaddr /\ d.rx_p0 = c.rx_p0
           /\ d.pwr_up = c.pwr_up /\ d.busy = c.busy
           /\ c.tx_fifo = <<>> => d.tx_fifo = <<>>
           /\ Len(d.tx_fifo) <= Len(c.tx_fifo) /\ Len(d.rx_fifo) <= Len(c.rx_fifo)
           /\ ch \in InvalidChannel => d = c
           /\ ch \notin InvalidChannel =>
                 /\ d.rf_ch = ch /\ d.en_aa = ack
                 /\ d.rx_fifo = IF ch = c.rf_ch THEN c.rx_fifo ELSE <<>>
<1> DEFINE same == [c EXCEPT !.en_aa = ack]
           other == [c EXCEPT !.rf_ch = ch, !.en_aa = ack, !.tx_ds = FALSE, !.max_rt = FALSE,
                              !.tx_fifo = <<>>, !.rx_fifo = <<>>]
<1>1. SetChannelReg(c, ch, ack) =
         IF ch \in InvalidChannel THEN c ELSE IF ch = c.rf_ch THEN same ELSE other
  BY Zenon DEF SetChannelReg
<1>2. /\ same \in Chip /\ SamePipes(c, same)
      /\ same.en_rxaddr = c.en_rxaddr /\ same.rx_p0 = c.rx_p0
      /\ same.pwr_up = c.pwr_up /\ same.busy = c.busy
      /\ same.tx_fifo = c.tx_fifo /\ same.rx_fifo = c.rx_fifo
      /\ same.rf_ch = c.rf_ch /\ same.en_aa = ack
  BY DEF Chip, SamePipes
<1>3. <<>> \in Seq(Payload) /\ <<>> \in Seq(Packet) /\ ch \in AnyChannel
  BY DEF AnyChannel
<1>4. /\ other \in Chip /\ SamePipes(c, other)
      /\ other.en_rxaddr = c.en_rxaddr /\ other.rx_p0 = c.rx_p0
      /\ other.pwr_up = c.pwr_up /\ other.busy = c.busy
      /\ other.tx_fifo = <<>> /\ other.rx_fifo = <<>>
      /\ other.rf_ch = ch /\ other.en_aa = ack
  BY <1>3 DEF Chip, SamePipes
<1>5. Len(c.tx_fifo) \in Nat /\ Len(c.rx_fifo) \in Nat /\ Len(<<>>) = 0
  BY ChipFacts
<1> HIDE DEF same, other
<1>6. CASE ch \in InvalidChannel
  BY <1>1, <1>5, <1>6 DEF SamePipes
<1>7. CASE ch \notin InvalidChannel /\ ch = c.rf_ch
  BY <1>1, <1>2, <1>5, <1>7
<1>8. CASE ch \notin InvalidChannel /\ ch # c.rf_ch
  BY <1>1, <1>4, <1>5, <1>8
<1> QED BY <1>6, <1>7, <1>8

(* nrf24l01_init and nrf24l01_deinit.                                      *)
LEMMA PowerFacts ==
    ASSUME NEW c \in Chip
    PROVE  /\ LET d == RadioInit(c) IN
              /\ d \in Chip /\ d.pwr_up /\ ~d.prim_rx /\ ~d.ce /\ ~d.busy /\ ~d.en_aa
              /\ d.rf_ch = DefaultChannel /\ d.en_rxaddr = {}
              /\ d.tx_fifo = <<>> /\ d.rx_fifo = <<>> /\ ~d.tx_ds /\ ~d.max_rt
           /\ LET d == RadioDeinit(c) IN
              /\ d \in Chip /\ ~d.pwr_up /\ SamePipes(c, d)
              /\ d.en_rxaddr = c.en_rxaddr /\ d.rx_p0 = c.rx_p0
              /\ d.busy = c.busy /\ d.tx_fifo = c.tx_fifo /\ d.rx_fifo = c.rx_fifo
<1>1. <<>> \in Seq(Payload) /\ <<>> \in Seq(Packet) /\ DefaultChannel \in AnyChannel
        /\ 0 \in 0..(PipeMax + 1)
  BY PipeFacts DEF AnyChannel
<1> DEFINE d == RadioInit(c)
<1>2. /\ d \in Chip /\ d.pwr_up = TRUE /\ d.prim_rx = FALSE /\ d.ce = FALSE
      /\ d.busy = FALSE /\ d.en_aa = FALSE
      /\ d.rf_ch = DefaultChannel /\ d.en_rxaddr = {}
      /\ d.tx_fifo = <<>> /\ d.rx_fifo = <<>> /\ d.tx_ds = FALSE /\ d.max_rt = FALSE
  BY <1>1 DEF RadioInit, Chip
<1> DEFINE e == RadioDeinit(c)
<1>3. /\ e \in Chip /\ e.pwr_up = FALSE /\ SamePipes(c, e)
      /\ e.en_rxaddr = c.en_rxaddr /\ e.rx_p0 = c.rx_p0
      /\ e.busy = c.busy /\ e.tx_fifo = c.tx_fifo /\ e.rx_fifo = c.rx_fifo
  BY DEF RadioDeinit, Chip, SamePipes
<1> QED BY <1>2, <1>3

(* nrf24l01_set_ptx: the answer is awaited on pipe 0.                      *)
LEMMA PtxFacts ==
    ASSUME NEW c \in Chip, NEW p \in Pipe, RxAddr(c, p) \in Address
    PROVE  LET d == SetPtx(c, p) IN
           /\ d \in Chip /\ SamePipes(c, d)
           /\ ~d.ce /\ ~d.prim_rx /\ ~d.tx_ds /\ ~d.max_rt
           /\ d.tx_addr = RxAddr(c, p) /\ d.pwr_up = c.pwr_up
           /\ d.en_aa = c.en_aa /\ d.rf_ch = c.rf_ch
           /\ d.en_aa <=> d.retr # 0
           /\ d.tx_fifo = c.tx_fifo /\ d.rx_fifo = c.rx_fifo
           /\ c.en_aa => d.en_rxaddr = c.en_rxaddr \cup {0} /\ d.rx_p0 = RxAddr(c, p)
           /\ ~c.en_aa => d.en_rxaddr = c.en_rxaddr /\ d.rx_p0 = c.rx_p0
<1> DEFINE a == RxAddr(c, p)
           r == Retransmission(c, p)
           ptx == [c EXCEPT !.ce = FALSE, !.prim_rx = FALSE, !.tx_addr = a,
                            !.tx_ds = FALSE, !.max_rt = FALSE, !.retr = r]
           borrowed == [ptx EXCEPT !.en_rxaddr = @ \cup {0}, !.rx_p0 = a]
<1>1. SetPtx(c, p) = IF c.en_aa THEN borrowed ELSE ptx
  BY Zenon DEF SetPtx
<1>2. a \in Address /\ a \in AnyAddress
  BY PipeFacts
<1>3. r \in 0..(PipeMax + 1) /\ (c.en_aa => r # 0) /\ (~c.en_aa => r = 0)
  BY PipeFacts DEF Retransmission, Pipe
<1> HIDE DEF a, r
<1>4. /\ ptx \in Chip /\ SamePipes(c, ptx)
      /\ ptx.ce = FALSE /\ ptx.prim_rx = FALSE /\ ptx.tx_ds = FALSE /\ ptx.max_rt = FALSE
      /\ ptx.tx_addr = a /\ ptx.pwr_up = c.pwr_up /\ ptx.retr = r
      /\ ptx.en_aa = c.en_aa /\ ptx.rf_ch = c.rf_ch
      /\ ptx.tx_fifo = c.tx_fifo /\ ptx.rx_fifo = c.rx_fifo
      /\ ptx.en_rxaddr = c.en_rxaddr /\ ptx.rx_p0 = c.rx_p0
  BY <1>2, <1>3 DEF Chip, SamePipes
<1> HIDE DEF ptx
<1>5. 0 \in Pipe
  BY PipeFacts
<1>6. /\ borrowed \in Chip /\ SamePipes(c, borrowed)
      /\ borrowed.ce = FALSE /\ borrowed.prim_rx = FALSE
      /\ borrowed.tx_ds = FALSE /\ borrowed.max_rt = FALSE
      /\ borrowed.tx_addr = a /\ borrowed.pwr_up = c.pwr_up /\ borrowed.retr = r
      /\ borrowed.en_aa = c.en_aa /\ borrowed.rf_ch = c.rf_ch
      /\ borrowed.tx_fifo = c.tx_fifo /\ borrowed.rx_fifo = c.rx_fifo
      /\ borrowed.en_rxaddr = c.en_rxaddr \cup {0} /\ borrowed.rx_p0 = a
  BY <1>2, <1>4, <1>5 DEF Chip, SamePipes
<1> HIDE DEF borrowed
<1>7. CASE c.en_aa
  BY <1>1, <1>3, <1>6, <1>7 DEF a
<1>8. CASE ~c.en_aa
  BY <1>1, <1>3, <1>4, <1>8 DEF a
<1> QED BY <1>7, <1>8

(* nrf24l01_ptx_data with an empty FIFO, which is never full then.         *)
LEMMA PtxDataFacts ==
    ASSUME NEW c \in Chip, NEW d \in Payload, c.tx_fifo = <<>>
    PROVE  LET e == PtxData(c, d) IN
           /\ ~FullAfter(c) /\ e.busy /\ e.tx_fifo = <<d>>
           /\ e \in Chip /\ SamePipes(c, e) /\ e.rx_fifo = c.rx_fifo
           /\ e.en_rxaddr = c.en_rxaddr /\ e.rx_p0 = c.rx_p0
           /\ e.ce = c.ce /\ e.prim_rx = c.prim_rx /\ e.tx_ds = c.tx_ds /\ e.max_rt = c.max_rt
           /\ e.tx_addr = c.tx_addr /\ e.pwr_up = c.pwr_up /\ e.retr = c.retr
           /\ e.en_aa = c.en_aa /\ e.rf_ch = c.rf_ch
<1>1. Len(c.tx_fifo) = 0 /\ 0 < TxDepth /\ ~(0 + 1 >= TxDepth)
  BY TxAssumption
<1>2. ~FullAfter(c)
  BY <1>1 DEF FullAfter
<1>3. Append(c.tx_fifo, d) = <<d>> /\ <<d>> \in Seq(Payload)
  OBVIOUS
<1> DEFINE q == <<d>>
           e == [c EXCEPT !.tx_fifo = q, !.busy = TRUE]
<1>4. PtxData(c, d) = e
  <2>1. PtxData(c, d) =
           [c EXCEPT !.tx_fifo = IF Len(c.tx_fifo) < TxDepth THEN Append(c.tx_fifo, d) ELSE c.tx_fifo,
                     !.busy = ~FullAfter(c)]
    BY Zenon DEF PtxData
  <2>2. (IF Len(c.tx_fifo) < TxDepth THEN Append(c.tx_fifo, d) ELSE c.tx_fifo) = q
    BY <1>1, <1>3
  <2>3. (~FullAfter(c)) = TRUE
    BY <1>2, Zenon
  <2> HIDE DEF q
  <2> QED BY <2>1, <2>2, <2>3, Zenon
<1> HIDE DEF q
<1>5. /\ e.busy = TRUE /\ e.tx_fifo = q
      /\ e \in Chip /\ SamePipes(c, e) /\ e.rx_fifo = c.rx_fifo
      /\ e.en_rxaddr = c.en_rxaddr /\ e.rx_p0 = c.rx_p0
      /\ e.ce = c.ce /\ e.prim_rx = c.prim_rx /\ e.tx_ds = c.tx_ds /\ e.max_rt = c.max_rt
      /\ e.tx_addr = c.tx_addr /\ e.pwr_up = c.pwr_up /\ e.retr = c.retr
      /\ e.en_aa = c.en_aa /\ e.rf_ch = c.rf_ch
  BY <1>3 DEF Chip, SamePipes, q
<1> HIDE DEF e
<1> QED BY <1>2, <1>4, <1>5 DEF q

---------------------------------------------------------------------------
(* The steps.  First what each does to the chip and to the addresses.      *)

(* What the types say of the variables.                                    *)
LEMMA TypeFacts ==
    ASSUME IInv
    PROVE  /\ chip \in Chip /\ Len(chip.tx_fifo) <= TxDepth /\ Len(chip.rx_fifo) <= RxDepth
           /\ ref_open \in 0..MaxOpen /\ ref_open \in Nat
           /\ pipe0_open \in BOOLEAN /\ pipe0_address \in AnyAddress
           /\ call \in [pipe : Pipe, payload : Payload \cup {0}, full : BOOLEAN]
           /\ air \in Aired
<1>1. ref_open \in 0..MaxOpen /\ MaxOpen \in Nat
  BY OpenAssumption DEF IInv, TypeOK
<1> QED BY <1>1 DEF IInv, TypeOK

(* An enabled pipe listens to an address.                                  *)
LEMMA EnabledFacts ==
    ASSUME IInv, call = NoCall, NEW q \in chip.en_rxaddr
    PROVE  q \in Pipe /\ RxAddr(chip, q) \in Address /\ RxAddr(chip, q) # Unset
<1>1. chip \in Chip /\ q \in Pipe
  BY TypeFacts, ChipFacts
<1>2. CASE q = 0
  BY <1>1, <1>2, RxAddrFacts, PipeFacts DEF IInv, PipesInv
<1>3. CASE q # 0
  BY <1>1, <1>3, RxAddrFacts, PipeFacts DEF IInv, PipesInv
<1> QED BY <1>1, <1>2, <1>3

(* What the link layer takes a pipe for between two writes.                *)
LEMMA OpenNow ==
    ASSUME chip \in Chip, call = NoCall, chip.pwr_up, NEW q \in Pipe
    PROVE  Open(q) = IF q \in chip.en_rxaddr THEN RxAddr(chip, q) ELSE Unset
<1>1. CASE q = 0
  BY <1>1, RxAddrFacts DEF Open, Pipe0Address
<1>2. CASE q # 0
  BY <1>2 DEF Open
<1> QED BY <1>1, <1>2

(* The same after a step.                                                  *)
LEMMA OpenThen ==
    ASSUME chip' \in Chip, call' = NoCall, chip'.pwr_up, NEW q \in Pipe
    PROVE  Open(q)' = IF q \in chip'.en_rxaddr THEN RxAddr(chip', q) ELSE Unset
<1>1. CASE q = 0
  BY <1>1, RxAddrFacts DEF Open, Pipe0Address
<1>2. CASE q # 0
  BY <1>2 DEF Open
<1> QED BY <1>1, <1>2

(* Between two writes.                                                     *)
LEMMA IdleFacts ==
    ASSUME IInv, Idle
    PROVE  /\ call = NoCall /\ ref_open > 0 /\ chip.pwr_up
           /\ ~chip.busy /\ chip.tx_fifo = <<>> /\ air = NoAir
           /\ 0 \in chip.en_rxaddr => pipe0_open /\ chip.rx_p0 = pipe0_address
           /\ pipe0_open => 0 \in chip.en_rxaddr \/ chip.en_rxaddr = {}
  BY DEF IInv, Idle, PowerInv, IdleInv, PipesInv

(* The pipes after a step that leaves them alone or closes some.           *)
Narrowed(E) ==
    /\ chip'.en_rxaddr = E /\ E \subseteq chip.en_rxaddr
    /\ SamePipes(chip, chip')
    /\ 0 \in E => chip'.rx_p0 = chip.rx_p0

(* Then the pipes that are still enabled listen as before.                 *)
LEMMA NarrowedOpen ==
    ASSUME IInv, call = NoCall, chip.pwr_up, chip' \in Chip, call' = NoCall, chip'.pwr_up,
           NEW E, Narrowed(E), NEW q \in Pipe
    PROVE  Open(q)' = IF q \in E THEN Open(q) ELSE Unset
<1>1. chip \in Chip
  BY TypeFacts
<1>2. q \in E => RxAddr(chip', q) = RxAddr(chip, q)
  <2>1. CASE q = 0
    BY <1>1, <2>1, RxAddrFacts DEF Narrowed
  <2>2. CASE q # 0
    BY <1>1, <2>2, SamePipesFacts DEF Narrowed
  <2> QED BY <2>1, <2>2
<1> QED BY <1>1, <1>2, OpenNow, OpenThen DEF Narrowed

(* The chip d receives again, set up from c with these two statics.        *)
Resumed(c, d, opened, own) ==
    /\ d \in Chip /\ SameRadio(c, d) /\ SamePipes(c, d)
    /\ d.ce = TRUE /\ d.prim_rx = TRUE
    /\ d.en_rxaddr = IF opened THEN c.en_rxaddr ELSE c.en_rxaddr \ {0}
    /\ d.rx_p0 = IF opened THEN own ELSE c.rx_p0

(* nrf24l01_set_prx does that for any statics.                             *)
LEMMA ResumedFacts ==
    \A c \in Chip, opened \in BOOLEAN, own \in AnyAddress :
        Resumed(c, SetPrx(c, opened, own), opened, own)
  BY PrxFacts DEF Resumed

(* Reception goes on with what the two statics say of pipe 0.              *)
LEMMA PrxThen ==
    ASSUME NEW o \in Chip, pipe0_open' \in BOOLEAN, pipe0_address' \in AnyAddress,
           chip' = SetPrx(o, pipe0_open', pipe0_address')
    PROVE  /\ chip' \in Chip /\ SameRadio(o, chip') /\ SamePipes(o, chip')
           /\ chip'.ce = TRUE /\ chip'.prim_rx = TRUE
           /\ chip'.en_rxaddr = IF pipe0_open' THEN o.en_rxaddr ELSE o.en_rxaddr \ {0}
           /\ chip'.rx_p0 = IF pipe0_open' THEN pipe0_address' ELSE o.rx_p0
<1>1. Resumed(o, chip', pipe0_open', pipe0_address')
  BY ResumedFacts, Zenon
<1> QED BY <1>1, Zenon DEF Resumed

(* hal_comm opens a pipe.                                                  *)
LEMMA SetPipeStep ==
    ASSUME IInv, NEW p \in Pipe, NEW a \in Address, IoctlSetPipe(p, a)
    PROVE  /\ Idle /\ UNCHANGED <<ref_open, call, air>>
           /\ chip' \in Chip /\ SameRadio(chip, chip') /\ chip'.ce /\ chip'.prim_rx
           /\ pipe0_open' \in BOOLEAN /\ pipe0_address' \in AnyAddress
           /\ PipesInv'
           /\ \A q \in Pipe : Open(q)' = IF q = p /\ Open(q) = Unset THEN a ELSE Open(q)
<1> DEFINE opens == p \notin chip.en_rxaddr
           c == SetStandby(chip)
           o == IF opens THEN OpenPipe(c, p, a) ELSE c
<1>1. /\ Idle /\ AddressFits(p, a) /\ UNCHANGED <<ref_open, call, air>>
      /\ pipe0_open' = (pipe0_open \/ (opens /\ p = 0))
      /\ pipe0_address' = IF opens /\ p = 0 THEN a ELSE pipe0_address
      /\ chip' = SetPrx(o, pipe0_open', pipe0_address')
  BY DEF IoctlSetPipe
<1>2. /\ call = NoCall /\ chip.pwr_up
      /\ 0 \in chip.en_rxaddr => pipe0_open /\ chip.rx_p0 = pipe0_address
      /\ pipe0_open => 0 \in chip.en_rxaddr \/ chip.en_rxaddr = {}
  BY <1>1, IdleFacts
<1>3. chip \in Chip /\ pipe0_open \in BOOLEAN /\ pipe0_address \in AnyAddress
        /\ chip.en_rxaddr \subseteq Pipe /\ a \in AnyAddress
  BY TypeFacts, ChipFacts, PipeFacts
<1>4. /\ c \in Chip /\ SameRadio(chip, c) /\ SamePipes(chip, c)
      /\ c.en_rxaddr = chip.en_rxaddr /\ c.rx_p0 = chip.rx_p0
  BY <1>3, StandbyFacts
<1> HIDE DEF c
<1>5. /\ o \in Chip /\ SameRadio(c, o) /\ o.en_rxaddr = chip.en_rxaddr \cup {p}
      /\ p = 0 /\ opens => o.rx_p0 = a
      /\ p # 0 \/ ~opens => o.rx_p0 = chip.rx_p0
      /\ \A q \in chip.en_rxaddr \ {0} : RxAddr(o, q) = RxAddr(chip, q)
      /\ p # 0 /\ opens => RxAddr(o, p) = a
      /\ o.en_rxaddr \ {0} # {} => o.rx_p1 \in Address
  <2>1. \A q \in chip.en_rxaddr \ {0} : RxAddr(c, q) = RxAddr(chip, q)
    BY <1>3, <1>4, SamePipesFacts
  <2>2. c.en_rxaddr \ {0} # {} => c.rx_p1 \in Address
    BY <1>4 DEF IInv, PipesInv, SamePipes
  <2>3. CASE opens
    <3>1. a.last = p
      BY <1>1 DEF AddressFits
    <3>2. \A q \in c.en_rxaddr \ {0, p} : p # 0 => RxAddr(c, q).high = a.high
      BY <1>1, <1>4, <2>1 DEF AddressFits
    <3> DEFINE d == OpenPipe(c, p, a)
    <3>3. p \notin c.en_rxaddr
      BY <1>4, <2>3
    <3>4. /\ d \in Chip /\ SameRadio(c, d) /\ d.en_rxaddr = c.en_rxaddr \cup {p}
          /\ RxAddr(d, p) = a
          /\ \A q \in c.en_rxaddr : RxAddr(d, q) = RxAddr(c, q)
          /\ p # 0 => d.rx_p0 = c.rx_p0
          /\ d.en_rxaddr \ {0} # {} => d.rx_p1 \in Address
      BY <1>4, <2>2, <3>1, <3>2, <3>3, OpenFacts
    <3>5. o = d
      BY <2>3
    <3> HIDE DEF d, o
    <3>6. p = 0 => d.rx_p0 = a
      BY <3>4, RxAddrFacts
    <3> QED BY <1>4, <2>1, <2>3, <3>4, <3>5, <3>6
  <2>4. CASE ~opens
    <3>1. o = c /\ p \in chip.en_rxaddr
      BY <2>4
    <3>2. SameRadio(c, c)
      BY DEF SameRadio
    <3> HIDE DEF o
    <3> QED BY <1>4, <2>1, <2>2, <2>4, <3>1, <3>2
  <2> QED BY <2>3, <2>4
<1> HIDE DEF o
<1>6. /\ pipe0_open' \in BOOLEAN /\ pipe0_address' \in AnyAddress
      /\ pipe0_open' => 0 \in chip.en_rxaddr \cup {p}
      /\ 0 \in chip.en_rxaddr \cup {p} => pipe0_open' /\ pipe0_address' = o.rx_p0
      /\ pipe0_open' => pipe0_address' \in Address
  <2>1. pipe0_open' \in BOOLEAN
    BY <1>1, Zenon
  <2>2. CASE opens /\ p = 0
    BY <1>1, <1>3, <1>5, <2>1, <2>2
  <2>3. CASE p # 0
    <3>1. opens => 0 \in chip.en_rxaddr
      BY <1>1, <2>3 DEF AddressFits
    <3>2. pipe0_open' = pipe0_open /\ pipe0_address' = pipe0_address
      BY <1>1, <1>3, <2>3
    <3>3. pipe0_open => 0 \in chip.en_rxaddr
      BY <1>2, <3>1
    <3> QED BY <1>2, <1>3, <1>5, <2>3, <3>2, <3>3 DEF IInv, PipesInv
  <2>4. CASE ~opens /\ p = 0
    <3>1. pipe0_open' = pipe0_open /\ pipe0_address' = pipe0_address
      BY <1>1, <1>3, <2>4
    <3> QED BY <1>2, <1>3, <1>5, <2>4, <3>1 DEF IInv, PipesInv
  <2> QED BY <2>2, <2>3, <2>4
<1>7. /\ chip' \in Chip /\ SameRadio(o, chip') /\ SamePipes(o, chip')
      /\ chip'.ce = TRUE /\ chip'.prim_rx = TRUE
      /\ chip'.en_rxaddr = IF pipe0_open' THEN o.en_rxaddr ELSE o.en_rxaddr \ {0}
      /\ chip'.rx_p0 = IF pipe0_open' THEN pipe0_address' ELSE o.rx_p0
  BY <1>1, <1>5, <1>6, PrxThen
<1>8. chip'.en_rxaddr = chip.en_rxaddr \cup {p} /\ chip'.rx_p0 = o.rx_p0
  BY <1>5, <1>6, <1>7
<1>9. SameRadio(chip, chip')
  BY <1>4, <1>5, <1>7 DEF SameRadio
<1>10. PipesInv'
  BY <1>1, <1>2, <1>5, <1>6, <1>7, <1>8 DEF PipesInv, SamePipes
<1>11. ASSUME NEW q \in Pipe
       PROVE  Open(q)' = IF q = p /\ Open(q) = Unset THEN a ELSE Open(q)
  <2>1. /\ Open(q) = IF q \in chip.en_rxaddr THEN RxAddr(chip, q) ELSE Unset
        /\ q \in chip.en_rxaddr => RxAddr(chip, q) # Unset
    BY <1>2, <1>3, OpenNow, EnabledFacts
  <2>2. Open(q)' = IF q \in chip'.en_rxaddr THEN RxAddr(chip', q) ELSE Unset
    BY <1>1, <1>2, <1>7, <1>9, OpenThen DEF SameRadio
  <2>3. q # 0 => RxAddr(chip', q) = RxAddr(o, q)
    BY <1>5, <1>7, SamePipesFacts
  <2>4. q = 0 => RxAddr(chip', q) = o.rx_p0 /\ RxAddr(chip, q) = chip.rx_p0
    BY <1>3, <1>7, <1>8, RxAddrFacts
  <2>5. CASE q = 0
    BY <1>5, <1>8, <2>1, <2>2, <2>4, <2>5
  <2>6. CASE q # 0
    BY <1>5, <1>8, <2>1, <2>2, <2>3, <2>6
  <2> QED BY <2>5, <2>6
<1> QED BY <1>1, <1>6, <1>7, <1>9, <1>10, <1>11

(* hal_comm closes a pipe.                                                 *)
LEMMA ResetPipeStep ==
    ASSUME IInv, NEW p \in Pipe, IoctlResetPipe(p)
    PROVE  /\ Idle /\ UNCHANGED <<ref_open, call, air>>
           /\ chip' \in Chip /\ SameRadio(chip, chip') /\ chip'.ce /\ chip'.prim_rx
           /\ pipe0_open' \in BOOLEAN /\ pipe0_address' = pipe0_address
           /\ PipesInv' /\ Narrowed(chip.en_rxaddr \ {p})
<1> DEFINE o == ClosePipe(SetStandby(chip), p)
<1>1. /\ Idle /\ UNCHANGED <<ref_open, pipe0_address, call, air>>
      /\ pipe0_open' = IF p = 0 /\ 0 \in chip.en_rxaddr THEN FALSE ELSE pipe0_open
      /\ chip' = SetPrx(o, pipe0_open', pipe0_address)
  BY DEF IoctlResetPipe
<1>2. /\ call = NoCall
      /\ 0 \in chip.en_rxaddr => pipe0_open /\ chip.rx_p0 = pipe0_address
      /\ pipe0_open => 0 \in chip.en_rxaddr \/ chip.en_rxaddr = {}
  BY <1>1, IdleFacts
<1>3. chip \in Chip /\ pipe0_open \in BOOLEAN /\ pipe0_address \in AnyAddress
  BY TypeFacts
<1>4. /\ o \in Chip /\ SameRadio(chip, o) /\ SamePipes(chip, o)
      /\ o.en_rxaddr = chip.en_rxaddr \ {p} /\ o.rx_p0 = chip.rx_p0
  <2> DEFINE c == SetStandby(chip)
  <2>1. /\ c \in Chip /\ SameRadio(chip, c) /\ SamePipes(chip, c)
        /\ c.en_rxaddr = chip.en_rxaddr /\ c.rx_p0 = chip.rx_p0
    BY <1>3, StandbyFacts
  <2> HIDE DEF c
  <2>2. /\ ClosePipe(c, p) \in Chip /\ SameRadio(c, ClosePipe(c, p)) /\ SamePipes(c, ClosePipe(c, p))
        /\ ClosePipe(c, p).en_rxaddr = c.en_rxaddr \ {p} /\ ClosePipe(c, p).rx_p0 = c.rx_p0
    BY <2>1, CloseFacts
  <2>3. o = ClosePipe(c, p)
    BY DEF c
  <2> HIDE DEF o
  <2> QED BY <2>1, <2>2, <2>3 DEF SameRadio, SamePipes
<1> HIDE DEF o
<1>5. pipe0_open' \in BOOLEAN /\ pipe0_address' \in AnyAddress
  BY <1>1, <1>3
<1>6. /\ chip' \in Chip /\ SameRadio(o, chip') /\ SamePipes(o, chip')
      /\ chip'.ce = TRUE /\ chip'.prim_rx = TRUE
      /\ chip'.en_rxaddr = IF pipe0_open' THEN o.en_rxaddr ELSE o.en_rxaddr \ {0}
      /\ chip'.rx_p0 = IF pipe0_open' THEN pipe0_address' ELSE o.rx_p0
  BY <1>1, <1>4, <1>5, PrxThen
<1>7. chip'.en_rxaddr = chip.en_rxaddr \ {p}
  <2>1. ~pipe0_open' => 0 \notin chip.en_rxaddr \/ p = 0
    BY <1>1, <1>2
  <2> QED BY <1>4, <1>6, <2>1
<1>8. /\ pipe0_open' => pipe0_open
      /\ pipe0_open' => 0 \in chip'.en_rxaddr \/ chip'.en_rxaddr = {}
      /\ 0 \in chip'.en_rxaddr => pipe0_open' /\ chip'.rx_p0 = pipe0_address
  BY <1>1, <1>2, <1>6, <1>7
<1>9. SameRadio(chip, chip') /\ SamePipes(chip, chip')
  BY <1>4, <1>6 DEF SameRadio, SamePipes
<1>10. PipesInv'
  BY <1>1, <1>2, <1>7, <1>8, <1>9 DEF IInv, PipesInv, SamePipes
<1>11. Narrowed(chip.en_rxaddr \ {p})
  BY <1>2, <1>7, <1>8, <1>9 DEF Narrowed
<1> QED BY <1>1, <1>5, <1>6, <1>9, <1>10, <1>11

(* A step that leaves the pipes and the statics alone.                     *)
LEMMA SamePipesInv ==
    ASSUME PipesInv, call = NoCall, call' = NoCall,
           UNCHANGED <<pipe0_open, pipe0_address>>, Narrowed(chip.en_rxaddr)
    PROVE  PipesInv'
  BY DEF PipesInv, Narrowed, SamePipes

(* Reception goes on after a call that has not touched the pipes.          *)
LEMMA ResumeStep ==
    ASSUME IInv, call = NoCall, NEW o \in Chip,
           o.en_rxaddr = chip.en_rxaddr, o.rx_p0 = chip.rx_p0, SamePipes(chip, o),
           chip' = SetPrx(o, pipe0_open, pipe0_address),
           UNCHANGED <<pipe0_open, pipe0_address>>
    PROVE  /\ chip' \in Chip /\ SameRadio(o, chip') /\ chip'.ce /\ chip'.prim_rx
           /\ Narrowed(chip.en_rxaddr)
<1>1. pipe0_open \in BOOLEAN /\ pipe0_address \in AnyAddress
  BY TypeFacts
<1>2. /\ 0 \in chip.en_rxaddr => pipe0_open /\ chip.rx_p0 = pipe0_address
      /\ pipe0_open => 0 \in chip.en_rxaddr \/ chip.en_rxaddr = {}
  BY DEF IInv, PipesInv
<1>3. /\ chip' \in Chip /\ SameRadio(o, chip') /\ SamePipes(o, chip')
      /\ chip'.ce = TRUE /\ chip'.prim_rx = TRUE
      /\ chip'.en_rxaddr = IF pipe0_open' THEN o.en_rxaddr ELSE o.en_rxaddr \ {0}
      /\ chip'.rx_p0 = IF pipe0_open' THEN pipe0_address' ELSE o.rx_p0
  BY <1>1, PrxThen
<1>4. chip'.en_rxaddr = chip.en_rxaddr
  BY <1>2, <1>3
<1> QED BY <1>2, <1>3, <1>4 DEF Narrowed, SamePipes

(* hal_comm sets the channel.                                              *)
LEMMA SetChannelStep ==
    ASSUME IInv, NEW ch \in Channel, NEW ack \in BOOLEAN, IoctlSetChannel(ch, ack)
    PROVE  /\ Idle /\ UNCHANGED <<driver, call, air>>
           /\ chip' \in Chip /\ chip'.ce /\ chip'.prim_rx /\ chip'.pwr_up = chip.pwr_up
           /\ ~chip'.busy /\ chip'.tx_fifo = <<>> /\ Len(chip'.rx_fifo) <= RxDepth
           /\ Narrowed(chip.en_rxaddr)
           /\ ch \in InvalidChannel =>
                 chip'.rf_ch = chip.rf_ch /\ chip'.en_aa = chip.en_aa /\ chip'.rx_fifo = chip.rx_fifo
           /\ ch \notin InvalidChannel =>
                 /\ chip'.rf_ch = ch /\ chip'.en_aa = ack
                 /\ chip'.rx_fifo = IF ch = chip.rf_ch THEN chip.rx_fifo ELSE <<>>
<1> DEFINE c == SetStandby(chip)
           o == SetChannelReg(c, ch, ack)
<1>1. /\ Idle /\ UNCHANGED <<driver, call, air>>
      /\ chip' = SetPrx(o, pipe0_open, pipe0_address)
  BY DEF IoctlSetChannel
<1>2. call = NoCall /\ ~chip.busy /\ chip.tx_fifo = <<>>
  BY <1>1, IdleFacts
<1>3. chip \in Chip /\ Len(chip.rx_fifo) <= RxDepth
  BY TypeFacts
<1>4. /\ c \in Chip /\ SameRadio(chip, c) /\ SamePipes(chip, c)
      /\ c.en_rxaddr = chip.en_rxaddr /\ c.rx_p0 = chip.rx_p0
  BY <1>3, StandbyFacts
<1> HIDE DEF c
<1>5. /\ o \in Chip /\ SamePipes(c, o)
      /\ o.en_rxaddr = c.en_rxaddr /\ o.rx_p0 = c.rx_p0
      /\ o.pwr_up = c.pwr_up /\ o.busy = c.busy
      /\ c.tx_fifo = <<>> => o.tx_fifo = <<>>
      /\ Len(o.rx_fifo) <= Len(c.rx_fifo)
      /\ ch \in InvalidChannel => o = c
      /\ ch \notin InvalidChannel =>
            /\ o.rf_ch = ch /\ o.en_aa = ack
            /\ o.rx_fifo = IF ch = c.rf_ch THEN c.rx_fifo ELSE <<>>
  BY <1>4, ChannelFacts
<1> HIDE DEF o
<1>6. UNCHANGED <<pipe0_open, pipe0_address>>
  BY <1>1 DEF driver
<1>7. SamePipes(chip, o)
  BY <1>4, <1>5 DEF SamePipes
<1>8. /\ chip' \in Chip /\ SameRadio(o, chip') /\ chip'.ce /\ chip'.prim_rx
      /\ Narrowed(chip.en_rxaddr)
  BY <1>1, <1>2, <1>4, <1>5, <1>6, <1>7, ResumeStep
<1>9. Len(o.rx_fifo) \in Nat /\ Len(c.rx_fifo) \in Nat /\ RxDepth \in Nat
  BY <1>4, <1>5, ChipFacts, RxAssumption
<1>10. Len(chip'.rx_fifo) <= RxDepth
  BY <1>3, <1>4, <1>5, <1>8, <1>9 DEF SameRadio
<1> QED BY <1>1, <1>2, <1>4, <1>5, <1>8, <1>10 DEF SameRadio

(* hal_comm puts the radio on standby.                                     *)
LEMMA StandbyStep ==
    ASSUME IInv, IoctlStandby
    PROVE  /\ Idle /\ UNCHANGED <<driver, call, air>>
           /\ chip' \in Chip /\ SameRadio(chip, chip') /\ ~chip'.ce
           /\ Narrowed(chip.en_rxaddr)
<1>1. Idle /\ UNCHANGED <<driver, call, air>> /\ chip' = SetStandby(chip)
  BY DEF IoctlStandby
<1>2. chip \in Chip
  BY TypeFacts
<1> QED BY <1>1, <1>2, StandbyFacts DEF Narrowed

(* The packets received are all that differs.                              *)
SameButRx(c, d) ==
    /\ d.pwr_up = c.pwr_up /\ d.rf_ch = c.rf_ch /\ d.en_aa = c.en_aa /\ d.retr = c.retr
    /\ d.tx_addr = c.tx_addr /\ d.busy = c.busy /\ d.tx_ds = c.tx_ds /\ d.max_rt = c.max_rt
    /\ d.ce = c.ce /\ d.prim_rx = c.prim_rx /\ d.tx_fifo = c.tx_fifo
    /\ d.en_rxaddr = c.en_rxaddr /\ d.rx_p0 = c.rx_p0 /\ SamePipes(c, d)

(* The packets to send are all that differs.                               *)
SameButTx(c, d) ==
    /\ d.pwr_up = c.pwr_up /\ d.rf_ch = c.rf_ch /\ d.en_aa = c.en_aa
    /\ d.busy = c.busy /\ d.rx_fifo = c.rx_fifo
    /\ d.en_rxaddr = c.en_rxaddr /\ d.rx_p0 = c.rx_p0 /\ SamePipes(c, d)

(* A chip that has received other packets is one.                          *)
LEMMA RxFifoFacts ==
    ASSUME NEW c \in Chip, NEW f \in Seq(Packet)
    PROVE  LET d == [c EXCEPT !.rx_fifo = f] IN
           d \in Chip /\ SameButRx(c, d) /\ d.rx_fifo = f
  BY DEF Chip, SameButRx, SamePipes

(* hal_comm reads a packet.                                                *)
LEMMA ReadStep ==
    ASSUME IInv, NEW p \in Pipe \cup {NoPipe}, PhyRead(p)
    PROVE  /\ Idle /\ chip.rx_fifo # <<>> /\ UNCHANGED <<driver, call, air>>
           /\ chip' \in Chip /\ SameButRx(chip, chip') /\ Len(chip'.rx_fifo) <= RxDepth
           /\ chip'.rx_fifo \in {chip.rx_fifo, Tail(chip.rx_fifo), <<>>}
<1>1. /\ Idle /\ chip.rx_fifo # <<>> /\ UNCHANGED <<driver, call, air>>
  BY DEF PhyRead, PrxPipeAvailable
<1>2. PICK width \in Width : chip' = PrxData(chip, width)
  BY DEF PhyRead
<1>3. /\ chip \in Chip /\ chip.rx_fifo \in Seq(Packet) /\ chip.rx_fifo # <<>>
      /\ Len(chip.rx_fifo) <= RxDepth
  BY <1>1, TypeFacts, ChipFacts
<1>4. PICK f \in {chip.rx_fifo, Tail(chip.rx_fifo), <<>>} :
         PrxData(chip, width) = [chip EXCEPT !.rx_fifo = f]
  <2>1. CASE width = "none"
    BY <2>1, Zenon DEF PrxData
  <2>2. CASE width = "some"
    BY <2>2 DEF PrxData
  <2>3. CASE width = "excess"
    BY <2>3 DEF PrxData
  <2> QED BY <2>1, <2>2, <2>3 DEF Width
<1>5. f \in Seq(Packet) /\ Len(f) <= RxDepth
  <2> DEFINE q == chip.rx_fifo
  <2>1. q \in Seq(Packet) /\ q # <<>> /\ Len(q) <= RxDepth /\ f \in {q, Tail(q), <<>>}
    BY <1>3
  <2> HIDE DEF q
  <2>2. Tail(q) \in Seq(Packet) /\ Len(Tail(q)) <= RxDepth
    BY <2>1, RxAssumption
  <2>3. <<>> \in Seq(Packet) /\ Len(<<>>) <= RxDepth
    BY RxAssumption
  <2> QED BY <2>1, <2>2, <2>3
<1> DEFINE d == [chip EXCEPT !.rx_fifo = f]
<1>6. d \in Chip /\ SameButRx(chip, d) /\ d.rx_fifo = f
  BY <1>3, <1>5, RxFifoFacts
<1>7. chip' = d
  BY <1>2, <1>4
<1> HIDE DEF d
<1> QED BY <1>1, <1>5, <1>6, <1>7

(* The chip receives a packet.                                             *)
LEMMA ReceiveStep ==
    ASSUME IInv, NEW p \in Pipe, Receive(p)
    PROVE  /\ call = NoCall /\ chip.pwr_up /\ chip.ce /\ chip.prim_rx
           /\ p \in chip.en_rxaddr /\ Len(chip.rx_fifo) < RxDepth
           /\ UNCHANGED <<driver, call, air>>
           /\ chip' \in Chip /\ SameButRx(chip, chip') /\ Len(chip'.rx_fifo) <= RxDepth
           /\ chip'.rx_fifo = Append(chip.rx_fifo,
                 [pipe |-> p, addr |-> RxAddr(chip, p), chan |-> chip.rf_ch])
<1>1. /\ chip.pwr_up /\ chip.ce /\ chip.prim_rx
      /\ p \in chip.en_rxaddr /\ Len(chip.rx_fifo) < RxDepth
      /\ UNCHANGED <<driver, call, air>>
  BY DEF Receive
<1>2. call = NoCall
  BY <1>1 DEF IInv, WriteInv
<1>3. chip \in Chip /\ chip.rx_fifo \in Seq(Packet) /\ chip.rf_ch \in AnyChannel
  BY TypeFacts, ChipFacts
<1>4. RxAddr(chip, p) \in AnyAddress
  BY <1>1, <1>2, EnabledFacts, PipeFacts
<1>5. chip' = [chip EXCEPT !.rx_fifo = Append(@,
                  [pipe |-> p, addr |-> RxAddr(chip, p), chan |-> chip.rf_ch])]
  BY DEF Receive
<1> DEFINE packet == [pipe |-> p, addr |-> RxAddr(chip, p), chan |-> chip.rf_ch]
           f == Append(chip.rx_fifo, packet)
           d == [chip EXCEPT !.rx_fifo = f]
<1>6. packet \in Packet
  BY <1>3, <1>4 DEF Packet
<1>7. chip' = d
  BY <1>5, Zenon
<1> HIDE DEF packet
<1>8. f \in Seq(Packet) /\ Len(f) <= RxDepth
  BY <1>1, <1>3, <1>6, RxAssumption
<1> HIDE DEF f
<1>9. d \in Chip /\ SameButRx(chip, d) /\ d.rx_fifo = f
  BY <1>3, <1>8, RxFifoFacts
<1> HIDE DEF d
<1>10. chip'.rx_fifo = Append(chip.rx_fifo, packet)
  BY <1>7, <1>9 DEF f
<1> QED BY <1>1, <1>2, <1>7, <1>8, <1>9, <1>10 DEF packet

(* A user opens the driver.                                                *)
LEMMA PhyOpenStep ==
    ASSUME IInv, PhyOpen
    PROVE  /\ call = NoCall /\ UNCHANGED <<pipe0_open, pipe0_address, call, air>>
           /\ ref_open' = ref_open + 1 /\ ref_open' \in 0..MaxOpen /\ ref_open' > 0
           /\ chip' \in Chip /\ chip'.pwr_up /\ Len(chip'.rx_fifo) <= RxDepth
           /\ ~chip'.busy /\ chip'.tx_fifo = <<>>
           /\ PipesInv'
           /\ chip.pwr_up => chip' = chip
           /\ ~chip.pwr_up => /\ ~chip'.prim_rx /\ ~chip'.ce /\ ~chip'.en_aa
                              /\ chip'.rf_ch = DefaultChannel /\ chip'.en_rxaddr = {}
                              /\ chip'.rx_fifo = <<>>
<1>1. /\ ref_open < MaxOpen /\ call = NoCall /\ ref_open' = ref_open + 1
      /\ chip' = IF ref_open = 0 THEN RadioInit(chip) ELSE chip
      /\ UNCHANGED <<pipe0_open, pipe0_address, call, air>>
  BY DEF PhyOpen
<1>2. /\ chip \in Chip /\ ref_open \in Nat /\ MaxOpen \in Nat /\ Len(chip.rx_fifo) <= RxDepth
      /\ chip.pwr_up \in BOOLEAN
  BY TypeFacts, ChipFacts, OpenAssumption
<1>3. /\ chip.pwr_up <=> ref_open > 0
      /\ ~chip.busy /\ chip.tx_fifo = <<>> /\ PipesInv
  BY <1>1 DEF IInv, PowerInv, IdleInv
<1>4. ref_open' \in 0..MaxOpen /\ ref_open' > 0
  BY <1>1, <1>2
<1>5. CASE ref_open = 0
  <2> DEFINE d == RadioInit(chip)
  <2>1. /\ d \in Chip /\ d.pwr_up /\ ~d.prim_rx /\ ~d.ce /\ ~d.busy /\ ~d.en_aa
        /\ d.rf_ch = DefaultChannel /\ d.en_rxaddr = {}
        /\ d.tx_fifo = <<>> /\ d.rx_fifo = <<>>
    BY <1>2, PowerFacts
  <2>2. chip' = d
    BY <1>1, <1>5
  <2> HIDE DEF d
  <2>3. Len(<<>>) <= RxDepth
    BY RxAssumption
  <2>4. PipesInv'
    BY <1>1, <1>3, <2>1, <2>2 DEF PipesInv
  <2> QED BY <1>1, <1>3, <1>4, <1>5, <2>1, <2>2, <2>3, <2>4
<1>6. CASE ref_open # 0
  <2>1. chip' = chip /\ chip.pwr_up
    BY <1>1, <1>2, <1>3, <1>6
  <2>2. PipesInv'
    BY <1>1, <1>3, <2>1 DEF PipesInv
  <2> QED BY <1>1, <1>2, <1>3, <1>4, <2>1, <2>2
<1> QED BY <1>5, <1>6

(* A user closes the driver.                                               *)
LEMMA PhyCloseStep ==
    ASSUME IInv, PhyClose
    PROVE  /\ Idle /\ UNCHANGED <<pipe0_open, pipe0_address, call, air>>
           /\ ref_open' \in 0..MaxOpen
           /\ chip' \in Chip /\ Len(chip'.rx_fifo) <= RxDepth
           /\ ~chip'.busy /\ chip'.tx_fifo = <<>>
           /\ chip'.pwr_up <=> ref_open' > 0
           /\ chip'.pwr_up => chip' = chip
           /\ Narrowed(chip.en_rxaddr)
<1>1. /\ Idle /\ ref_open' = ref_open - 1
      /\ chip' = IF LastUser THEN RadioDeinit(chip) ELSE chip
      /\ UNCHANGED <<pipe0_open, pipe0_address, call, air>>
  BY DEF PhyClose
<1>2. /\ chip \in Chip /\ ref_open \in 0..MaxOpen /\ ref_open \in Nat /\ MaxOpen \in Nat
      /\ Len(chip.rx_fifo) <= RxDepth
  BY TypeFacts, OpenAssumption
<1>3. ref_open > 0 /\ chip.pwr_up /\ ~chip.busy /\ chip.tx_fifo = <<>>
  BY <1>1, IdleFacts
<1>4. ref_open' \in 0..MaxOpen /\ (ref_open' > 0 <=> ~LastUser)
  BY <1>1, <1>2, <1>3 DEF LastUser
<1>5. CASE LastUser
  <2> DEFINE d == RadioDeinit(chip)
  <2>1. /\ d \in Chip /\ ~d.pwr_up /\ SamePipes(chip, d)
        /\ d.en_rxaddr = chip.en_rxaddr /\ d.rx_p0 = chip.rx_p0
        /\ d.busy = chip.busy /\ d.tx_fifo = chip.tx_fifo /\ d.rx_fifo = chip.rx_fifo
    BY <1>2, PowerFacts
  <2>2. chip' = d
    BY <1>1, <1>5
  <2> HIDE DEF d
  <2> QED BY <1>1, <1>2, <1>3, <1>4, <1>5, <2>1, <2>2 DEF Narrowed
<1>6. CASE ~LastUser
  <2>1. chip' = chip
    BY <1>1, <1>6
  <2> QED BY <1>1, <1>2, <1>3, <1>4, <1>6, <2>1 DEF Narrowed, SamePipes
<1> QED BY <1>5, <1>6

(* A write begins.                                                         *)
LEMMA PhyWriteStep ==
    ASSUME IInv, NEW p \in Pipe, NEW d \in Payload, PhyWrite(p, d)
    PROVE  /\ Idle /\ p \in chip.en_rxaddr /\ UNCHANGED <<driver, air>>
           /\ call' = [pipe |-> p, payload |-> d, full |-> FALSE] /\ call' # NoCall
           /\ chip' \in Chip /\ SamePipes(chip, chip')
           /\ chip'.busy /\ chip'.tx_fifo = <<d>>
           /\ ~chip'.ce /\ ~chip'.prim_rx /\ ~chip'.tx_ds /\ ~chip'.max_rt
           /\ chip'.tx_addr = RxAddr(chip, p) /\ chip'.pwr_up = chip.pwr_up
           /\ chip'.en_aa = chip.en_aa /\ chip'.rf_ch = chip.rf_ch
           /\ chip'.rx_fifo = chip.rx_fifo
           /\ chip'.en_aa <=> chip'.retr # 0
           /\ chip.en_aa => chip'.en_rxaddr = chip.en_rxaddr \cup {0}
                              /\ chip'.rx_p0 = RxAddr(chip, p)
           /\ ~chip.en_aa => chip'.en_rxaddr = chip.en_rxaddr /\ chip'.rx_p0 = chip.rx_p0
<1> DEFINE c == SetPtx(chip, p)
           e == PtxData(c, d)
<1>1. /\ Idle /\ p \in chip.en_rxaddr /\ UNCHANGED <<driver, air>>
      /\ chip' = e
      /\ call' = [pipe |-> p, payload |-> d, full |-> FullAfter(chip)]
  BY DEF PhyWrite
<1>2. chip \in Chip /\ call = NoCall /\ chip.tx_fifo = <<>>
  BY <1>1, TypeFacts, IdleFacts
<1>3. RxAddr(chip, p) \in Address
  BY <1>1, <1>2, EnabledFacts
<1>4. /\ c \in Chip /\ SamePipes(chip, c)
      /\ ~c.ce /\ ~c.prim_rx /\ ~c.tx_ds /\ ~c.max_rt
      /\ c.tx_addr = RxAddr(chip, p) /\ c.pwr_up = chip.pwr_up
      /\ c.en_aa = chip.en_aa /\ c.rf_ch = chip.rf_ch
      /\ c.en_aa <=> c.retr # 0
      /\ c.tx_fifo = chip.tx_fifo /\ c.rx_fifo = chip.rx_fifo
      /\ chip.en_aa => c.en_rxaddr = chip.en_rxaddr \cup {0} /\ c.rx_p0 = RxAddr(chip, p)
      /\ ~chip.en_aa => c.en_rxaddr = chip.en_rxaddr /\ c.rx_p0 = chip.rx_p0
  BY <1>2, <1>3, PtxFacts
<1> HIDE DEF c
<1>5. /\ e.busy /\ e.tx_fifo = <<d>>
      /\ e \in Chip /\ SamePipes(c, e) /\ e.rx_fifo = c.rx_fifo
      /\ e.en_rxaddr = c.en_rxaddr /\ e.rx_p0 = c.rx_p0
      /\ e.ce = c.ce /\ e.prim_rx = c.prim_rx /\ e.tx_ds = c.tx_ds /\ e.max_rt = c.max_rt
      /\ e.tx_addr = c.tx_addr /\ e.pwr_up = c.pwr_up /\ e.retr = c.retr
      /\ e.en_aa = c.en_aa /\ e.rf_ch = c.rf_ch
  BY <1>2, <1>4, PtxDataFacts
<1> HIDE DEF e
<1>6. FullAfter(chip) = FALSE
  <2>1. ~FullAfter(chip)
    BY <1>2, PtxDataFacts
  <2>2. FullAfter(chip) \in BOOLEAN
    BY DEF FullAfter
  <2> QED BY <2>1, <2>2
<1>7. call' = [pipe |-> p, payload |-> d, full |-> FALSE]
  BY <1>1, <1>6
<1>8. call' # NoCall
  BY <1>7, PayloadAssumption DEF NoCall
<1> QED BY <1>1, <1>4, <1>5, <1>7, <1>8 DEF SamePipes

(* The chip transmits: the packet is the one of the write, and it was sent *)
(* or is given up.                                                         *)
LEMMA TransmitStep ==
    ASSUME IInv, Transmit
    PROVE  /\ call # NoCall /\ ~chip.tx_ds /\ ~chip.max_rt /\ UNCHANGED <<driver, call>>
           /\ air' = OnAir /\ chip' \in Chip
           /\ SamePipes(chip, chip') /\ chip'.en_rxaddr = chip.en_rxaddr
           /\ chip'.rx_p0 = chip.rx_p0 /\ chip'.ce = chip.ce /\ chip'.prim_rx = chip.prim_rx
           /\ chip'.pwr_up = chip.pwr_up /\ chip'.rf_ch = chip.rf_ch
           /\ chip'.en_aa = chip.en_aa /\ chip'.retr = chip.retr
           /\ chip'.tx_addr = chip.tx_addr /\ chip'.rx_fifo = chip.rx_fifo
           /\ ~chip'.busy
           /\ \/ chip'.tx_ds /\ ~chip'.max_rt /\ chip'.tx_fifo = <<>>
              \/ ~chip'.tx_ds /\ chip'.max_rt /\ chip.en_aa /\ chip'.tx_fifo = chip.tx_fifo
<1>1. chip.busy /\ UNCHANGED <<driver, call>>
  BY DEF Transmit
<1>2. /\ call # NoCall /\ ~chip.tx_ds /\ ~chip.max_rt /\ chip.tx_fifo = <<call.payload>>
  BY <1>1 DEF IInv, IdleInv, WriteInv
<1>3. chip \in Chip
  BY TypeFacts
<1>4. Head(chip.tx_fifo) = call.payload /\ Tail(chip.tx_fifo) = <<>> /\ <<>> \in Seq(Payload)
  BY <1>2
<1>5. air' = OnAir
  BY <1>4 DEF Transmit, OnAir
<1> DEFINE none == <<>>
           sent == [chip EXCEPT !.busy = FALSE, !.tx_ds = TRUE, !.tx_fifo = none]
           lost == [chip EXCEPT !.busy = FALSE, !.max_rt = TRUE]
<1>6. chip' = sent \/ (chip.en_aa /\ chip' = lost)
  BY <1>4 DEF Transmit
<1>7. CASE chip' = sent
  <2> HIDE DEF none
  <2>1. /\ sent \in Chip /\ SamePipes(chip, sent) /\ sent.en_rxaddr = chip.en_rxaddr
        /\ sent.rx_p0 = chip.rx_p0 /\ sent.ce = chip.ce /\ sent.prim_rx = chip.prim_rx
        /\ sent.pwr_up = chip.pwr_up /\ sent.rf_ch = chip.rf_ch
        /\ sent.en_aa = chip.en_aa /\ sent.retr = chip.retr
        /\ sent.tx_addr = chip.tx_addr /\ sent.rx_fifo = chip.rx_fifo
        /\ ~sent.busy /\ sent.tx_ds /\ sent.max_rt = chip.max_rt /\ sent.tx_fifo = none
    BY <1>3, <1>4 DEF Chip, SamePipes, none
  <2> HIDE DEF sent
  <2> QED BY <1>1, <1>2, <1>5, <1>7, <2>1 DEF none
<1>8. CASE chip.en_aa /\ chip' = lost
  <2>1. /\ lost \in Chip /\ SamePipes(chip, lost) /\ lost.en_rxaddr = chip.en_rxaddr
        /\ lost.rx_p0 = chip.rx_p0 /\ lost.ce = chip.ce /\ lost.prim_rx = chip.prim_rx
        /\ lost.pwr_up = chip.pwr_up /\ lost.rf_ch = chip.rf_ch
        /\ lost.en_aa = chip.en_aa /\ lost.retr = chip.retr
        /\ lost.tx_addr = chip.tx_addr /\ lost.rx_fifo = chip.rx_fifo
        /\ ~lost.busy /\ lost.tx_ds = chip.tx_ds /\ lost.max_rt /\ lost.tx_fifo = chip.tx_fifo
    BY <1>3 DEF Chip, SamePipes
  <2> HIDE DEF lost
  <2> QED BY <1>1, <1>2, <1>5, <1>8, <2>1
<1> QED BY <1>6, <1>7, <1>8

(* A write returns.                                                        *)
LEMMA PhyWriteEndStep ==
    ASSUME IInv, PhyWriteEnd
    PROVE  /\ call # NoCall /\ ~chip.busy /\ (chip.tx_ds \/ chip.max_rt)
           /\ call' = NoCall /\ air' = NoAir /\ UNCHANGED driver
           /\ chip' \in Chip /\ SamePipes(chip, chip') /\ chip'.ce /\ chip'.prim_rx
           /\ ~chip'.busy /\ chip'.tx_fifo = <<>> /\ chip'.rx_fifo = chip.rx_fifo
           /\ chip'.pwr_up = chip.pwr_up /\ chip'.rf_ch = chip.rf_ch
           /\ chip'.en_aa = chip.en_aa
           /\ chip'.en_rxaddr = IF pipe0_open THEN chip.en_rxaddr ELSE chip.en_rxaddr \ {0}
           /\ pipe0_open => chip'.rx_p0 = pipe0_address
           /\ PipesInv'
<1> DEFINE o == IF call.full THEN chip ELSE WaitDatasent(chip)
<1>1. /\ call # NoCall /\ Settled /\ call' = NoCall /\ air' = NoAir /\ UNCHANGED driver
      /\ chip' = SetPrx(o, pipe0_open, pipe0_address)
  BY DEF PhyWriteEnd
<1>2. /\ ~call.full /\ ~chip.busy /\ (chip.tx_ds \/ chip.max_rt)
      /\ chip.max_rt \/ chip.tx_fifo = <<>>
  BY <1>1 DEF IInv, WriteInv, Settled
<1>3. chip \in Chip /\ pipe0_open \in BOOLEAN /\ pipe0_address \in AnyAddress
  BY TypeFacts
<1>4. /\ o \in Chip /\ SameButTx(chip, o) /\ o.tx_fifo = <<>>
  <2>1. CASE chip.max_rt
    <3> DEFINE none == <<>>
               d == [chip EXCEPT !.tx_fifo = none]
    <3>1. o = d
      <4>1. o = WaitDatasent(chip)
        BY <1>2, Zenon
      <4>2. WaitDatasent(chip) = [chip EXCEPT !.tx_fifo = <<>>]
        BY <2>1, Zenon DEF WaitDatasent
      <4> HIDE DEF o
      <4> QED BY <4>1, <4>2
    <3>2. none \in Seq(Payload)
      OBVIOUS
    <3> HIDE DEF none, o
    <3>3. d \in Chip /\ SameButTx(chip, d) /\ d.tx_fifo = none
      BY <1>3, <3>2 DEF Chip, SameButTx, SamePipes
    <3> HIDE DEF d
    <3> QED BY <3>1, <3>3 DEF none
  <2>2. CASE ~chip.max_rt
    <3>1. o = chip
      BY <1>2, <2>2 DEF WaitDatasent
    <3> HIDE DEF o
    <3> QED BY <1>2, <1>3, <2>2, <3>1 DEF SameButTx, SamePipes
  <2> QED BY <2>1, <2>2
<1> HIDE DEF o
<1>5. /\ pipe0_open' = pipe0_open /\ pipe0_address' = pipe0_address
      /\ pipe0_open' \in BOOLEAN /\ pipe0_address' \in AnyAddress
      /\ chip' = SetPrx(o, pipe0_open', pipe0_address')
  BY <1>1, <1>3 DEF driver
<1>6. /\ chip' \in Chip /\ SameRadio(o, chip') /\ SamePipes(o, chip')
      /\ chip'.ce = TRUE /\ chip'.prim_rx = TRUE
      /\ chip'.en_rxaddr = IF pipe0_open' THEN o.en_rxaddr ELSE o.en_rxaddr \ {0}
      /\ chip'.rx_p0 = IF pipe0_open' THEN pipe0_address' ELSE o.rx_p0
  BY <1>4, <1>5, PrxThen
<1>7. /\ SamePipes(chip, chip') /\ chip'.rx_fifo = chip.rx_fifo
      /\ chip'.tx_fifo = <<>> /\ ~chip'.busy
      /\ chip'.pwr_up = chip.pwr_up /\ chip'.rf_ch = chip.rf_ch /\ chip'.en_aa = chip.en_aa
  BY <1>2, <1>4, <1>6 DEF SameRadio, SameButTx, SamePipes
<1>8. /\ chip'.en_rxaddr = IF pipe0_open THEN chip.en_rxaddr ELSE chip.en_rxaddr \ {0}
      /\ pipe0_open => chip'.rx_p0 = pipe0_address
  BY <1>4, <1>5, <1>6 DEF SameButTx
<1>9. PipesInv'
  <2>1. /\ pipe0_open => 0 \in chip.en_rxaddr
        /\ pipe0_open => pipe0_address \in Address
        /\ chip.en_rxaddr \ {0} # {} => chip.rx_p1 \in Address
    BY <1>1 DEF IInv, PipesInv
  <2> QED BY <1>1, <1>5, <1>7, <1>8, <2>1 DEF PipesInv, SamePipes
<1> QED BY <1>1, <1>2, <1>6, <1>7, <1>8, <1>9

---------------------------------------------------------------------------
(* The invariant.                                                          *)

(* A step from one moment between two writes to another.                   *)
LEMMA StaysIdle ==
    ASSUME IInv, call = NoCall, call' = NoCall, UNCHANGED air,
           chip' \in Chip, Len(chip'.rx_fifo) <= RxDepth, ~chip'.busy, chip'.tx_fifo = <<>>,
           ref_open' \in 0..MaxOpen, chip'.pwr_up <=> ref_open' > 0,
           pipe0_open' \in BOOLEAN, pipe0_address' \in AnyAddress, PipesInv'
    PROVE  IInv'
<1>1. Len(chip'.tx_fifo) <= TxDepth
  BY TxAssumption
<1>2. /\ call' \in [pipe : Pipe, payload : Payload \cup {0}, full : BOOLEAN]
      /\ air' \in Aired /\ air' = NoAir
  BY TypeFacts DEF IInv, IdleInv
<1>3. TypeOK'
  BY <1>1, <1>2 DEF TypeOK
<1>4. PowerInv' /\ IdleInv' /\ WriteInv'
  BY <1>2 DEF PowerInv, IdleInv, WriteInv
<1> QED BY <1>3, <1>4 DEF IInv

(* A step that also leaves the driver and the pipes as they are.           *)
LEMMA StaysConfigured ==
    ASSUME IInv, Idle, UNCHANGED <<driver, call, air>>,
           chip' \in Chip, Len(chip'.rx_fifo) <= RxDepth, ~chip'.busy, chip'.tx_fifo = <<>>,
           chip'.pwr_up = chip.pwr_up, Narrowed(chip.en_rxaddr)
    PROVE  IInv'
<1>1. UNCHANGED <<ref_open, pipe0_open, pipe0_address, call, air>> /\ call = NoCall
  BY DEF driver, Idle
<1>2. PipesInv'
  BY <1>1, SamePipesInv DEF IInv
<1>3. chip.pwr_up <=> ref_open > 0
  BY DEF IInv, PowerInv
<1>4. /\ ref_open \in 0..MaxOpen /\ pipe0_open \in BOOLEAN /\ pipe0_address \in AnyAddress
  BY TypeFacts
<1> QED BY <1>1, <1>2, <1>3, <1>4, StaysIdle

(* The chip as it is powered on.                                           *)
LEMMA InitInv == Init => IInv
<1> SUFFICES ASSUME Init PROVE IInv
  OBVIOUS
<1>1. /\ chip = PoweredOff /\ ref_open = 0 /\ pipe0_open = FALSE /\ pipe0_address = Unset
      /\ call = NoCall /\ air = NoAir
  BY DEF Init
<1>2. /\ 0 \in Pipe /\ Unset \in AnyAddress /\ DefaultChannel \in AnyChannel
      /\ 0 \in 0..(PipeMax + 1) /\ 0 \in 0..MaxOpen /\ PipeMax \in Nat
  BY PipeFacts, OpenAssumption DEF AnyChannel
<1>3. /\ <<>> \in Seq(Payload) /\ <<>> \in Seq(Packet)
      /\ Len(<<>>) <= TxDepth /\ Len(<<>>) <= RxDepth
  BY TxAssumption, RxAssumption
<1> DEFINE last == [p \in 2..PipeMax |-> 0]
<1>4. last \in [2..PipeMax -> Pipe]
  BY <1>2
<1>5. /\ chip \in Chip /\ ~chip.busy /\ chip.tx_fifo = <<>> /\ chip.rx_fifo = <<>>
      /\ chip.pwr_up = FALSE /\ chip.en_rxaddr = {}
  <2>1. chip =
          [pwr_up |-> FALSE, prim_rx |-> FALSE, ce |-> FALSE, busy |-> FALSE,
           rf_ch |-> DefaultChannel, en_aa |-> FALSE, retr |-> 0, en_rxaddr |-> {},
           rx_p0 |-> Unset, rx_p1 |-> Unset, rx_last |-> last,
           tx_addr |-> Unset, tx_ds |-> FALSE, max_rt |-> FALSE,
           tx_fifo |-> <<>>, rx_fifo |-> <<>>]
    BY <1>1 DEF PoweredOff
  <2> HIDE DEF last
  <2> QED BY <1>2, <1>3, <1>4, <2>1 DEF Chip
<1>6. call \in [pipe : Pipe, payload : Payload \cup {0}, full : BOOLEAN]
  BY <1>1, <1>2 DEF NoCall
<1>7. air \in Aired
  BY <1>1, <1>2 DEF NoAir, Aired
<1>8. TypeOK
  BY <1>1, <1>2, <1>3, <1>5, <1>6, <1>7 DEF TypeOK
<1>9. PowerInv /\ IdleInv /\ WriteInv /\ PipesInv
  BY <1>1, <1>5 DEF PowerInv, IdleInv, WriteInv, PipesInv
<1> QED BY <1>8, <1>9 DEF IInv

(* A write keeps the invariant when it begins, when the chip transmits and *)
(* when it returns.                                                        *)
LEMMA WriteKeeps ==
    ASSUME IInv, NEW p \in Pipe, NEW d \in Payload, PhyWrite(p, d)
    PROVE  IInv'
<1>1. /\ Idle /\ p \in chip.en_rxaddr /\ UNCHANGED <<driver, air>>
      /\ call' = [pipe |-> p, payload |-> d, full |-> FALSE] /\ call' # NoCall
      /\ chip' \in Chip /\ SamePipes(chip, chip')
      /\ chip'.busy /\ chip'.tx_fifo = <<d>>
      /\ ~chip'.ce /\ ~chip'.prim_rx /\ ~chip'.tx_ds /\ ~chip'.max_rt
      /\ chip'.tx_addr = RxAddr(chip, p) /\ chip'.pwr_up = chip.pwr_up
      /\ chip'.en_aa = chip.en_aa /\ chip'.rf_ch = chip.rf_ch
      /\ chip'.rx_fifo = chip.rx_fifo
      /\ chip'.en_aa <=> chip'.retr # 0
      /\ chip.en_aa => chip'.en_rxaddr = chip.en_rxaddr \cup {0}
                         /\ chip'.rx_p0 = RxAddr(chip, p)
      /\ ~chip.en_aa => chip'.en_rxaddr = chip.en_rxaddr /\ chip'.rx_p0 = chip.rx_p0
  BY PhyWriteStep
<1>2. /\ call = NoCall /\ ref_open > 0 /\ air = NoAir
      /\ pipe0_open => 0 \in chip.en_rxaddr \/ chip.en_rxaddr = {}
  BY <1>1, IdleFacts
<1>3. UNCHANGED <<ref_open, pipe0_open, pipe0_address>>
  BY <1>1 DEF driver
<1>4. /\ Len(<<d>>) <= TxDepth /\ d \in Payload \cup {0}
  BY TxAssumption
<1>5. call' \in [pipe : Pipe, payload : Payload \cup {0}, full : BOOLEAN]
        /\ call'.payload = d /\ call'.full = FALSE
  BY <1>1, <1>4
<1>6. TypeOK'
  BY <1>1, <1>3, <1>4, <1>5, TypeFacts DEF TypeOK
<1>7. PowerInv' /\ IdleInv'
  BY <1>1, <1>2, <1>3 DEF IInv, PowerInv, IdleInv
<1>8. WriteInv'
  BY <1>1, <1>2, <1>5 DEF WriteInv, HearsAnswer
<1>9. PipesInv'
  BY <1>1, <1>2, <1>3 DEF IInv, PipesInv, SamePipes
<1> QED BY <1>6, <1>7, <1>8, <1>9 DEF IInv

(* The chip transmits.                                                     *)
LEMMA TransmitKeeps ==
    ASSUME IInv, Transmit
    PROVE  IInv'
<1>1. /\ call # NoCall /\ ~chip.tx_ds /\ ~chip.max_rt /\ UNCHANGED <<driver, call>>
      /\ air' = OnAir /\ chip' \in Chip
      /\ SamePipes(chip, chip') /\ chip'.en_rxaddr = chip.en_rxaddr
      /\ chip'.rx_p0 = chip.rx_p0 /\ chip'.ce = chip.ce /\ chip'.prim_rx = chip.prim_rx
      /\ chip'.pwr_up = chip.pwr_up /\ chip'.rf_ch = chip.rf_ch
      /\ chip'.en_aa = chip.en_aa /\ chip'.retr = chip.retr
      /\ chip'.tx_addr = chip.tx_addr /\ chip'.rx_fifo = chip.rx_fifo
      /\ ~chip'.busy
      /\ \/ chip'.tx_ds /\ ~chip'.max_rt /\ chip'.tx_fifo = <<>>
         \/ ~chip'.tx_ds /\ chip'.max_rt /\ chip.en_aa /\ chip'.tx_fifo = chip.tx_fifo
  BY TransmitStep
<1>2. UNCHANGED <<ref_open, pipe0_open, pipe0_address, call>>
  BY <1>1 DEF driver
<1>3. /\ ~chip.prim_rx /\ ~chip.ce /\ ~call.full
      /\ chip.en_aa => HearsAnswer(chip)
      /\ chip.en_aa <=> chip.retr # 0
      /\ chip.tx_fifo = <<call.payload>>
  BY <1>1 DEF IInv, WriteInv
<1>4. air' \in Aired /\ OnAir' = OnAir
  BY <1>1, <1>2, TypeFacts, ChipFacts DEF OnAir, Aired
<1>5. Len(chip'.tx_fifo) <= TxDepth
  BY <1>1, TypeFacts, TxAssumption
<1>6. TypeOK'
  BY <1>1, <1>2, <1>4, <1>5, TypeFacts DEF TypeOK
<1>7. PowerInv' /\ IdleInv'
  BY <1>1, <1>2 DEF IInv, PowerInv, IdleInv
<1>8. WriteInv'
  BY <1>1, <1>2, <1>3, <1>4 DEF WriteInv, HearsAnswer
<1>9. PipesInv'
  BY <1>1, <1>2 DEF IInv, PipesInv, SamePipes
<1> QED BY <1>6, <1>7, <1>8, <1>9 DEF IInv

(* A write returns.                                                        *)
LEMMA ReturnKeeps ==
    ASSUME IInv, PhyWriteEnd
    PROVE  IInv'
<1>1. /\ call # NoCall /\ call' = NoCall /\ air' = NoAir /\ UNCHANGED driver
      /\ chip' \in Chip /\ ~chip'.busy /\ chip'.tx_fifo = <<>>
      /\ chip'.rx_fifo = chip.rx_fifo /\ chip'.pwr_up = chip.pwr_up /\ PipesInv'
  BY PhyWriteEndStep
<1>2. UNCHANGED <<ref_open, pipe0_open, pipe0_address>>
  BY <1>1 DEF driver
<1>3. Len(<<>>) <= TxDepth
  BY TxAssumption
<1>4. call' \in [pipe : Pipe, payload : Payload \cup {0}, full : BOOLEAN]
  BY <1>1, PipeFacts DEF NoCall
<1>5. air' \in Aired
  BY <1>1, PipeFacts DEF NoAir, Aired, AnyChannel
<1>6. TypeOK'
  BY <1>1, <1>2, <1>3, <1>4, <1>5, TypeFacts DEF TypeOK
<1>7. PowerInv' /\ IdleInv' /\ WriteInv'
  BY <1>1, <1>2 DEF IInv, PowerInv, IdleInv, WriteInv
<1> QED BY <1>1, <1>6, <1>7 DEF IInv

(* Every step keeps the invariant.                                         *)
LEMMA NextKeeps ==
    ASSUME IInv, [Next]_vars
    PROVE  IInv'
<1>1. CASE PhyOpen
  <2>1. pipe0_open' \in BOOLEAN /\ pipe0_address' \in AnyAddress
    BY <1>1, PhyOpenStep, TypeFacts
  <2> QED BY <1>1, <2>1, PhyOpenStep, StaysIdle
<1>2. CASE PhyClose
  <2>1. /\ call = NoCall /\ call' = NoCall /\ UNCHANGED <<pipe0_open, pipe0_address, air>>
    BY <1>2, PhyCloseStep DEF Idle
  <2>2. pipe0_open' \in BOOLEAN /\ pipe0_address' \in AnyAddress
    BY <2>1, TypeFacts
  <2>3. PipesInv'
    BY <1>2, <2>1, PhyCloseStep, SamePipesInv DEF IInv
  <2> QED BY <1>2, <2>1, <2>2, <2>3, PhyCloseStep, StaysIdle
<1>3. CASE IoctlStandby
  <2>1. /\ Idle /\ UNCHANGED <<driver, call, air>>
        /\ chip' \in Chip /\ SameRadio(chip, chip')
        /\ Narrowed(chip.en_rxaddr)
    BY <1>3, StandbyStep
  <2> QED BY <2>1, IdleFacts, TypeFacts, StaysConfigured DEF SameRadio
<1>4. CASE PhyWriteEnd
  BY <1>4, ReturnKeeps
<1>5. CASE Transmit
  BY <1>5, TransmitKeeps
<1>6. ASSUME NEW p \in Pipe, IoctlResetPipe(p)
      PROVE  IInv'
  <2>1. /\ Idle /\ UNCHANGED <<ref_open, call, air>>
        /\ chip' \in Chip /\ SameRadio(chip, chip')
        /\ pipe0_open' \in BOOLEAN /\ pipe0_address' = pipe0_address
        /\ PipesInv'
    BY <1>6, ResetPipeStep
  <2>2. /\ call = NoCall /\ call' = NoCall /\ ~chip.busy /\ chip.tx_fifo = <<>>
        /\ chip.pwr_up <=> ref_open > 0
    BY <2>1, IdleFacts DEF IInv, PowerInv
  <2> QED BY <2>1, <2>2, TypeFacts, StaysIdle DEF SameRadio
<1>7. ASSUME NEW p \in Pipe \cup {NoPipe}, PhyRead(p)
      PROVE  IInv'
  <2>1. /\ Idle /\ UNCHANGED <<driver, call, air>>
        /\ chip' \in Chip /\ SameButRx(chip, chip') /\ Len(chip'.rx_fifo) <= RxDepth
    BY <1>7, ReadStep
  <2> QED BY <2>1, IdleFacts, StaysConfigured DEF SameButRx, Narrowed
<1>8. ASSUME NEW p \in Pipe, Receive(p)
      PROVE  IInv'
  <2>1. /\ call = NoCall /\ chip.pwr_up /\ UNCHANGED <<driver, call, air>>
        /\ chip' \in Chip /\ SameButRx(chip, chip') /\ Len(chip'.rx_fifo) <= RxDepth
    BY <1>8, ReceiveStep
  <2>2. Idle
    BY <2>1 DEF IInv, PowerInv, Idle
  <2> QED BY <2>1, <2>2, IdleFacts, StaysConfigured DEF SameButRx, Narrowed
<1>9. ASSUME NEW p \in Pipe, NEW a \in Address, IoctlSetPipe(p, a)
      PROVE  IInv'
  <2>1. /\ Idle /\ UNCHANGED <<ref_open, call, air>>
        /\ chip' \in Chip /\ SameRadio(chip, chip')
        /\ pipe0_open' \in BOOLEAN /\ pipe0_address' \in AnyAddress
        /\ PipesInv'
    BY <1>9, SetPipeStep
  <2>2. /\ call = NoCall /\ call' = NoCall /\ ~chip.busy /\ chip.tx_fifo = <<>>
        /\ chip.pwr_up <=> ref_open > 0
    BY <2>1, IdleFacts DEF IInv, PowerInv
  <2> QED BY <2>1, <2>2, TypeFacts, StaysIdle DEF SameRadio
<1>10. ASSUME NEW ch \in Channel, NEW ack \in BOOLEAN, IoctlSetChannel(ch, ack)
       PROVE  IInv'
  BY <1>10, SetChannelStep, StaysConfigured
<1>11. ASSUME NEW p \in Pipe, NEW d \in Payload, PhyWrite(p, d)
       PROVE  IInv'
  BY <1>11, WriteKeeps
<1>12. CASE UNCHANGED vars
  BY <1>12 DEF vars, driver, IInv, TypeOK, PowerInv, IdleInv, WriteInv, PipesInv, OnAir, HearsAnswer
<1> QED
  BY <1>1, <1>2, <1>3, <1>4, <1>5, <1>6, <1>7, <1>8, <1>9, <1>10, <1>11, <1>12 DEF Next

(* The invariant of the driver.                                            *)
THEOREM Invariance == Spec => []IInv
<1>1. Init => IInv
  BY InitInv
<1>2. IInv /\ [Next]_vars => IInv'
  BY NextKeeps
<1> QED BY <1>1, <1>2, PTL DEF Spec

(* Types, and the FIFOs of the chip never hold more than they can          *)
(* (nrf24l01_ptx_data, the RX FIFO of the chip).                           *)
THEOREM TypeCorrect == Spec => []TypeOK
<1>1. IInv => TypeOK
  BY DEF IInv
<1> QED BY <1>1, Invariance, PTL

(* While the chip transmits with acknowledgement, pipe 0 listens to the    *)
(* address transmitted to, whatever pipe the write is on and whatever was  *)
(* opened and closed before (nrf24l01_set_ptx).                            *)
THEOREM AnswerAlwaysHeard == Spec => []AnswerHeard
<1>1. IInv => AnswerHeard
  BY DEF IInv, IdleInv, WriteInv, AnswerHeard
<1> QED BY <1>1, Invariance, PTL

(* Every write starts with an empty TX FIFO, also after a packet that was  *)
(* given up (nrf24l01_ptx_wait_datasent).                                  *)
THEOREM NeverLeftToSend == Spec => []NothingLeftToSend
<1>1. IInv => NothingLeftToSend
  BY DEF IInv, IdleInv, WriteInv, NothingLeftToSend, NoCall
<1> QED BY <1>1, Invariance, PTL

(* A write reported as sent has put its own packet on the air, to the      *)
(* address of its pipe (nrf24l01_set_ptx clears the status of the write    *)
(* before).                                                                *)
THEOREM SentAlwaysOwn == Spec => []SentIsOwn
<1>1. IInv => SentIsOwn
  BY DEF IInv, WriteInv, OnAir, SentIsOwn
<1> QED BY <1>1, Invariance, PTL

---------------------------------------------------------------------------
(* The driver implements the radio of the link layer.                      *)

AllOpen == [p \in Pipe |-> Open(p)]
Chan == IF ~chip.pwr_up THEN DefaultChannel ELSE chip.rf_ch
Ack == chip.pwr_up /\ chip.en_aa
Listening == chip.pwr_up /\ chip.ce /\ chip.prim_rx
Fifo == IF ~chip.pwr_up THEN <<>> ELSE chip.rx_fifo
Sending == IF call = NoCall THEN NoAir ELSE OnAir

(* A driver nobody has opened has no pipe open.                            *)
LEMMA ClosedNow ==
    ASSUME ~chip.pwr_up
    PROVE  AllOpen = [p \in Pipe |-> Unset]
  BY Zenon DEF AllOpen, Open

(* The same after a step.                                                  *)
LEMMA ClosedThen ==
    ASSUME ~chip'.pwr_up
    PROVE  AllOpen' = [p \in Pipe |-> Unset]
  BY Zenon DEF AllOpen, Open

(* The chip as it is powered on is a radio that is off.                    *)
LEMMA InitMaps == Init => Phy!Init
<1> SUFFICES ASSUME Init PROVE Phy!Init
  OBVIOUS
<1>1. chip.pwr_up = FALSE /\ call = NoCall
  BY DEF Init, PoweredOff
<1>2. AllOpen = Phy!Closed
  BY <1>1, ClosedNow DEF Phy!Closed
<1>3. Outcome = "none"
  BY <1>1 DEF Outcome
<1> QED BY <1>1, <1>2, <1>3 DEF Phy!Init, Phy!NoPacket, NoAir, AllOpen

(* A step from one moment between two writes to another starts and ends    *)
(* without a packet to send.                                               *)
LEMMA IdleMaps ==
    ASSUME call = NoCall, call' = NoCall
    PROVE  /\ Outcome = "none" /\ Outcome' = "none"
           /\ Sending = NoAir /\ Sending' = NoAir
  BY DEF Outcome, Sending

(* The first user of the driver turns the radio on, another one does not   *)
(* touch it.                                                               *)
LEMMA PhyOpenMaps ==
    ASSUME IInv, PhyOpen
    PROVE  Phy!Start \/ UNCHANGED Phy!vars
<1>1. /\ call = NoCall /\ call' = NoCall /\ chip \in Chip /\ chip' \in Chip /\ chip'.pwr_up
      /\ chip.pwr_up => chip' = chip
      /\ ~chip.pwr_up => /\ ~chip'.prim_rx /\ ~chip'.ce /\ ~chip'.en_aa
                         /\ chip'.rf_ch = DefaultChannel /\ chip'.en_rxaddr = {}
                         /\ chip'.rx_fifo = <<>>
      /\ UNCHANGED <<pipe0_open, pipe0_address>>
  BY PhyOpenStep, TypeFacts
<1>2. /\ Outcome = "none" /\ Outcome' = "none"
      /\ Sending = NoAir /\ Sending' = NoAir
  BY <1>1, IdleMaps
<1>3. CASE chip.pwr_up
  <2>1. chip' = chip
    BY <1>1, <1>3
  <2>2. AllOpen' = AllOpen
    BY <1>1, <2>1 DEF AllOpen, Open, Pipe0Address
  <2> QED BY <1>1, <1>2, <2>1, <2>2 DEF Phy!vars, AllOpen, Sending
<1>4. CASE ~chip.pwr_up
  <2>1. AllOpen = [p \in Pipe |-> Unset]
    BY <1>4, ClosedNow
  <2>2. \A p \in Pipe : Open(p)' = Unset
    BY <1>1, <1>4, OpenThen
  <2>3. AllOpen' = AllOpen
    BY <2>1, <2>2 DEF AllOpen
  <2>4. /\ Chan' = Chan /\ Ack' = Ack /\ Listening' = Listening /\ Fifo' = Fifo
    BY <1>1, <1>4 DEF Chan, Ack, Listening, Fifo
  <2>5. ~chip.pwr_up /\ chip'.pwr_up = TRUE
    BY <1>1, <1>4, ChipFacts
  <2> QED BY <1>2, <2>3, <2>4, <2>5
          DEF Phy!Start, AllOpen, Chan, Ack, Listening, Fifo, Sending, OnAir
<1> QED BY <1>3, <1>4

(* A step that leaves the driver powered, the pipes and the packet to send *)
(* alone, as the link layer sees it.                                       *)
LEMMA ConfiguredMaps ==
    ASSUME IInv, Idle, UNCHANGED <<driver, call, air>>,
           chip' \in Chip, chip'.pwr_up = chip.pwr_up, Narrowed(chip.en_rxaddr)
    PROVE  /\ chip.pwr_up /\ chip'.pwr_up
           /\ AllOpen' = AllOpen /\ Outcome = "none" /\ Outcome' = "none" /\ Sending' = Sending
<1>1. call = NoCall /\ call' = NoCall /\ chip.pwr_up
  BY IdleFacts
<1>2. chip \in Chip
  BY TypeFacts
<1>3. \A q \in Pipe : Open(q)' = Open(q)
  BY <1>1, <1>2, NarrowedOpen, OpenNow
<1> QED BY <1>1, <1>3, IdleMaps DEF AllOpen

(* The last user of the driver turns the radio off.                        *)
LEMMA PhyCloseMaps ==
    ASSUME IInv, PhyClose
    PROVE  Phy!Stop \/ UNCHANGED Phy!vars
<1>1. /\ Idle /\ UNCHANGED <<pipe0_open, pipe0_address, call, air>>
      /\ chip' \in Chip /\ (chip'.pwr_up => chip' = chip)
  BY PhyCloseStep
<1>2. call = NoCall /\ call' = NoCall /\ chip.pwr_up
  BY <1>1, IdleFacts
<1>3. /\ Outcome = "none" /\ Outcome' = "none"
      /\ Sending = NoAir /\ Sending' = NoAir
  BY <1>2, IdleMaps
<1>4. CASE chip'.pwr_up
  <2>1. chip' = chip
    BY <1>1, <1>4
  <2>2. AllOpen' = AllOpen
    BY <1>1, <2>1 DEF AllOpen, Open, Pipe0Address
  <2> QED BY <1>1, <1>3, <2>1, <2>2 DEF Phy!vars, AllOpen, Sending
<1>5. CASE ~chip'.pwr_up
  <2>1. AllOpen' = Phy!Closed
    BY <1>5, ClosedThen DEF Phy!Closed
  <2>2. chip'.pwr_up = FALSE
    BY <1>1, <1>5, ChipFacts
  <2> QED BY <1>2, <1>3, <1>5, <2>1, <2>2
          DEF Phy!Stop, Phy!Idle, AllOpen, Sending, OnAir
<1> QED BY <1>4, <1>5

(* Standby stops reception.                                                *)
LEMMA StandbyMaps ==
    ASSUME IInv, IoctlStandby
    PROVE  Phy!Standby
<1>1. /\ Idle /\ UNCHANGED <<driver, call, air>>
      /\ chip' \in Chip /\ SameRadio(chip, chip') /\ ~chip'.ce
      /\ Narrowed(chip.en_rxaddr)
  BY StandbyStep
<1>2. /\ chip.pwr_up /\ chip'.pwr_up
      /\ AllOpen' = AllOpen /\ Outcome = "none" /\ Outcome' = "none" /\ Sending' = Sending
  BY <1>1, ConfiguredMaps DEF SameRadio
<1> QED BY <1>1, <1>2
        DEF Phy!Standby, Phy!Idle, Phy!config, SameRadio, AllOpen, Sending, OnAir

(* A channel beyond the range of the chip is ignored, another one drops    *)
(* what was received on the channel before.                                *)
LEMMA SetChannelMaps ==
    ASSUME IInv, NEW ch \in Channel, NEW ack \in BOOLEAN, IoctlSetChannel(ch, ack)
    PROVE  Phy!SetChannel(ch, ack)
<1>1. /\ Idle /\ UNCHANGED <<driver, call, air>>
      /\ chip' \in Chip /\ chip'.ce /\ chip'.prim_rx /\ chip'.pwr_up = chip.pwr_up
      /\ Narrowed(chip.en_rxaddr)
      /\ ch \in InvalidChannel =>
            chip'.rf_ch = chip.rf_ch /\ chip'.en_aa = chip.en_aa /\ chip'.rx_fifo = chip.rx_fifo
      /\ ch \notin InvalidChannel =>
            /\ chip'.rf_ch = ch /\ chip'.en_aa = ack
            /\ chip'.rx_fifo = IF ch = chip.rf_ch THEN chip.rx_fifo ELSE <<>>
  BY SetChannelStep
<1>2. /\ chip.pwr_up /\ chip'.pwr_up
      /\ AllOpen' = AllOpen /\ Outcome = "none" /\ Outcome' = "none" /\ Sending' = Sending
  BY <1>1, ConfiguredMaps
<1>3. Listening' = TRUE
  BY <1>1, <1>2 DEF Listening
<1>4. IF ch \in InvalidChannel THEN UNCHANGED <<Chan, Ack, Fifo>>
      ELSE Chan' = ch /\ Ack' = ack /\ Fifo' = IF ch = Chan THEN Fifo ELSE <<>>
  <2>1. CASE ch \in InvalidChannel
    BY <1>1, <1>2, <2>1 DEF Chan, Ack, Fifo
  <2>2. CASE ch \notin InvalidChannel
    <3>1. Chan = chip.rf_ch /\ Fifo = chip.rx_fifo
      BY <1>2 DEF Chan, Fifo
    <3>2. Chan' = chip'.rf_ch /\ Fifo' = chip'.rx_fifo /\ (Ack' <=> chip'.en_aa)
      BY <1>2 DEF Chan, Fifo, Ack
    <3>3. Ack' = ack
      BY <1>1, <2>2, <3>2 DEF Ack
    <3> QED BY <1>1, <2>2, <3>1, <3>2, <3>3
  <2> QED BY <2>1, <2>2
<1> QED BY <1>1, <1>2, <1>3, <1>4
        DEF Phy!SetChannel, Phy!Idle, AllOpen, Chan, Ack, Listening, Fifo, Sending, OnAir

(* A pipe that is opened gets its address, unless it has one.              *)
LEMMA SetPipeMaps ==
    ASSUME IInv, NEW p \in Pipe, NEW a \in Address, IoctlSetPipe(p, a)
    PROVE  Phy!SetPipe(p, a)
<1>1. /\ Idle /\ UNCHANGED <<ref_open, call, air>>
      /\ SameRadio(chip, chip') /\ chip'.ce /\ chip'.prim_rx
      /\ \A q \in Pipe : Open(q)' = IF q = p /\ Open(q) = Unset THEN a ELSE Open(q)
  BY SetPipeStep
<1>2. call = NoCall /\ call' = NoCall /\ chip.pwr_up /\ chip'.pwr_up
  BY <1>1, IdleFacts DEF SameRadio
<1>3. /\ Outcome = "none" /\ Outcome' = "none"
      /\ Sending = NoAir /\ Sending' = NoAir
  BY <1>2, IdleMaps
<1>4. AllOpen' = [AllOpen EXCEPT ![p] = IF @ = Unset THEN a ELSE @]
  <2> DEFINE opened == [AllOpen EXCEPT ![p] = IF @ = Unset THEN a ELSE @]
  <2>1. \A q \in Pipe : opened[q] = IF q = p /\ Open(q) = Unset THEN a ELSE Open(q)
    BY DEF AllOpen
  <2>2. AllOpen' = [q \in Pipe |-> Open(q)'] /\ opened = [q \in Pipe |-> opened[q]]
    BY DEF AllOpen
  <2> HIDE DEF opened
  <2>3. AllOpen' = opened
    BY <1>1, <2>1, <2>2
  <2> QED BY <2>3 DEF opened
<1>5. Listening' = TRUE
  BY <1>1, <1>2 DEF Listening
<1>6. Chan' = Chan /\ Ack' = Ack /\ Fifo' = Fifo
  BY <1>1 DEF SameRadio, Chan, Ack, Fifo
<1> QED BY <1>1, <1>2, <1>3, <1>4, <1>5, <1>6
        DEF Phy!SetPipe, Phy!Idle, AllOpen, Chan, Ack, Listening, Fifo, Sending, OnAir

(* A pipe that is closed has no address.                                   *)
LEMMA ResetPipeMaps ==
    ASSUME IInv, NEW p \in Pipe, IoctlResetPipe(p)
    PROVE  Phy!ResetPipe(p)
<1>1. /\ Idle /\ UNCHANGED <<ref_open, call, air>>
      /\ chip' \in Chip /\ SameRadio(chip, chip') /\ chip'.ce /\ chip'.prim_rx
      /\ Narrowed(chip.en_rxaddr \ {p})
  BY ResetPipeStep
<1>2. call = NoCall /\ call' = NoCall /\ chip.pwr_up /\ chip'.pwr_up
  BY <1>1, IdleFacts DEF SameRadio
<1>3. /\ Outcome = "none" /\ Outcome' = "none"
      /\ Sending = NoAir /\ Sending' = NoAir
  BY <1>2, IdleMaps
<1>4. chip \in Chip
  BY TypeFacts
<1>5. \A q \in Pipe : Open(q)' = IF q = p THEN Unset ELSE Open(q)
  BY <1>1, <1>2, <1>4, NarrowedOpen, OpenNow
<1>6. AllOpen' = [AllOpen EXCEPT ![p] = Unset]
  BY <1>5 DEF AllOpen
<1>7. Listening' = TRUE
  BY <1>1, <1>2 DEF Listening
<1>8. Chan' = Chan /\ Ack' = Ack /\ Fifo' = Fifo
  BY <1>1 DEF SameRadio, Chan, Ack, Fifo
<1> QED BY <1>1, <1>2, <1>3, <1>6, <1>7, <1>8
        DEF Phy!ResetPipe, Phy!Idle, AllOpen, Chan, Ack, Listening, Fifo, Sending, OnAir

(* A packet is read, whichever pipe the caller names.                      *)
LEMMA ReadMaps ==
    ASSUME IInv, NEW p \in Pipe \cup {NoPipe}, PhyRead(p)
    PROVE  Phy!Read
<1>1. /\ Idle /\ chip.rx_fifo # <<>> /\ UNCHANGED <<driver, call, air>>
      /\ chip' \in Chip /\ SameButRx(chip, chip')
      /\ chip'.rx_fifo \in {chip.rx_fifo, Tail(chip.rx_fifo), <<>>}
  BY ReadStep
<1>2. /\ chip.pwr_up /\ chip'.pwr_up
      /\ AllOpen' = AllOpen /\ Outcome = "none" /\ Outcome' = "none" /\ Sending' = Sending
  BY <1>1, ConfiguredMaps DEF SameButRx, Narrowed
<1>3. Fifo = chip.rx_fifo /\ Fifo' = chip'.rx_fifo
  BY <1>2 DEF Fifo
<1>4. Chan' = Chan /\ Ack' = Ack /\ Listening' = Listening
  BY <1>1 DEF SameButRx, Chan, Ack, Listening
<1> QED BY <1>1, <1>2, <1>3, <1>4
        DEF Phy!Read, Phy!Idle, Phy!config,
            AllOpen, Chan, Ack, Listening, Fifo, Sending, OnAir

(* A packet arrives only at an open pipe of a radio that listens.          *)
LEMMA ReceiveMaps ==
    ASSUME IInv, NEW p \in Pipe, Receive(p)
    PROVE  Phy!Receive(p)
<1>1. /\ call = NoCall /\ chip.pwr_up /\ chip.ce /\ chip.prim_rx
      /\ p \in chip.en_rxaddr /\ Len(chip.rx_fifo) < RxDepth
      /\ UNCHANGED <<driver, call, air>>
      /\ chip' \in Chip /\ SameButRx(chip, chip')
  BY ReceiveStep
<1>2. Idle
  BY <1>1 DEF IInv, PowerInv, Idle
<1>3. /\ chip.pwr_up /\ chip'.pwr_up
      /\ AllOpen' = AllOpen /\ Outcome = "none" /\ Outcome' = "none" /\ Sending' = Sending
  BY <1>1, <1>2, ConfiguredMaps DEF SameButRx, Narrowed
<1>4. chip \in Chip
  BY TypeFacts
<1>5. Open(p) = RxAddr(chip, p) /\ Open(p) # Unset
  BY <1>1, <1>4, OpenNow, EnabledFacts
<1>6. AllOpen[p] = Open(p)
  BY DEF AllOpen
<1>7. Fifo = chip.rx_fifo /\ Fifo' = chip'.rx_fifo /\ Chan = chip.rf_ch
  BY <1>3 DEF Fifo, Chan
<1>8. Fifo' = Append(Fifo, [pipe |-> p, addr |-> AllOpen[p], chan |-> Chan])
  BY <1>5, <1>6, <1>7, ReceiveStep
<1>9. Chan' = Chan /\ Ack' = Ack /\ Listening' = Listening /\ Listening
  BY <1>1 DEF SameButRx, Chan, Ack, Listening
<1>10. AllOpen[p] # Unset /\ Len(Fifo) < RxDepth
  BY <1>1, <1>5, <1>6, <1>7
<1> QED BY <1>3, <1>8, <1>9, <1>10
        DEF Phy!Receive, Phy!Idle, Phy!config, AllOpen, Chan, Ack, Listening, Fifo, Sending, OnAir

(* What the link layer takes a pipe for while a write is in progress.      *)
LEMMA OpenWriting ==
    ASSUME call # NoCall, chip.pwr_up, NEW q \in Pipe
    PROVE  Open(q) = IF q = 0 THEN IF pipe0_open THEN pipe0_address ELSE Unset
                     ELSE IF q \in chip.en_rxaddr THEN RxAddr(chip, q) ELSE Unset
  BY DEF Open, Pipe0Address

(* The same after a step.                                                  *)
LEMMA OpenWritingThen ==
    ASSUME call' # NoCall, chip'.pwr_up, NEW q \in Pipe
    PROVE  Open(q)' = IF q = 0 THEN IF pipe0_open' THEN pipe0_address' ELSE Unset
                      ELSE IF q \in chip'.en_rxaddr THEN RxAddr(chip', q) ELSE Unset
  BY DEF Open, Pipe0Address

(* A write sends to the address of its pipe and leaves every pipe the      *)
(* address it has.                                                         *)
LEMMA WriteMaps ==
    ASSUME IInv, NEW p \in Pipe, NEW d \in Payload, PhyWrite(p, d)
    PROVE  Phy!Write(p, d)
<1>1. /\ Idle /\ p \in chip.en_rxaddr /\ UNCHANGED <<driver, air>>
      /\ call' = [pipe |-> p, payload |-> d, full |-> FALSE] /\ call' # NoCall
      /\ chip' \in Chip /\ SamePipes(chip, chip')
      /\ ~chip'.ce /\ ~chip'.prim_rx /\ ~chip'.tx_ds /\ ~chip'.max_rt
      /\ chip'.tx_addr = RxAddr(chip, p) /\ chip'.pwr_up = chip.pwr_up
      /\ chip'.en_aa = chip.en_aa /\ chip'.rf_ch = chip.rf_ch
      /\ chip'.rx_fifo = chip.rx_fifo
      /\ chip.en_aa => chip'.en_rxaddr = chip.en_rxaddr \cup {0}
      /\ ~chip.en_aa => chip'.en_rxaddr = chip.en_rxaddr
  BY PhyWriteStep
<1>2. /\ call = NoCall /\ chip.pwr_up /\ chip'.pwr_up
      /\ 0 \in chip.en_rxaddr => pipe0_open /\ chip.rx_p0 = pipe0_address
      /\ pipe0_open => 0 \in chip.en_rxaddr
  BY <1>1, IdleFacts
<1>3. chip \in Chip
  BY TypeFacts
<1>4. UNCHANGED <<pipe0_open, pipe0_address>>
  BY <1>1 DEF driver
<1>5. ASSUME NEW q \in Pipe
      PROVE  Open(q)' = Open(q)
  <2>1. Open(q) = IF q \in chip.en_rxaddr THEN RxAddr(chip, q) ELSE Unset
    BY <1>2, <1>3, OpenNow
  <2>2. Open(q)' = IF q = 0 THEN IF pipe0_open' THEN pipe0_address' ELSE Unset
                   ELSE IF q \in chip'.en_rxaddr THEN RxAddr(chip', q) ELSE Unset
    BY <1>1, <1>2, OpenWritingThen
  <2>3. CASE q = 0
    <3>1. RxAddr(chip, q) = chip.rx_p0
      BY <1>3, <2>3, RxAddrFacts
    <3> QED BY <1>2, <1>4, <2>1, <2>2, <2>3, <3>1
  <2>4. CASE q # 0
    <3>1. RxAddr(chip', q) = RxAddr(chip, q)
      BY <1>1, <1>3, <2>4, SamePipesFacts
    <3>2. q \in chip'.en_rxaddr <=> q \in chip.en_rxaddr
      BY <1>1, <2>4
    <3> QED BY <2>1, <2>2, <2>4, <3>1, <3>2
  <2> QED BY <2>3, <2>4
<1>6. AllOpen' = AllOpen
  BY <1>5 DEF AllOpen
<1>7. AllOpen[p] = RxAddr(chip, p) /\ AllOpen[p] # Unset
  BY <1>1, <1>2, <1>3, OpenNow, EnabledFacts DEF AllOpen
<1>8. Outcome = "none" /\ Outcome' = "pending"
  BY <1>1, <1>2 DEF Outcome
<1>9. Chan' = Chan /\ Ack' = Ack /\ Fifo' = Fifo /\ Listening' = FALSE
  BY <1>1 DEF Chan, Ack, Fifo, Listening
<1>10. Sending' = [addr |-> AllOpen[p], chan |-> Chan, payload |-> d]
  BY <1>1, <1>2, <1>7 DEF Sending, OnAir, Chan
<1> QED BY <1>2, <1>6, <1>7, <1>8, <1>9, <1>10
        DEF Phy!Write, Phy!Idle, Phy!config, AllOpen, Chan, Ack, Listening, Fifo, Sending, OnAir

(* The fate of a packet is settled once, and without acknowledgement it is *)
(* always taken for sent.                                                  *)
LEMMA TransmitMaps ==
    ASSUME IInv, Transmit
    PROVE  Phy!Transmit
<1>1. /\ call # NoCall /\ ~chip.tx_ds /\ ~chip.max_rt /\ UNCHANGED <<driver, call>>
      /\ chip' \in Chip
      /\ SamePipes(chip, chip') /\ chip'.en_rxaddr = chip.en_rxaddr
      /\ chip'.rx_p0 = chip.rx_p0 /\ chip'.ce = chip.ce /\ chip'.prim_rx = chip.prim_rx
      /\ chip'.pwr_up = chip.pwr_up /\ chip'.rf_ch = chip.rf_ch
      /\ chip'.en_aa = chip.en_aa
      /\ chip'.tx_addr = chip.tx_addr /\ chip'.rx_fifo = chip.rx_fifo
      /\ \/ chip'.tx_ds
         \/ ~chip'.tx_ds /\ chip'.max_rt /\ chip.en_aa
  BY TransmitStep
<1>2. /\ call' = call /\ UNCHANGED <<pipe0_open, pipe0_address>> /\ chip \in Chip
      /\ chip.pwr_up /\ chip'.pwr_up
  BY <1>1, TypeFacts DEF driver, IInv, PowerInv
<1>3. ASSUME NEW q \in Pipe
      PROVE  Open(q)' = Open(q)
  <2>1. q # 0 => RxAddr(chip', q) = RxAddr(chip, q)
    BY <1>1, <1>2, SamePipesFacts
  <2> QED BY <1>1, <1>2, <2>1, OpenWriting, OpenWritingThen
<1>4. AllOpen' = AllOpen
  BY <1>3 DEF AllOpen
<1>5. Outcome = "pending" /\ Outcome' \in IF Ack THEN {"sent", "lost"} ELSE {"sent"}
  BY <1>1, <1>2 DEF Outcome, Ack
<1>6. /\ Chan' = Chan /\ Ack' = Ack /\ Fifo' = Fifo /\ Listening' = Listening
      /\ Sending' = Sending
  BY <1>1, <1>2 DEF Chan, Ack, Fifo, Listening, Sending, OnAir
<1> QED BY <1>2, <1>4, <1>5, <1>6
        DEF Phy!Transmit, Phy!config, AllOpen, Chan, Ack, Listening, Fifo, Sending, OnAir

(* When a write returns every pipe listens again to the address it has,    *)
(* pipe 0 to its own.                                                      *)
LEMMA ReturnMaps ==
    ASSUME IInv, PhyWriteEnd
    PROVE  Phy!Return
<1>1. /\ call # NoCall /\ (chip.tx_ds \/ chip.max_rt)
      /\ call' = NoCall /\ UNCHANGED driver
      /\ chip' \in Chip /\ SamePipes(chip, chip') /\ chip'.ce /\ chip'.prim_rx
      /\ chip'.rx_fifo = chip.rx_fifo
      /\ chip'.pwr_up = chip.pwr_up /\ chip'.rf_ch = chip.rf_ch
      /\ chip'.en_aa = chip.en_aa
      /\ chip'.en_rxaddr = IF pipe0_open THEN chip.en_rxaddr ELSE chip.en_rxaddr \ {0}
      /\ pipe0_open => chip'.rx_p0 = pipe0_address
  BY PhyWriteEndStep
<1>2. /\ UNCHANGED <<pipe0_open, pipe0_address>> /\ chip \in Chip
      /\ chip.pwr_up /\ chip'.pwr_up
      /\ pipe0_open => 0 \in chip.en_rxaddr
  BY <1>1, TypeFacts DEF driver, IInv, PowerInv, PipesInv
<1>3. ASSUME NEW q \in Pipe
      PROVE  Open(q)' = Open(q)
  <2>1. Open(q) = IF q = 0 THEN IF pipe0_open THEN pipe0_address ELSE Unset
                  ELSE IF q \in chip.en_rxaddr THEN RxAddr(chip, q) ELSE Unset
    BY <1>1, <1>2, OpenWriting
  <2>2. Open(q)' = IF q \in chip'.en_rxaddr THEN RxAddr(chip', q) ELSE Unset
    BY <1>1, <1>2, OpenThen
  <2>3. CASE q = 0
    <3>1. RxAddr(chip', q) = chip'.rx_p0
      BY <1>1, <2>3, RxAddrFacts
    <3> QED BY <1>1, <1>2, <2>1, <2>2, <2>3, <3>1
  <2>4. CASE q # 0
    <3>1. RxAddr(chip', q) = RxAddr(chip, q)
      BY <1>1, <1>2, <2>4, SamePipesFacts
    <3> QED BY <1>1, <2>1, <2>2, <2>4, <3>1
  <2> QED BY <2>3, <2>4
<1>4. AllOpen' = AllOpen
  BY <1>3 DEF AllOpen
<1>5. Outcome \in {"sent", "lost"} /\ Outcome' = "none" /\ Sending' = NoAir
  BY <1>1 DEF Outcome, Sending
<1>6. Chan' = Chan /\ Ack' = Ack /\ Fifo' = Fifo /\ Listening' = TRUE
  BY <1>1, <1>2 DEF Chan, Ack, Fifo, Listening
<1> QED BY <1>2, <1>4, <1>5, <1>6
        DEF Phy!Return, Phy!config, Phy!NoPacket, NoAir,
            AllOpen, Chan, Ack, Listening, Fifo, Sending, OnAir

(* Every step of the driver is a step of that radio or none.               *)
LEMMA NextMaps ==
    ASSUME IInv, [Next]_vars
    PROVE  [Phy!Next]_Phy!vars
<1>1. CASE PhyOpen
  BY <1>1, PhyOpenMaps DEF Phy!Next
<1>2. CASE PhyClose
  BY <1>2, PhyCloseMaps DEF Phy!Next
<1>3. CASE IoctlStandby
  BY <1>3, StandbyMaps DEF Phy!Next
<1>4. CASE PhyWriteEnd
  BY <1>4, ReturnMaps DEF Phy!Next
<1>5. CASE Transmit
  BY <1>5, TransmitMaps DEF Phy!Next
<1>6. ASSUME NEW p \in Pipe, IoctlResetPipe(p) \/ Receive(p)
      PROVE  Phy!Next
  BY <1>6, ResetPipeMaps, ReceiveMaps DEF Phy!Next
<1>11. ASSUME NEW p \in Pipe \cup {NoPipe}, PhyRead(p)
      PROVE  Phy!Next
  BY <1>11, ReadMaps DEF Phy!Next
<1>7. ASSUME NEW p \in Pipe, NEW a \in Address, IoctlSetPipe(p, a)
      PROVE  Phy!Next
  BY <1>7, SetPipeMaps DEF Phy!Next
<1>8. ASSUME NEW ch \in Channel, NEW ack \in BOOLEAN, IoctlSetChannel(ch, ack)
      PROVE  Phy!Next
  BY <1>8, SetChannelMaps DEF Phy!Next
<1>9. ASSUME NEW p \in Pipe, NEW d \in Payload, PhyWrite(p, d)
      PROVE  Phy!Next
  BY <1>9, WriteMaps DEF Phy!Next
<1>10. CASE UNCHANGED vars
  <2>1. AllOpen' = AllOpen
    BY <1>10 DEF vars, driver, AllOpen, Open, Pipe0Address
  <2>2. Outcome' = Outcome
    BY <1>10 DEF vars, Outcome
  <2>3. Sending' = Sending
    BY <1>10 DEF vars, Sending, OnAir
  <2> QED BY <1>10, <2>1, <2>2, <2>3 DEF vars, Phy!vars, AllOpen, Sending, OnAir
<1> QED
  BY <1>1, <1>2, <1>3, <1>4, <1>5, <1>6, <1>7, <1>8, <1>9, <1>10, <1>11 DEF Next

(* The registers implement the radio the link layer takes the driver for:  *)
(* a pipe listens to the address it was opened with, whatever is opened,   *)
(* closed or sent on the other pipes, with or without acknowledgement.     *)
THEOREM Refinement == Spec => PhySpec
<1>1. Init => Phy!Init
  BY InitMaps
<1>2. IInv /\ [Next]_vars => [Phy!Next]_Phy!vars
  BY NextMaps
<1> QED BY <1>1, <1>2, Invariance, PTL DEF Spec, PhySpec, Phy!Spec

=============================================================================
