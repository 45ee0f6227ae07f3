--------------------------- MODULE DataLinkProofs ---------------------------
(***************************************************************************)
(* One direction of a connection (module DataLink), for messages of any    *)
(* number and size, any FIFO depth and any loss of packets and             *)
(* acknowledgements: it is a datagram channel as far as the order goes,    *)
(* and messages are whole as long as the receiver never left the channel.  *)
(***************************************************************************)
EXTENDS DataLink, SequenceTheorems, TLAPS

(* The last message that arrived, 0 before the first.                      *)
Latest == IF arrived = <<>> THEN 0 ELSE arrived[Len(arrived)]

(* Packets on their way are of messages written, numbered as write_raw     *)
(* numbers them.                                                           *)
PacketsInv ==
    \A i \in 1..Len(fifo) :
        /\ fifo[i].msg <= written
        /\ fifo[i].nseq < Size[fifo[i].msg]
        /\ fifo[i].end <=> fifo[i].nseq + 1 = Size[fifo[i].msg]

(* The message being written is the latest; its last packet was not sent.  *)
SenderInv ==
    /\ tx # 0 => /\ tx = written /\ seqnumber_tx < Size[tx]
                 /\ \A i \in 1..Len(fifo) : fifo[i].msg = tx => ~fifo[i].end
    /\ tx = 0 => seqnumber_tx = 0

(* Messages are in their order, the last packet of each comes last, and    *)
(* nothing of a message that arrived, or of one before it, is to come.     *)
OrderInv ==
    /\ \A i, j \in 1..Len(fifo) :
          i < j => \/ fifo[i].msg < fifo[j].msg
                   \/ fifo[i].msg = fifo[j].msg /\ ~fifo[i].end
    /\ Latest <= written
    /\ tx # 0 => Latest < tx
    /\ \A i \in 1..Len(fifo) : Latest < fifo[i].msg

IInv == TypeOK /\ PacketsInv /\ SenderInv /\ OrderInv

(* What follows a packet, as long as nothing is flushed: the beginning of  *)
(* a message or the next packet of the same one.                           *)
Follows(m, k, p) == p.nseq = 0 \/ (p.msg = m /\ p.nseq = k)

Prefix(m, k) == [i \in 1..k |-> <<m, i - 1>>]

(* No gap in the FIFO nor between it and the sender.                       *)
NoGapInv ==
    /\ \A i \in 1..(Len(fifo) - 1) : Follows(fifo[i].msg, fifo[i].nseq + 1, fifo[i + 1])
    /\ tx # 0 /\ fifo # <<>> =>
          Follows(fifo[Len(fifo)].msg, fifo[Len(fifo)].nseq + 1, Arriving)

(* What has been reassembled is the beginning of one message, and no gap   *)
(* is between it and what comes next.                                      *)
PartialInv ==
    \/ seqnumber_rx = 0 /\ buffer_rx = <<>>
    \/ /\ seqnumber_rx # 0 /\ rx = <<>>
       /\ \E m \in 1..written :
             /\ buffer_rx = Prefix(m, seqnumber_rx)
             /\ fifo # <<>> => Follows(m, seqnumber_rx, fifo[1])
             /\ fifo = <<>> /\ tx # 0 => Follows(m, seqnumber_rx, Arriving)

StayInv == ~away /\ NoGapInv /\ PartialInv /\ WholeMessages

WholeInv == stayed => StayInv

---------------------------------------------------------------------------
(* Sequences.                                                              *)

(* A packet more at the end.                                               *)
LEMMA AppendFacts ==
    ASSUME NEW S, NEW q \in Seq(S), NEW e \in S
    PROVE  /\ Append(q, e) \in Seq(S)
           /\ Len(Append(q, e)) = Len(q) + 1 /\ Len(q) \in Nat
           /\ \A i \in 1..Len(q) : Append(q, e)[i] = q[i]
           /\ Append(q, e)[Len(q) + 1] = e
  OBVIOUS

(* A packet less at the beginning.                                         *)
LEMMA TailFacts ==
    ASSUME NEW S, NEW q \in Seq(S), q # <<>>
    PROVE  /\ Tail(q) \in Seq(S)
           /\ Len(Tail(q)) = Len(q) - 1 /\ Len(q) \in Nat \ {0}
           /\ \A i \in 1..(Len(q) - 1) : Tail(q)[i] = q[i + 1]
           /\ Head(q) = q[1] /\ q[1] \in S
  OBVIOUS

(* A packet is the last one.                                               *)
LEMMA LastFacts ==
    ASSUME NEW S, NEW q \in Seq(S), q # <<>>
    PROVE  Len(q) \in Nat /\ 1 <= Len(q) /\ q[Len(q)] \in S
<1>1. Len(q) \in Nat /\ Len(q) # 0
  OBVIOUS
<1>2. Len(q) \in 1..Len(q)
  BY <1>1
<1> QED BY <1>1, <1>2

(* The sizes of messages.                                                  *)
LEMMA SizeFacts ==
    ASSUME NEW m \in 1..MaxMsgs
    PROVE  Size[m] \in Nat /\ 1 <= Size[m] /\ Size[m] <= MaxFrags
  BY SizeAssumption, FragsAssumption

(* The packets in the FIFO and the last message that arrived have their    *)
(* types.                                                                  *)
LEMMA TypeFacts ==
    ASSUME TypeOK
    PROVE  /\ Latest \in Nat
           /\ \A i \in 1..Len(fifo) :
                 /\ fifo[i] \in Packet
                 /\ fifo[i].msg \in 1..MaxMsgs /\ fifo[i].msg \in Nat
                 /\ fifo[i].nseq \in Nat /\ fifo[i].end \in BOOLEAN
<1>1. arrived \in Seq(1..MaxMsgs) /\ fifo \in Seq(Packet)
  BY DEF TypeOK
<1>2. arrived # <<>> => arrived[Len(arrived)] \in 1..MaxMsgs
  BY <1>1, LastFacts
<1>3. \A i \in 1..Len(fifo) : fifo[i] \in Packet
  BY <1>1
<1>4. \A p \in Packet : p.msg \in 1..MaxMsgs /\ p.nseq \in Nat /\ p.end \in BOOLEAN
  BY FragsAssumption DEF Packet
<1>5. \A m \in 1..MaxMsgs : m \in Nat
  BY MsgsAssumption
<1> QED BY <1>2, <1>3, <1>4, <1>5 DEF Latest

(* The packet that write_raw sends next.                                   *)
LEMMA ArrivingFacts ==
    ASSUME IInv, tx # 0
    PROVE  /\ Arriving \in Packet
           /\ Arriving.msg = tx /\ Arriving.nseq = seqnumber_tx /\ Arriving.end = Last
           /\ tx \in 1..MaxMsgs /\ tx = written
           /\ seqnumber_tx \in Nat /\ seqnumber_tx < Size[tx]
<1>1. tx \in 1..MaxMsgs /\ seqnumber_tx \in 0..(MaxFrags - 1) /\ tx = written
        /\ seqnumber_tx < Size[tx]
  BY DEF IInv, TypeOK, SenderInv
<1>2. seqnumber_tx \in Nat
  BY <1>1, FragsAssumption
<1> QED BY <1>1, <1>2 DEF Arriving, Packet, Last

---------------------------------------------------------------------------
(* The order of messages.                                                  *)

(* hal_comm_write.                                                         *)
LEMMA WriteIInv ==
    ASSUME IInv, CommWrite
    PROVE  IInv'
<1>1. /\ tx = 0 /\ written < MaxMsgs /\ written' = written + 1 /\ tx' = written + 1
      /\ UNCHANGED <<seqnumber_tx, fifo, away, stayed, seqnumber_rx, buffer_rx, rx, arrived>>
  BY DEF CommWrite, place, receiver
<1>2. written \in Nat /\ written \in 0..MaxMsgs /\ seqnumber_tx = 0
        /\ fifo \in Seq(Packet)
  BY <1>1, MsgsAssumption DEF IInv, TypeOK, SenderInv
<1>3. \A i \in 1..Len(fifo) : fifo[i].msg \in Nat /\ fifo[i].msg <= written
  BY TypeFacts DEF IInv, PacketsInv
<1>4. TypeOK'
  <2>1. written' \in 0..MaxMsgs
    BY <1>1, <1>2, MsgsAssumption
  <2> QED BY <1>1, <2>1 DEF IInv, TypeOK
<1>5. PacketsInv'
  BY <1>1, <1>2, <1>3 DEF IInv, PacketsInv
<1>6. SenderInv'
  <2>1. tx' \in 1..MaxMsgs
    BY <1>1, <1>2, MsgsAssumption
  <2>2. Size[tx'] \in Nat /\ 1 <= Size[tx']
    BY <2>1, SizeFacts
  <2>3. \A i \in 1..Len(fifo) : fifo[i].msg # tx'
    BY <1>1, <1>2, <1>3
  <2> QED BY <1>1, <1>2, <2>1, <2>2, <2>3 DEF SenderInv
<1>7. OrderInv'
  <2>1. Latest' = Latest /\ Latest <= written
    BY <1>1 DEF Latest, IInv, OrderInv
  <2>2. Latest \in Nat
    BY TypeFacts DEF IInv
  <2> QED BY <1>1, <1>2, <2>1, <2>2 DEF IInv, OrderInv
<1> QED BY <1>4, <1>5, <1>6, <1>7 DEF IInv

(* A turn of write_raw.                                                    *)
LEMMA SendIInv ==
    ASSUME IInv, SendPacket
    PROVE  IInv'
<1> DEFINE p == Arriving
           n == Len(fifo)
<1>1. /\ tx # 0
      /\ UNCHANGED <<written, away, stayed, seqnumber_rx, buffer_rx, rx, arrived>>
  BY DEF SendPacket, place, receiver
<1>2. /\ p \in Packet /\ p.msg = tx /\ p.nseq = seqnumber_tx /\ p.end = Last
      /\ tx \in 1..MaxMsgs /\ tx = written
      /\ seqnumber_tx \in Nat /\ seqnumber_tx < Size[tx]
  BY <1>1, ArrivingFacts
<1>3. Size[tx] \in Nat /\ 1 <= Size[tx] /\ Size[tx] <= MaxFrags
  BY <1>2, SizeFacts
<1>4. fifo \in Seq(Packet) /\ n \in Nat /\ n <= FifoDepth
  BY DEF IInv, TypeOK
<1>5. /\ GiveUp => tx' = 0 /\ seqnumber_tx' = 0
      /\ Acknowledged => \/ Last /\ tx' = 0 /\ seqnumber_tx' = 0
                         \/ ~Last /\ tx' = tx /\ seqnumber_tx' = seqnumber_tx + 1
  BY DEF GiveUp, Acknowledged
<1>6. Last <=> seqnumber_tx + 1 = Size[tx]
  BY DEF Last
<1>7. \/ tx' = 0 /\ seqnumber_tx' = 0
      \/ ~Last /\ tx' = tx /\ seqnumber_tx' = seqnumber_tx + 1
  BY <1>5 DEF SendPacket
<1>8. tx' \in 0..MaxMsgs /\ seqnumber_tx' \in 0..(MaxFrags - 1)
        /\ (tx' # 0 => tx' = tx /\ seqnumber_tx' < Size[tx])
        /\ (tx' = 0 => seqnumber_tx' = 0)
  BY <1>2, <1>3, <1>6, <1>7, FragsAssumption, MsgsAssumption
<1>9. /\ Latest' = Latest /\ Latest \in Nat /\ Latest < tx
  BY <1>1, TypeFacts DEF Latest, IInv, OrderInv
<1> HIDE DEF p
<1>10. CASE CanArrive /\ fifo' = Append(fifo, p) /\ (Acknowledged \/ GiveUp)
  <2>1. /\ fifo' \in Seq(Packet) /\ Len(fifo') = n + 1
        /\ \A i \in 1..n : fifo'[i] = fifo[i]
        /\ fifo'[n + 1] = p
    BY <1>2, <1>4, <1>10, AppendFacts
  <2>2. \A i \in 1..Len(fifo') : i \in 1..n \/ i = n + 1
    BY <1>4, <2>1
  <2>3. n + 1 <= FifoDepth
    BY <1>4, <1>10, FifoAssumption DEF CanArrive
  <2>4. TypeOK'
    BY <1>1, <1>8, <2>1, <2>3 DEF IInv, TypeOK
  <2>5. PacketsInv'
    BY <1>1, <1>2, <1>6, <2>1, <2>2 DEF IInv, PacketsInv
  <2>6. SenderInv'
    <3>1. tx' # 0 => ~Last
      BY <1>7
    <3>2. \A i \in 1..Len(fifo') : tx' # 0 /\ fifo'[i].msg = tx' => ~fifo'[i].end
      BY <1>1, <1>2, <1>8, <2>1, <2>2, <3>1 DEF IInv, SenderInv
    <3> QED BY <1>1, <1>2, <1>8, <3>2 DEF SenderInv
  <2>7. OrderInv'
    <3>1. \A i \in 1..n : fifo[i].msg \in Nat /\ fifo[i].msg <= tx
                           /\ (fifo[i].msg = tx => ~fifo[i].end)
      BY <1>1, <1>2, TypeFacts DEF IInv, PacketsInv, SenderInv
    <3>2. \A i, j \in 1..Len(fifo') :
            i < j => \/ fifo'[i].msg < fifo'[j].msg
                     \/ fifo'[i].msg = fifo'[j].msg /\ ~fifo'[i].end
      <4> SUFFICES ASSUME NEW i \in 1..Len(fifo'), NEW j \in 1..Len(fifo'), i < j
                   PROVE  \/ fifo'[i].msg < fifo'[j].msg
                          \/ fifo'[i].msg = fifo'[j].msg /\ ~fifo'[i].end
        OBVIOUS
      <4>1. i \in 1..n
        BY <1>4, <2>1
      <4>2. CASE j \in 1..n
        BY <2>1, <4>1, <4>2 DEF IInv, OrderInv
      <4>3. CASE j = n + 1
        BY <1>2, <2>1, <3>1, <4>1, <4>3
      <4> QED BY <2>2, <4>2, <4>3
    <3>3. \A i \in 1..Len(fifo') : Latest < fifo'[i].msg
      BY <1>2, <1>9, <2>1, <2>2 DEF IInv, OrderInv
    <3>4. tx' # 0 => Latest < tx'
      BY <1>8, <1>9
    <3> QED BY <1>1, <1>9, <3>2, <3>3, <3>4 DEF IInv, OrderInv
  <2> QED BY <2>4, <2>5, <2>6, <2>7 DEF IInv
<1>11. CASE GiveUp /\ UNCHANGED fifo
  <2>1. tx' = 0 /\ seqnumber_tx' = 0
    BY <1>5, <1>11
  <2>2. TypeOK'
    BY <1>1, <1>8, <1>11 DEF IInv, TypeOK
  <2>3. PacketsInv' /\ SenderInv'
    BY <1>1, <1>11, <2>1 DEF IInv, PacketsInv, SenderInv
  <2>4. OrderInv'
    BY <1>1, <1>9, <1>11, <2>1 DEF IInv, OrderInv
  <2> QED BY <2>2, <2>3, <2>4 DEF IInv
<1> QED BY <1>10, <1>11 DEF SendPacket, p

Fragment == (1..MaxMsgs) \X (0..(MaxFrags - 1))

(* The buffer of read_raw with a packet more.                              *)
Joined(p) ==
    LET buf == IF p.nseq = 0 THEN <<>> ELSE buffer_rx
    IN  IF Len(buf) < MaxFrags THEN Append(buf, <<p.msg, p.nseq>>) ELSE buf

(* A turn of read_raw discards a packet, completes a message or goes on.   *)
LEMMA ReassembleCases ==
    ASSUME NEW p, Reassemble(p)
    PROVE  \/ /\ rx # <<>> \/ Expected(p) # p.nseq
              /\ UNCHANGED receiver
           \/ /\ rx = <<>> /\ Expected(p) = p.nseq /\ p.end
              /\ rx' = Joined(p) /\ arrived' = Append(arrived, p.msg)
              /\ seqnumber_rx' = 0 /\ buffer_rx' = <<>>
           \/ /\ rx = <<>> /\ Expected(p) = p.nseq /\ ~p.end
              /\ seqnumber_rx' = p.nseq + 1 /\ buffer_rx' = Joined(p)
              /\ UNCHANGED <<rx, arrived>>
  BY Zenon DEF Reassemble, Joined

(* The buffer holds no more than the longest message.                      *)
LEMMA JoinedFacts ==
    ASSUME TypeOK, NEW p \in Packet
    PROVE  Joined(p) \in Seq(Fragment) /\ Len(Joined(p)) <= MaxFrags
<1> DEFINE buf == IF p.nseq = 0 THEN <<>> ELSE buffer_rx
           e == <<p.msg, p.nseq>>
<1>1. buffer_rx \in Seq(Fragment) /\ Len(buffer_rx) <= MaxFrags
  BY DEF TypeOK, Fragment
<1>2. buf \in Seq(Fragment) /\ Len(buf) <= MaxFrags /\ Len(buf) \in Nat
  BY <1>1, FragsAssumption
<1>3. e \in Fragment
  BY DEF Packet, Fragment
<1> HIDE DEF buf, e
<1>4. Append(buf, e) \in Seq(Fragment) /\ Len(Append(buf, e)) = Len(buf) + 1
  BY <1>2, <1>3
<1>5. Joined(p) = IF Len(buf) < MaxFrags THEN Append(buf, e) ELSE buf
  BY DEF Joined, buf, e
<1> QED BY <1>2, <1>4, <1>5, FragsAssumption

(* A packet less to be read.                                               *)
LEMMA TakeFacts ==
    ASSUME IInv, fifo # <<>>, fifo' = Tail(fifo)
    PROVE  /\ Head(fifo) = fifo[1] /\ fifo[1] \in Packet /\ 1 \in 1..Len(fifo)
           /\ fifo' \in Seq(Packet) /\ Len(fifo') <= FifoDepth
           /\ Len(fifo) \in Nat /\ Len(fifo') = Len(fifo) - 1
           /\ \A i \in 1..Len(fifo') : i + 1 \in 1..Len(fifo) /\ fifo'[i] = fifo[i + 1]
<1>1. fifo \in Seq(Packet) /\ Len(fifo) <= FifoDepth
  BY DEF IInv, TypeOK
<1>2. /\ fifo' \in Seq(Packet)
      /\ Len(fifo') = Len(fifo) - 1 /\ Len(fifo) \in Nat \ {0}
      /\ \A i \in 1..(Len(fifo) - 1) : fifo'[i] = fifo[i + 1]
      /\ Head(fifo) = fifo[1] /\ fifo[1] \in Packet
  BY <1>1, TailFacts
<1> QED BY <1>1, <1>2, FifoAssumption

(* A turn of read_raw.                                                     *)
LEMMA ReadIInv ==
    ASSUME IInv, ReadRaw
    PROVE  IInv'
<1> DEFINE p == fifo[1]
<1>1. /\ fifo # <<>> /\ fifo' = Tail(fifo) /\ Reassemble(Head(fifo))
      /\ UNCHANGED <<written, tx, seqnumber_tx, away, stayed>>
  BY DEF ReadRaw, sender, place
<1>2. /\ Head(fifo) = p /\ p \in Packet /\ 1 \in 1..Len(fifo)
      /\ fifo' \in Seq(Packet) /\ Len(fifo') <= FifoDepth
      /\ Len(fifo) \in Nat /\ Len(fifo') = Len(fifo) - 1
      /\ \A i \in 1..Len(fifo') : i + 1 \in 1..Len(fifo) /\ fifo'[i] = fifo[i + 1]
  BY <1>1, TakeFacts
<1>3. /\ p.msg \in 1..MaxMsgs /\ p.msg \in Nat /\ p.nseq \in Nat
      /\ p.msg <= written /\ p.nseq < Size[p.msg]
      /\ p.end <=> p.nseq + 1 = Size[p.msg]
      /\ Size[p.msg] \in Nat /\ Size[p.msg] <= MaxFrags
      /\ written \in Nat
  <2>1. TypeOK /\ PacketsInv
    BY Zenon DEF IInv
  <2>2. p.msg \in 1..MaxMsgs /\ p.msg \in Nat /\ p.nseq \in Nat
    BY <1>2, <2>1, TypeFacts
  <2>3. /\ p.msg <= written /\ p.nseq < Size[p.msg]
        /\ p.end <=> p.nseq + 1 = Size[p.msg]
    BY <1>2, <2>1 DEF PacketsInv
  <2>4. Size[p.msg] \in Nat /\ Size[p.msg] <= MaxFrags
    BY <2>2, SizeFacts
  <2>5. written \in Nat
    BY <2>1, MsgsAssumption DEF TypeOK
  <2> QED BY <2>2, <2>3, <2>4, <2>5
<1>4. PacketsInv'
  BY <1>1, <1>2 DEF IInv, PacketsInv
<1>5. SenderInv'
  BY <1>1, <1>2 DEF IInv, SenderInv
<1>6. ASSUME seqnumber_rx' \in 0..(MaxFrags - 1), arrived' \in Seq(1..MaxMsgs),
             \A b \in {buffer_rx', rx'} : b \in Seq(Fragment) /\ Len(b) <= MaxFrags
      PROVE  TypeOK'
  BY <1>1, <1>2, <1>6 DEF IInv, TypeOK, Fragment
<1>7. /\ seqnumber_rx \in 0..(MaxFrags - 1) /\ arrived \in Seq(1..MaxMsgs)
      /\ \A b \in {buffer_rx, rx} : b \in Seq(Fragment) /\ Len(b) <= MaxFrags
      /\ <<>> \in Seq(Fragment) /\ Len(<<>>) <= MaxFrags
  BY FragsAssumption DEF IInv, TypeOK, Fragment
<1>8. Joined(p) \in Seq(Fragment) /\ Len(Joined(p)) <= MaxFrags
  BY <1>2, JoinedFacts DEF IInv
<1>9. \A i, j \in 1..Len(fifo') :
          i < j => \/ fifo'[i].msg < fifo'[j].msg
                   \/ fifo'[i].msg = fifo'[j].msg /\ ~fifo'[i].end
  <2> SUFFICES ASSUME NEW i \in 1..Len(fifo'), NEW j \in 1..Len(fifo'), i < j
               PROVE  \/ fifo'[i].msg < fifo'[j].msg
                      \/ fifo'[i].msg = fifo'[j].msg /\ ~fifo'[i].end
    OBVIOUS
  <2>1. i + 1 \in 1..Len(fifo) /\ j + 1 \in 1..Len(fifo) /\ i + 1 < j + 1
    BY <1>2
  <2>2. fifo'[i] = fifo[i + 1] /\ fifo'[j] = fifo[j + 1]
    BY <1>2
  <2>3. \/ fifo[i + 1].msg < fifo[j + 1].msg
        \/ fifo[i + 1].msg = fifo[j + 1].msg /\ ~fifo[i + 1].end
    BY <2>1 DEF IInv, OrderInv
  <2> QED BY <2>2, <2>3
<1>10. CASE UNCHANGED arrived /\ TypeOK'
  <2>1. Latest' = Latest
    BY <1>10 DEF Latest
  <2>2. OrderInv'
    BY <1>1, <1>2, <1>9, <2>1 DEF IInv, OrderInv
  <2> QED BY <1>4, <1>5, <1>10, <2>2 DEF IInv
<1>11. CASE UNCHANGED receiver
  <2>1. UNCHANGED <<seqnumber_rx, buffer_rx, rx, arrived>>
    BY <1>11 DEF receiver
  <2>2. TypeOK'
    BY <1>6, <1>7, <2>1
  <2> QED BY <1>10, <2>1, <2>2
<1>12. CASE /\ Expected(p) = p.nseq /\ ~p.end
            /\ seqnumber_rx' = p.nseq + 1 /\ buffer_rx' = Joined(p)
            /\ UNCHANGED <<rx, arrived>>
  <2>1. seqnumber_rx' \in 0..(MaxFrags - 1)
    BY <1>3, <1>12, FragsAssumption
  <2>2. TypeOK'
    BY <1>6, <1>7, <1>8, <1>12, <2>1
  <2> QED BY <1>10, <1>12, <2>2
<1>13. CASE /\ Expected(p) = p.nseq /\ p.end
            /\ rx' = Joined(p) /\ arrived' = Append(arrived, p.msg)
            /\ seqnumber_rx' = 0 /\ buffer_rx' = <<>>
  <2>1. /\ arrived' \in Seq(1..MaxMsgs)
        /\ Len(arrived') = Len(arrived) + 1 /\ arrived'[Len(arrived) + 1] = p.msg
        /\ Len(arrived) \in Nat
    BY <1>3, <1>7, <1>13, AppendFacts
  <2>2. Latest' = p.msg
    BY <2>1 DEF Latest
  <2>3. TypeOK'
    BY <1>6, <1>7, <1>8, <1>13, <2>1, FragsAssumption
  <2>4. \A i \in 1..Len(fifo') : p.msg < fifo'[i].msg
    <3>1. ASSUME NEW i \in 1..Len(fifo')
          PROVE  p.msg < fifo'[i].msg
      <4>1. i + 1 \in 1..Len(fifo) /\ fifo'[i] = fifo[i + 1] /\ 1 < i + 1
        BY <1>2
      <4> QED BY <1>2, <1>13, <4>1 DEF IInv, OrderInv
    <3> QED BY <3>1
  <2>5. tx' # 0 => p.msg < tx'
    BY <1>1, <1>2, <1>3, <1>13 DEF IInv, SenderInv
  <2>6. OrderInv'
    BY <1>1, <1>3, <1>9, <2>2, <2>4, <2>5 DEF OrderInv
  <2> QED BY <1>4, <1>5, <2>3, <2>6 DEF IInv
<1> QED BY <1>1, <1>2, <1>11, <1>12, <1>13, ReassembleCases

(* hal_comm_read and the hops.                                             *)
LEMMA OtherIInv ==
    ASSUME IInv, CommRead \/ HopAway \/ HopBack
    PROVE  IInv'
<1>1. CASE CommRead
  <2>1. /\ UNCHANGED <<written, tx, seqnumber_tx, fifo, away, stayed>> /\ rx' = <<>>
        /\ UNCHANGED <<seqnumber_rx, buffer_rx, arrived>>
    BY <1>1 DEF CommRead, sender, place
  <2>2. <<>> \in Seq(Fragment) /\ Len(<<>>) <= MaxFrags
    BY FragsAssumption
  <2>3. TypeOK'
    BY <2>1, <2>2 DEF IInv, TypeOK, Fragment
  <2> QED BY <2>1, <2>3 DEF IInv, PacketsInv, SenderInv, OrderInv, Latest
<1>2. CASE HopAway
  <2>1. /\ UNCHANGED <<written, tx, seqnumber_tx, seqnumber_rx, buffer_rx, rx, arrived>>
        /\ fifo' = <<>> /\ away' = TRUE /\ stayed' = FALSE
    BY <1>2 DEF HopAway, sender, receiver
  <2>2. fifo' \in Seq(Packet) /\ Len(fifo') = 0 /\ Len(fifo') <= FifoDepth
    BY <2>1, FifoAssumption
  <2>3. TypeOK'
    BY <2>1, <2>2 DEF IInv, TypeOK
  <2> QED BY <2>1, <2>2, <2>3 DEF IInv, PacketsInv, SenderInv, OrderInv, Latest
<1>3. CASE HopBack
  <2>1. /\ UNCHANGED <<written, tx, seqnumber_tx, seqnumber_rx, buffer_rx, rx, arrived>>
        /\ UNCHANGED <<fifo, stayed>> /\ away' = FALSE
    BY <1>3 DEF HopBack, sender, receiver
  <2>2. TypeOK'
    BY <2>1 DEF IInv, TypeOK
  <2> QED BY <2>1, <2>2 DEF IInv, PacketsInv, SenderInv, OrderInv, Latest
<1> QED BY <1>1, <1>2, <1>3

(* Nothing was written yet.                                                *)
LEMMA InitIInv == Init => IInv
<1> SUFFICES ASSUME Init PROVE IInv
  OBVIOUS
<1>1. /\ <<>> \in Seq(Packet) /\ Len(<<>>) = 0 /\ <<>> \in Seq(1..MaxMsgs)
      /\ <<>> \in Seq((1..MaxMsgs) \X (0..(MaxFrags - 1)))
      /\ 0 \in 0..MaxMsgs /\ 0 \in 0..(MaxFrags - 1)
  BY MsgsAssumption, FragsAssumption
<1>2. TypeOK
  <2> DEFINE Buffer(b) == /\ b \in Seq((1..MaxMsgs) \X (0..(MaxFrags - 1)))
                          /\ Len(b) <= MaxFrags
  <2>1. buffer_rx = <<>> /\ rx = <<>> /\ Buffer(<<>>)
    BY <1>1, FragsAssumption DEF Init
  <2> HIDE DEF Buffer
  <2>2. \A b \in {buffer_rx, rx} : Buffer(b)
    BY <2>1
  <2> USE DEF Buffer
  <2>3. away \in BOOLEAN /\ stayed \in BOOLEAN
    BY Zenon DEF Init
  <2>4. /\ written \in 0..MaxMsgs /\ tx \in 0..MaxMsgs /\ arrived \in Seq(1..MaxMsgs)
        /\ seqnumber_tx \in 0..(MaxFrags - 1) /\ seqnumber_rx \in 0..(MaxFrags - 1)
    BY <1>1, Zenon DEF Init
  <2>5. fifo \in Seq(Packet) /\ Len(fifo) <= FifoDepth
    BY <1>1, FifoAssumption DEF Init
  <2> QED BY <2>2, <2>3, <2>4, <2>5 DEF TypeOK
<1> QED BY <1>1, <1>2 DEF Init, IInv, PacketsInv, SenderInv, OrderInv, Latest

(* IInv holds in every reachable state.                                    *)
THEOREM Order == Spec => []IInv
<1>1. IInv /\ [Next]_vars => IInv'
  <2>1. CASE Next
    BY <2>1, WriteIInv, SendIInv, ReadIInv, OtherIInv DEF Next
  <2>2. CASE UNCHANGED vars
    BY <2>2 DEF vars, sender, receiver, place, IInv, TypeOK, PacketsInv, SenderInv,
                OrderInv, Latest
  <2> QED BY <2>1, <2>2
<1> QED BY <1>1, InitIInv, PTL DEF Spec

(* The statics of both ends stay in range: the sequence numbers below the  *)
(* packets of the longest message, the buffers within their length.        *)
THEOREM TypeCorrect == Spec => []TypeOK
<1>1. IInv => TypeOK
  BY DEF IInv
<1> QED BY <1>1, Order, PTL

(* The connection is a datagram channel: every step writes a message, or   *)
(* completes a later one than the last, or is neither.                     *)
THEOREM Refinement == Spec => ChannelSpec
<1>1. Init => Datagrams!Init
  BY DEF Init, Datagrams!Init
<1>2. IInv /\ [Next]_vars => [Datagrams!Next]_<<written, arrived>>
  <2> SUFFICES ASSUME IInv, [Next]_vars
               PROVE  Datagrams!Next \/ UNCHANGED <<written, arrived>>
    OBVIOUS
  <2>1. CASE CommWrite
    BY <2>1 DEF CommWrite, receiver, Datagrams!Next, Datagrams!Write
  <2>2. CASE SendPacket
    BY <2>2 DEF SendPacket, receiver
  <2>3. CASE ReadRaw
    <3> DEFINE p == Head(fifo)
    <3>1. UNCHANGED written /\ fifo # <<>> /\ fifo' = Tail(fifo) /\ Reassemble(p)
      BY <2>3 DEF ReadRaw, sender
    <3>2. UNCHANGED arrived \/ arrived' = Append(arrived, p.msg)
      BY <3>1, ReassembleCases DEF receiver
    <3>3. p = fifo[1] /\ 1 \in 1..Len(fifo)
      BY <3>1, TakeFacts
    <3>4. /\ Latest \in Nat /\ written \in Nat /\ p.msg \in Nat
          /\ Latest < p.msg /\ p.msg <= written
      BY <3>3, TypeFacts, MsgsAssumption DEF IInv, TypeOK, PacketsInv, OrderInv
    <3>5. p.msg \in (Latest + 1)..written
      BY <3>4
    <3>6. Latest = Datagrams!Latest
      BY DEF Latest, Datagrams!Latest
    <3> HIDE DEF p
    <3> QED BY <3>1, <3>2, <3>5, <3>6 DEF Datagrams!Next, Datagrams!Arrive
  <2>4. CASE CommRead \/ HopAway \/ HopBack \/ UNCHANGED vars
    BY <2>4 DEF CommRead, HopAway, HopBack, vars, sender, receiver
  <2> QED BY <2>1, <2>2, <2>3, <2>4 DEF Next
<1> QED BY <1>1, <1>2, Order, PTL DEF Spec, ChannelSpec, Datagrams!Spec

---------------------------------------------------------------------------
(* Whole messages.                                                         *)

(* The beginnings of a message.                                            *)
LEMMA PrefixFacts ==
    ASSUME NEW m, NEW k \in Nat
    PROVE  /\ Append(Prefix(m, k), <<m, k>>) = Prefix(m, k + 1)
           /\ Len(Prefix(m, k)) = k
           /\ Prefix(m, 0) = <<>>
<1> DEFINE e == <<m, k>>
           S == {<<m, i>> : i \in Nat}
           s == Prefix(m, k)
           t == Prefix(m, k + 1)
<1>1. s \in Seq(S) /\ Len(s) = k /\ \A i \in 1..k : s[i] = <<m, i - 1>>
  BY DEF Prefix
<1>2. t \in Seq(S) /\ Len(t) = k + 1 /\ \A i \in 1..(k + 1) : t[i] = <<m, i - 1>>
  BY DEF Prefix
<1>3. e \in S /\ k + 1 - 1 = k
  OBVIOUS
<1>4. t[k + 1] = e
  BY <1>2, <1>3
<1> HIDE DEF e, S, s, t
<1>5. /\ Append(s, e) \in Seq(S) /\ Len(Append(s, e)) = k + 1
      /\ \A i \in 1..k : Append(s, e)[i] = s[i]
      /\ Append(s, e)[k + 1] = e
  BY <1>1, <1>3, AppendFacts
<1>6. \A i \in 1..(k + 1) : Append(s, e)[i] = t[i]
  <2>1. \A i \in 1..k : i \in 1..(k + 1)
    OBVIOUS
  <2>2. \A i \in 1..k : s[i] = t[i]
    BY <1>1, <1>2, <2>1
  <2>3. \A i \in 1..(k + 1) : i \in 1..k \/ i = k + 1
    OBVIOUS
  <2> QED BY <1>4, <1>5, <2>2, <2>3
<1>7. Append(s, e) = t
  BY <1>2, <1>5, <1>6, SeqEqual
<1>8. Prefix(m, 0) = <<>>
  BY DEF Prefix
<1> QED BY <1>1, <1>7, <1>8 DEF e, s, t

(* The packet read next continues the message being reassembled, or it     *)
(* begins one.                                                             *)
LEMMA JoinedPrefix ==
    ASSUME IInv, StayInv, fifo # <<>>, rx = <<>>, Expected(fifo[1]) = fifo[1].nseq
    PROVE  Joined(fifo[1]) = Prefix(fifo[1].msg, fifo[1].nseq + 1)
<1> DEFINE p == fifo[1]
<1>1. 1 \in 1..Len(fifo)
  BY LastFacts DEF IInv, TypeOK
<1>2. /\ p.msg \in 1..MaxMsgs /\ p.nseq \in Nat /\ p.nseq < Size[p.msg]
      /\ Size[p.msg] \in Nat /\ Size[p.msg] <= MaxFrags /\ MaxFrags \in Nat
  BY <1>1, TypeFacts, SizeFacts, FragsAssumption DEF IInv, PacketsInv
<1>3. CASE p.nseq = 0
  <2>1. Joined(p) = Append(<<>>, <<p.msg, 0>>)
    BY <1>2, <1>3 DEF Joined
  <2> HIDE DEF p
  <2>2. Append(Prefix(p.msg, 0), <<p.msg, 0>>) = Prefix(p.msg, 0 + 1) /\ Prefix(p.msg, 0) = <<>>
    BY PrefixFacts
  <2> QED BY <1>3, <2>1, <2>2 DEF p
<1>4. CASE p.nseq # 0
  <2>1. seqnumber_rx = p.nseq
    BY <1>4 DEF Expected
  <2>2. buffer_rx = Prefix(p.msg, p.nseq)
    BY <1>4, <2>1 DEF StayInv, PartialInv, Follows
  <2>3. Len(Prefix(p.msg, p.nseq)) = p.nseq
    BY <1>2, PrefixFacts
  <2>4. Joined(p) = Append(Prefix(p.msg, p.nseq), <<p.msg, p.nseq>>)
    BY <1>2, <1>4, <2>2, <2>3 DEF Joined
  <2> QED BY <1>2, <2>4, PrefixFacts
<1> QED BY <1>3, <1>4

(* hal_comm_write.                                                         *)
LEMMA WriteWhole ==
    ASSUME IInv, StayInv, CommWrite
    PROVE  StayInv'
<1>1. /\ tx = 0 /\ written' = written + 1 /\ tx' = written + 1
      /\ UNCHANGED <<seqnumber_tx, fifo, away, seqnumber_rx, buffer_rx, rx>>
  BY DEF CommWrite, place, receiver
<1>2. seqnumber_tx = 0 /\ written \in Nat
  BY <1>1, MsgsAssumption DEF IInv, TypeOK, SenderInv
<1>3. Arriving'.nseq = 0
  BY <1>1, <1>2 DEF Arriving
<1>4. 1..written \subseteq 1..written'
  BY <1>1, <1>2
<1>5. NoGapInv'
  BY <1>1, <1>3 DEF StayInv, NoGapInv, Follows
<1>6. PartialInv'
  BY <1>1, <1>3, <1>4 DEF StayInv, PartialInv, Follows
<1>7. WholeMessages'
  BY <1>1, <1>4 DEF StayInv, WholeMessages, Whole
<1> QED BY <1>1, <1>5, <1>6, <1>7 DEF StayInv

(* A turn of write_raw.                                                    *)
LEMMA SendWhole ==
    ASSUME IInv, StayInv, SendPacket
    PROVE  StayInv'
<1> DEFINE p == Arriving
           n == Len(fifo)
<1>1. /\ tx # 0 /\ UNCHANGED <<written, away, seqnumber_rx, buffer_rx, rx>>
  BY DEF SendPacket, place, receiver
<1>2. /\ p \in Packet /\ p.msg = tx /\ p.nseq = seqnumber_tx
      /\ seqnumber_tx \in Nat /\ tx \in 1..MaxMsgs
  BY <1>1, ArrivingFacts
<1>3. fifo \in Seq(Packet) /\ n \in Nat
  BY DEF IInv, TypeOK
<1>4. WholeMessages' /\ ~away'
  BY <1>1 DEF StayInv, WholeMessages, Whole
<1>5. /\ GiveUp => tx' = 0
      /\ Acknowledged => tx' = 0 \/ (tx' = tx /\ seqnumber_tx' = seqnumber_tx + 1)
  BY DEF GiveUp, Acknowledged
<1>6. tx' # 0 => Follows(p.msg, p.nseq + 1, Arriving')
  <2>1. tx' # 0 => tx' = tx /\ seqnumber_tx' = seqnumber_tx + 1
    BY <1>5 DEF SendPacket
  <2>2. Arriving'.msg = tx' /\ Arriving'.nseq = seqnumber_tx'
    BY DEF Arriving
  <2> QED BY <1>2, <2>1, <2>2 DEF Follows
<1>7. fifo # <<>> => Follows(fifo[n].msg, fifo[n].nseq + 1, p)
  BY <1>1 DEF StayInv, NoGapInv
<1>8. fifo = <<>> => n = 0
  OBVIOUS
<1>9. fifo # <<>> => n >= 1
  BY <1>3, LastFacts
<1>10. \/ seqnumber_rx = 0 /\ buffer_rx = <<>>
       \/ /\ seqnumber_rx # 0 /\ rx = <<>>
          /\ \E m \in 1..written :
                /\ buffer_rx = Prefix(m, seqnumber_rx)
                /\ fifo # <<>> => Follows(m, seqnumber_rx, fifo[1])
                /\ fifo = <<>> => Follows(m, seqnumber_rx, p)
  BY <1>1 DEF StayInv, PartialInv
<1> HIDE DEF p
<1>11. CASE CanArrive /\ fifo' = Append(fifo, p) /\ (Acknowledged \/ GiveUp)
  <2>1. /\ fifo' \in Seq(Packet) /\ Len(fifo') = n + 1
        /\ \A i \in 1..n : fifo'[i] = fifo[i]
        /\ fifo'[n + 1] = p /\ fifo' # <<>>
    BY <1>2, <1>3, <1>11, AppendFacts
  <2>2. \A i \in 1..(Len(fifo') - 1) :
           Follows(fifo'[i].msg, fifo'[i].nseq + 1, fifo'[i + 1])
    <3> SUFFICES ASSUME NEW i \in 1..n
                 PROVE  Follows(fifo'[i].msg, fifo'[i].nseq + 1, fifo'[i + 1])
      BY <1>3, <2>1
    <3>1. CASE i = n
      <4>1. fifo # <<>>
        BY <1>8, <3>1
      <4> QED BY <1>7, <2>1, <3>1, <4>1
    <3>2. CASE i # n
      <4>1. i \in 1..(n - 1) /\ i + 1 \in 1..n
        BY <1>3, <3>2
      <4>2. fifo'[i] = fifo[i] /\ fifo'[i + 1] = fifo[i + 1]
        BY <2>1, <4>1
      <4> QED BY <4>1, <4>2 DEF StayInv, NoGapInv
    <3> QED BY <3>1, <3>2
  <2>3. NoGapInv'
    <3>1. tx' # 0 => Follows(fifo'[Len(fifo')].msg, fifo'[Len(fifo')].nseq + 1, Arriving')
      BY <1>6, <2>1
    <3> QED BY <2>2, <3>1 DEF NoGapInv
  <2>4. /\ fifo # <<>> => fifo'[1] = fifo[1]
        /\ fifo = <<>> => fifo'[1] = p
    BY <1>3, <1>8, <1>9, <2>1
  <2>5. PartialInv'
    BY <1>1, <1>10, <2>1, <2>4 DEF PartialInv
  <2> QED BY <1>4, <2>3, <2>5 DEF StayInv
<1>12. CASE GiveUp /\ UNCHANGED fifo
  <2>1. NoGapInv' /\ PartialInv'
    BY <1>1, <1>5, <1>10, <1>12 DEF StayInv, NoGapInv, PartialInv
  <2> QED BY <1>4, <2>1 DEF StayInv
<1> QED BY <1>11, <1>12 DEF SendPacket, p

(* A turn of read_raw.                                                     *)
LEMMA ReadWhole ==
    ASSUME IInv, StayInv, ReadRaw
    PROVE  StayInv'
<1> DEFINE p == fifo[1]
<1>1. /\ fifo # <<>> /\ fifo' = Tail(fifo) /\ Reassemble(Head(fifo))
      /\ UNCHANGED <<written, tx, seqnumber_tx, away>>
  BY DEF ReadRaw, sender, place
<1>2. /\ Head(fifo) = p /\ p \in Packet /\ 1 \in 1..Len(fifo)
      /\ Len(fifo) \in Nat /\ Len(fifo') = Len(fifo) - 1 /\ fifo' \in Seq(Packet)
      /\ \A i \in 1..Len(fifo') : i + 1 \in 1..Len(fifo) /\ fifo'[i] = fifo[i + 1]
  BY <1>1, TakeFacts
<1>3. /\ p.msg \in Nat /\ p.msg \in 1..MaxMsgs /\ p.nseq \in Nat
      /\ p.msg <= written
      /\ p.end <=> p.nseq + 1 = Size[p.msg]
      /\ written \in Nat
  BY <1>2, TypeFacts, MsgsAssumption DEF IInv, PacketsInv, TypeOK
<1>4. p.msg \in 1..written
  BY <1>3
<1>5. UNCHANGED Arriving
  BY <1>1 DEF Arriving, Last
<1>6. NoGapInv'
  <2>1. ASSUME NEW i \in 1..(Len(fifo') - 1)
        PROVE  Follows(fifo'[i].msg, fifo'[i].nseq + 1, fifo'[i + 1])
    <3>1. i \in 1..Len(fifo') /\ i + 1 \in 1..Len(fifo') /\ i + 1 \in 1..(Len(fifo) - 1)
      BY <1>2
    <3>2. fifo'[i] = fifo[i + 1] /\ fifo'[i + 1] = fifo[i + 1 + 1]
      BY <1>2, <3>1
    <3> QED BY <3>1, <3>2 DEF StayInv, NoGapInv
  <2>2. fifo' # <<>> => fifo'[Len(fifo')] = fifo[Len(fifo)]
    <3>1. fifo' # <<>> => Len(fifo') \in 1..Len(fifo') /\ Len(fifo') + 1 = Len(fifo)
      BY <1>2, LastFacts
    <3> QED BY <1>2, <3>1
  <2> QED BY <1>1, <1>5, <2>1, <2>2 DEF StayInv, NoGapInv
<1>7. /\ fifo' # <<>> => Follows(p.msg, p.nseq + 1, fifo'[1])
      /\ fifo' = <<>> /\ tx' # 0 => Follows(p.msg, p.nseq + 1, Arriving')
  <2>1. fifo' # <<>> => 1 \in 1..Len(fifo') /\ 1 \in 1..(Len(fifo) - 1)
    BY <1>2, LastFacts
  <2>2. fifo' # <<>> => fifo'[1] = fifo[1 + 1]
    BY <1>2, <2>1
  <2>3. fifo' = <<>> => Len(fifo) = 1
    BY <1>2
  <2> QED BY <1>1, <1>5, <2>1, <2>2, <2>3 DEF StayInv, NoGapInv
<1>8. rx = <<>> /\ Expected(p) = p.nseq => Joined(p) = Prefix(p.msg, p.nseq + 1)
  BY <1>1, JoinedPrefix
<1>9. CASE /\ rx # <<>> \/ Expected(p) # p.nseq
           /\ UNCHANGED receiver
  <2>1. UNCHANGED <<seqnumber_rx, buffer_rx, rx>>
    BY <1>9 DEF receiver
  <2>2. seqnumber_rx = 0 /\ buffer_rx = <<>>
    BY <1>1, <1>9 DEF StayInv, PartialInv, Follows, Expected
  <2>3. PartialInv'
    BY <2>1, <2>2 DEF PartialInv
  <2>4. WholeMessages'
    BY <1>1, <2>1 DEF StayInv, WholeMessages, Whole
  <2> QED BY <1>1, <1>6, <2>3, <2>4 DEF StayInv
<1>10. CASE /\ rx = <<>> /\ Expected(p) = p.nseq /\ p.end
            /\ rx' = Joined(p) /\ arrived' = Append(arrived, p.msg)
            /\ seqnumber_rx' = 0 /\ buffer_rx' = <<>>
  <2>1. rx' = Prefix(p.msg, Size[p.msg])
    BY <1>3, <1>8, <1>10
  <2> HIDE DEF p
  <2>2. rx' = Whole(p.msg)
    BY <2>1 DEF Prefix, Whole
  <2> USE DEF p
  <2>3. WholeMessages'
    BY <1>1, <1>4, <2>2 DEF WholeMessages, Whole
  <2>4. PartialInv'
    BY <1>10 DEF PartialInv
  <2> QED BY <1>1, <1>6, <2>3, <2>4 DEF StayInv
<1>11. CASE /\ rx = <<>> /\ Expected(p) = p.nseq /\ ~p.end
            /\ seqnumber_rx' = p.nseq + 1 /\ buffer_rx' = Joined(p)
            /\ UNCHANGED <<rx, arrived>>
  <2>1. seqnumber_rx' # 0 /\ rx' = <<>> /\ buffer_rx' = Prefix(p.msg, seqnumber_rx')
    BY <1>3, <1>8, <1>11
  <2>2. PartialInv'
    BY <1>1, <1>4, <1>7, <1>11, <2>1 DEF PartialInv
  <2>3. WholeMessages'
    BY <2>1 DEF WholeMessages
  <2> QED BY <1>1, <1>6, <2>2, <2>3 DEF StayInv
<1> HIDE DEF p
<1>12. Reassemble(p)
  BY <1>1, <1>2
<1> QED BY <1>9, <1>10, <1>11, <1>12, ReassembleCases

(* hal_comm_read: nothing is being reassembled while a message waits.      *)
LEMMA TakenWhole ==
    ASSUME StayInv, CommRead
    PROVE  StayInv'
<1>1. /\ rx # <<>> /\ rx' = <<>>
      /\ UNCHANGED <<written, tx, seqnumber_tx, fifo, away, seqnumber_rx, buffer_rx>>
  BY DEF CommRead, sender, place
<1>2. UNCHANGED Arriving
  BY <1>1 DEF Arriving, Last
<1>3. NoGapInv'
  BY <1>1, <1>2 DEF StayInv, NoGapInv
<1>4. PartialInv' /\ WholeMessages'
  BY <1>1 DEF StayInv, PartialInv, WholeMessages
<1> QED BY <1>1, <1>3, <1>4 DEF StayInv

(* As long as the receiver stays on the data channel, a message handed to  *)
(* the application is one that was written, with all its packets and       *)
(* nothing of another: whatever packets and acknowledgements are lost and  *)
(* however full the FIFO is.                                               *)
THEOREM AlwaysWholeWhileStaying == Spec => []WholeWhileStaying
<1>1. Init => WholeInv
  <2>1. Init => NoGapInv /\ PartialInv /\ WholeMessages /\ ~away
    BY DEF Init, NoGapInv, PartialInv, WholeMessages
  <2> QED BY <2>1 DEF WholeInv, StayInv
<1>2. IInv /\ WholeInv /\ [Next]_vars => WholeInv'
  <2> SUFFICES ASSUME IInv, WholeInv, [Next]_vars, stayed'
               PROVE  StayInv'
    BY DEF WholeInv, StayInv
  <2>1. stayed /\ StayInv
    <3>1. stayed
      BY DEF Next, vars, CommWrite, SendPacket, ReadRaw, CommRead, HopAway, HopBack, place
    <3> QED BY <3>1 DEF WholeInv, StayInv
  <2>2. ~HopAway /\ ~HopBack
    BY <2>1 DEF HopAway, HopBack, StayInv
  <2>3. CASE UNCHANGED vars
    <3>1. UNCHANGED <<written, tx, seqnumber_tx, fifo, away, seqnumber_rx, buffer_rx, rx>>
      BY <2>3 DEF vars, sender, receiver, place
    <3>2. UNCHANGED Arriving
      BY <3>1 DEF Arriving, Last
    <3> QED BY <2>1, <3>1, <3>2
            DEF StayInv, NoGapInv, PartialInv, WholeMessages, Whole
  <2> QED BY <2>1, <2>2, <2>3, WriteWhole, SendWhole, ReadWhole, TakenWhole DEF Next
<1>3. WholeInv => WholeWhileStaying
  BY DEF WholeInv, StayInv, WholeWhileStaying
<1> QED BY <1>1, <1>2, <1>3, Order, PTL DEF Spec

=============================================================================
