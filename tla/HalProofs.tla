----------------------------- MODULE HalProofs ------------------------------
(***************************************************************************)
(* The two parts of the HAL library that are proved on their own: timers   *)
(* (HalTime) for a clock of any width, with the table of recent beacons    *)
(* that is kept with them, and the EEPROM of a thing (StorageAvr) for      *)
(* blocks of any number and size.                                          *)
(***************************************************************************)
EXTENDS Beacons, StorageAvr, WellFoundedInduction, SequenceTheorems, TLAPS

---------------------------------------------------------------------------
(* Timers.                                                                 *)

(* The reading is the one at the start plus the elapsed time, wrapped at   *)
(* most once: an elapsed time stays below Modulus.                         *)
Position ==
    \/ now = start + elapsed
    \/ now = start + elapsed - Modulus

Inv == TypeOK /\ Position

(* What hal_timeout computes from a reading n and a start s that are e     *)
(* ticks apart.                                                            *)
LEMMA DifferenceValue ==
    ASSUME NEW n \in Reading, NEW s \in Reading, NEW e \in Reading,
           n = s + e \/ n = s + e - Modulus
    PROVE  \/ n >= s /\ Difference(n, s) = e
           \/ n < s /\ Difference(n, s) = e - 1
<1> USE ModulusAssumption DEF Reading
<1>1. CASE n >= s
  <2>1. n = s + e
    BY <1>1
  <2> QED BY <2>1, <1>1 DEF Difference
<1>2. CASE n < s
  <2>1. n + (Modulus - 1 - s) = e - 1
    BY <1>2
  <2>2. e - 1 \in 0..(Modulus - 1)
    BY <1>2
  <2>3. (e - 1) % Modulus = e - 1
    BY <2>2
  <2> QED BY <2>1, <2>3, <1>2 DEF Difference
<1> QED BY <1>1, <1>2

(* The value that hal_timeout compares in a state that satisfies Inv.      *)
LEMMA TimerValue ==
    ASSUME Inv
    PROVE  \/ Difference(now, start) = elapsed
           \/ Difference(now, start) = elapsed - 1
  BY DifferenceValue DEF Inv, TypeOK, Position

(* The invariant holds in every reachable state.                           *)
THEOREM Invariance == TimerSpec => []Inv
<1>1. TimerInit => Inv
  BY ModulusAssumption DEF TimerInit, Inv, TypeOK, Position, Reading
<1>2. Inv /\ [TimerNext]_timerVars => Inv'
  <2> SUFFICES ASSUME Inv, [TimerNext]_timerVars PROVE Inv'
    OBVIOUS
  <2> USE ModulusAssumption DEF Inv, TypeOK, Position, Reading
  <2>1. CASE Tick
    <3>1. now' = IF now + 1 = Modulus THEN 0 ELSE now + 1
      BY <2>1 DEF Tick
    <3> QED BY <2>1, <3>1 DEF Tick
  <2>2. CASE Restart
    BY <2>2 DEF Restart
  <2>3. CASE UNCHANGED timerVars
    BY <2>3 DEF timerVars
  <2> QED BY <2>1, <2>2, <2>3 DEF TimerNext
<1> QED BY <1>1, <1>2, PTL DEF TimerSpec

(* hal_timeout never flags a timeout before its time.                      *)
THEOREM TimeoutNeverEarly == TimerSpec => []NeverEarly
<1>1. Inv => NeverEarly
  BY TimerValue, ModulusAssumption DEF NeverEarly, HalTimeout, Inv, TypeOK, Reading
<1> QED BY <1>1, Invariance, PTL

(* hal_timeout flags a timeout at most one tick after its time.            *)
THEOREM TimeoutAtMostOneLate == TimerSpec => []AtMostOneLate
<1>1. Inv => AtMostOneLate
  BY TimerValue, ModulusAssumption DEF AtMostOneLate, HalTimeout, Inv, TypeOK, Reading
<1> QED BY <1>1, Invariance, PTL

---------------------------------------------------------------------------
(* The table of beacons.                                                   *)

(* At the last sweep a listed device was not older than the timeout, and   *)
(* both it and the sweep have aged alike since.                            *)
BeaconInv ==
    /\ sweep \in 0..Period
    /\ listed => elapsed <= BCAST_TIMEOUT + sweep

(* The timer of an entry is one of module HalTime.                         *)
THEOREM BeaconsAreTimers == BeaconsSpec => TimerSpec
<1>1. BeaconsInit => TimerInit
  BY DEF BeaconsInit
<1>2. [BeaconsNext]_beaconVars => [TimerNext]_timerVars
  BY DEF BeaconsNext, EvtPresence, TimeoutIterator, TimePasses, TimerNext, beaconVars
<1> QED BY <1>1, <1>2, PTL DEF BeaconsSpec, TimerSpec

(* A sweep keeps only what is not older than the timeout.                  *)
LEMMA SweepKeeps ==
    ASSUME Inv, ~CheckTimeout
    PROVE  elapsed <= BCAST_TIMEOUT
<1>1. Difference(now, start) = elapsed \/ Difference(now, start) = elapsed - 1
  BY TimerValue
<1>2. elapsed \in Nat /\ BCAST_TIMEOUT \in Nat
  BY ModulusAssumption, BcastAssumption DEF Inv, TypeOK, Reading
<1>3. ~(Difference(now, start) >= BCAST_TIMEOUT)
  BY DEF CheckTimeout, HalTimeout
<1> QED BY <1>1, <1>2, <1>3

(* Every step keeps the two together.                                      *)
LEMMA BeaconStep ==
    ASSUME BeaconInv, Inv, [BeaconsNext]_beaconVars
    PROVE  BeaconInv'
<1>1. elapsed \in Nat /\ sweep \in 0..Period /\ BCAST_TIMEOUT \in Nat /\ Period \in Nat
  BY ModulusAssumption, BcastAssumption DEF BeaconInv, Inv, TypeOK, Reading
<1>2. CASE EvtPresence
  <2>1. elapsed' = 0 /\ sweep' = sweep
    BY <1>2 DEF EvtPresence, Restart
  <2>2. 0 <= BCAST_TIMEOUT + sweep
    BY <1>1
  <2> QED BY <1>1, <2>1, <2>2 DEF BeaconInv
<1>3. CASE TimeoutIterator
  <2>1. elapsed' = elapsed /\ sweep' = 0 /\ (listed' => ~CheckTimeout)
    BY <1>3 DEF TimeoutIterator, timerVars
  <2>2. listed' => elapsed <= BCAST_TIMEOUT + 0
    <3>1. ASSUME listed' PROVE elapsed <= BCAST_TIMEOUT
      BY <2>1, <3>1, SweepKeeps
    <3>2. BCAST_TIMEOUT + 0 = BCAST_TIMEOUT
      BY <1>1
    <3> QED BY <3>1, <3>2
  <2>3. sweep' \in 0..Period
    BY <1>1, <2>1
  <2> QED BY <2>1, <2>2, <2>3 DEF BeaconInv
<1>4. CASE TimePasses
  <2>1. elapsed' = elapsed + 1 /\ sweep' = sweep + 1 /\ sweep < Period /\ listed' = listed
    BY <1>4 DEF TimePasses, Tick
  <2>2. ASSUME elapsed <= BCAST_TIMEOUT + sweep
        PROVE  elapsed + 1 <= BCAST_TIMEOUT + (sweep + 1)
    BY <1>1, <2>2
  <2>3. sweep + 1 \in 0..Period
    BY <1>1, <2>1
  <2> QED BY <2>1, <2>2, <2>3 DEF BeaconInv
<1>5. CASE UNCHANGED beaconVars
  BY <1>5 DEF beaconVars, timerVars, BeaconInv
<1> QED BY <1>2, <1>3, <1>4, <1>5 DEF BeaconsNext

(* A listed device has sent a beacon recently.                             *)
THEOREM ListedAreRecent == BeaconsSpec => []ListedIsRecent
<1>1. BeaconsInit => BeaconInv
  <2>1. 0 \in 0..Period
    BY BcastAssumption
  <2> QED BY <2>1 DEF BeaconsInit, BeaconInv
<1>2. Inv /\ BeaconInv => ListedIsRecent
  <2>1. ASSUME Inv, BeaconInv, elapsed <= BCAST_TIMEOUT + sweep
        PROVE  elapsed <= BCAST_TIMEOUT + Period
    <3>1. elapsed \in Nat /\ sweep \in 0..Period
      BY <2>1, ModulusAssumption DEF BeaconInv, Inv, TypeOK, Reading
    <3> QED BY <2>1, <3>1, BcastAssumption
  <2> QED BY <2>1 DEF BeaconInv, ListedIsRecent
<1> QED BY <1>1, <1>2, BeaconStep, BeaconsAreTimers, Invariance, PTL DEF BeaconsSpec

---------------------------------------------------------------------------
(* Where the blocks of the EEPROM lie.                                     *)

Less == {ss \in Nat \X Nat : ss[1] < ss[2]}

(* A set of natural numbers that is not empty has a least element.         *)
LEMMA LeastElement ==
    ASSUME NEW S \in SUBSET Nat, S # {}
    PROVE  \E x \in S : \A y \in S : x <= y
<1>1. IsWellFoundedOn(Less, Nat)
  BY NatLessThanWellFounded DEF OpToRel, Less
<1>2. \A x, y \in Nat : y < x => <<y, x>> \in Less
  BY DEF Less
<1>3. PICK x \in S : \A y \in S : ~(<<y, x>> \in Less)
  BY <1>1, WFMin
<1>4. \A y \in S : ~(y < x)
  BY <1>2, <1>3
<1>5. \A y \in S : x <= y
  BY <1>4
<1> QED BY <1>5

(* The addresses exist: a first block without one would be preceded by a   *)
(* block that has one.                                                     *)
LEMMA AddressDef ==
    Address = [i \in 0..Len(BlockSize) |->
                 IF i = 0 THEN EepromSize ELSE Address[i - 1] - BlockSize[i]]
<1> DEFINE n == Len(BlockSize)
           Next1(f, i) == IF i = 0 THEN EepromSize ELSE f[i - 1] - BlockSize[i]
           Exists(m) == \E f : f = [i \in 0..m |-> Next1(f, i)]
           missing == {m \in 0..n : ~Exists(m)}
<1>1. n \in Nat
  BY BlocksAssumption
<1> HIDE DEF n
<1>2. missing = {}
  <2> SUFFICES ASSUME missing # {} PROVE FALSE
    OBVIOUS
  <2>1. missing \in SUBSET Nat
    BY <1>1
  <2>2. PICK m \in missing : \A k \in missing : m <= k
    BY <2>1, LeastElement
  <2>3. m \in 0..n /\ m \in Nat /\ ~Exists(m)
    BY <1>1, <2>2
  <2>4. m # 0
    <3> DEFINE f == [i \in 0..0 |-> EepromSize]
    <3>1. f = [i \in 0..0 |-> Next1(f, i)]
      OBVIOUS
    <3> HIDE DEF f
    <3>2. Exists(0)
      BY <3>1
    <3> QED BY <2>3, <3>2
  <2>5. m - 1 \in 0..n /\ m - 1 \in Nat /\ ~(m <= m - 1)
    BY <1>1, <2>3, <2>4
  <2>6. Exists(m - 1)
    BY <2>2, <2>5
  <2>7. PICK g : g = [i \in 0..(m - 1) |-> Next1(g, i)]
    BY <2>6
  <2> DEFINE f == [i \in 0..m |-> IF i <= m - 1 THEN g[i] ELSE g[m - 1] - BlockSize[m]]
  <2>8. ASSUME NEW i \in 0..m
        PROVE  f[i] = Next1(f, i)
    <3>1. i \in Nat /\ i <= m
      BY <2>3
    <3>2. CASE i = m
      <4>1. f[m] = g[m - 1] - BlockSize[m]
        BY <2>3, <2>5
      <4>2. f[m - 1] = g[m - 1]
        BY <2>3, <2>5
      <4> QED BY <2>4, <3>2, <4>1, <4>2
    <3>3. CASE i # m
      <4>1. i \in 0..(m - 1) /\ f[i] = g[i]
        BY <2>3, <3>1, <3>3
      <4>2. g[i] = Next1(g, i)
        BY <2>7, <4>1
      <4>3. i # 0 => f[i - 1] = g[i - 1]
        BY <2>3, <3>1, <3>3
      <4> HIDE DEF f
      <4> QED BY <4>1, <4>2, <4>3
    <3> QED BY <3>2, <3>3
  <2>9. f = [i \in 0..m |-> f[i]]
    OBVIOUS
  <2> HIDE DEF f
  <2>10. f = [i \in 0..m |-> Next1(f, i)]
    BY <2>8, <2>9
  <2> QED BY <2>3, <2>10
<1>3. Exists(n)
  <2>1. n \in 0..n
    BY <1>1
  <2> HIDE DEF Exists
  <2> QED BY <1>2, <2>1
<1>4. \E f : f = [i \in 0..Len(BlockSize) |->
                    IF i = 0 THEN EepromSize ELSE f[i - 1] - BlockSize[i]]
  BY <1>3, Zenon DEF n
<1> QED BY <1>4, Zenon DEF Address

(* The only fact about this number that is needed.                         *)
LEMMA ErasedFact == ErasedSize \in Nat
  BY DEF ErasedSize

(* Each block lies directly below the one before it.                       *)
LEMMA AddressFacts ==
    /\ Len(BlockSize) \in Nat /\ Fixed = 1..Len(BlockSize)
    /\ \A i \in Fixed : BlockSize[i] \in Nat \ {0}
    /\ Address[0] = EepromSize
    /\ \A i \in 0..Len(BlockSize) : Address[i] \in Int
    /\ \A i \in Fixed : Address[i - 1] = Address[i] + BlockSize[i]
<1> DEFINE n == Len(BlockSize)
           missing == {m \in 0..n : Address[m] \notin Int}
<1>1. n \in Nat /\ Fixed = 1..n /\ \A i \in 1..n : BlockSize[i] \in Nat \ {0}
  <2>1. BlockSize \in Seq(Nat \ {0})
    BY BlocksAssumption, Zenon
  <2> QED BY <2>1 DEF Fixed
<1>2. EepromSize \in Int
  BY EepromAssumption, ErasedFact
<1> HIDE DEF n
<1>3. \A i \in 0..n : Address[i] = IF i = 0 THEN EepromSize ELSE Address[i - 1] - BlockSize[i]
  BY AddressDef DEF n
<1>4. Address[0] = EepromSize
  BY <1>1, <1>3
<1>5. \A i \in 1..n : Address[i] = Address[i - 1] - BlockSize[i]
  BY <1>1, <1>3
<1>6. missing = {}
  <2> SUFFICES ASSUME missing # {} PROVE FALSE
    OBVIOUS
  <2>1. missing \in SUBSET Nat
    BY <1>1
  <2>2. PICK m \in missing : \A k \in missing : m <= k
    BY <2>1, LeastElement
  <2>3. m \in 0..n /\ m \in Nat /\ Address[m] \notin Int
    BY <1>1, <2>2
  <2>4. m # 0
    BY <1>2, <1>4, <2>3
  <2>5. m \in 1..n /\ m - 1 \in 0..n /\ ~(m <= m - 1)
    BY <1>1, <2>3, <2>4
  <2>6. Address[m - 1] \in Int
    BY <2>2, <2>5
  <2>7. BlockSize[m] \in Int /\ Address[m] = Address[m - 1] - BlockSize[m]
    BY <1>1, <1>5, <2>5
  <2>8. Address[m] \in Int
    BY <2>6, <2>7
  <2> QED BY <2>3, <2>8
<1>7. \A i \in 1..n : Address[i - 1] = Address[i] + BlockSize[i]
  <2> SUFFICES ASSUME NEW i \in 1..n
               PROVE  Address[i - 1] = Address[i] + BlockSize[i]
    OBVIOUS
  <2>1. i - 1 \in 0..n /\ i \in 0..n
    BY <1>1
  <2>2. Address[i - 1] \in Int /\ Address[i] \in Int
    BY <1>6, <2>1
  <2> QED BY <1>1, <1>5, <2>2
<1> QED BY <1>1, <1>4, <1>6, <1>7 DEF n

(* A block lies above the next ones, so no two blocks share a cell, and    *)
(* all lie between the configuration's size and the end of the EEPROM.     *)
LEMMA LayoutFacts ==
    /\ OffsetConfig \in Nat /\ OffsetConfig + 2 <= EepromSize /\ OffsetConfig < ErasedSize
    /\ EepromSize \in Nat /\ ConfigMax \in Nat /\ ConfigMax <= OffsetConfig
    /\ \A i \in Fixed :
          /\ Address[i] \in Nat /\ BlockSize[i] \in Nat \ {0}
          /\ OffsetConfig + 2 <= Address[i] /\ Address[i] + BlockSize[i] <= EepromSize
    /\ \A i, j \in Fixed : i < j => Address[j] + BlockSize[j] <= Address[i]
<1> DEFINE n == Len(BlockSize)
<1>1. /\ n \in Nat /\ Fixed = 1..n /\ \A i \in 1..n : BlockSize[i] \in Nat \ {0}
      /\ Address[0] = EepromSize /\ \A i \in 0..n : Address[i] \in Int
      /\ \A i \in 1..n : Address[i - 1] = Address[i] + BlockSize[i]
  BY AddressFacts
<1>2. OffsetConfig = Address[n] - 2
  BY DEF OffsetConfig
<1> HIDE DEF n
<1>3. ASSUME NEW i \in 0..n, NEW j \in 0..n, i <= j
      PROVE  Address[j] <= Address[i]
  <2> DEFINE higher == {k \in i..n : ~(Address[k] <= Address[i])}
  <2>1. i \in Nat /\ i..n \subseteq 0..n
    BY <1>1
  <2>2. higher = {}
    <3> SUFFICES ASSUME higher # {} PROVE FALSE
      OBVIOUS
    <3>1. higher \in SUBSET Nat
      BY <1>1, <2>1
    <3>2. PICK k \in higher : \A l \in higher : k <= l
      BY <3>1, LeastElement
    <3>3. k \in i..n /\ k \in 0..n /\ k \in Nat /\ ~(Address[k] <= Address[i])
      BY <2>1, <3>1
    <3>4. k # i
      BY <1>1, <3>3
    <3>5. k - 1 \in i..n /\ k \in 1..n /\ k - 1 \in 0..n /\ ~(k <= k - 1)
      BY <1>1, <2>1, <3>3, <3>4
    <3>6. Address[k - 1] <= Address[i]
      BY <3>2, <3>5
    <3>7. Address[k - 1] = Address[k] + BlockSize[k] /\ BlockSize[k] \in Nat
      BY <1>1, <3>5
    <3>8. Address[k] \in Int /\ Address[k - 1] \in Int /\ Address[i] \in Int
      BY <1>1, <3>3, <3>5
    <3>9. Address[k] <= Address[i]
      BY <3>6, <3>7, <3>8
    <3> QED BY <3>3, <3>9
  <2>3. j \in i..n
    BY <1>1, <1>3, <2>1
  <2> QED BY <2>2, <2>3
<1>4. EepromSize \in Nat /\ EepromSize <= ErasedSize /\ ErasedSize \in Nat
  BY EepromAssumption, ErasedFact
<1>5. /\ OffsetConfig \in Nat /\ ConfigMax \in Nat /\ ConfigMax <= OffsetConfig
      /\ OffsetConfig + 2 = Address[n]
  <2>1. Address[n] \in Int
    BY <1>1
  <2>2. OffsetConfig \in Int /\ OffsetConfig + 2 = Address[n]
    BY <1>2, <2>1
  <2> QED BY <2>2, LayoutAssumption
<1>6. OffsetConfig + 2 <= EepromSize
  BY <1>1, <1>3, <1>5
<1>7. OffsetConfig < ErasedSize
  BY <1>4, <1>5, <1>6
<1>8. ASSUME NEW i \in 1..n
      PROVE  /\ Address[i] \in Nat /\ BlockSize[i] \in Nat \ {0}
             /\ OffsetConfig + 2 <= Address[i] /\ Address[i] + BlockSize[i] <= EepromSize
  <2>1. i \in 0..n /\ i - 1 \in 0..n /\ i <= n /\ 0 <= i - 1 /\ 0 \in 0..n /\ n \in 0..n
    BY <1>1
  <2>2. Address[n] <= Address[i] /\ Address[i - 1] <= Address[0]
    BY <1>3, <2>1
  <2>3. Address[i] \in Int /\ Address[i - 1] = Address[i] + BlockSize[i]
    BY <1>1, <2>1
  <2>4. OffsetConfig + 2 <= Address[i] /\ Address[i] + BlockSize[i] <= EepromSize
    BY <1>1, <1>5, <2>2, <2>3
  <2> QED BY <1>1, <1>5, <2>3, <2>4
<1>9. ASSUME NEW i \in 1..n, NEW j \in 1..n, i < j
      PROVE  Address[j] + BlockSize[j] <= Address[i]
  <2>1. i \in 0..n /\ j - 1 \in 0..n /\ i <= j - 1
    BY <1>1, <1>9
  <2>2. Address[j - 1] <= Address[i]
    BY <1>3, <2>1
  <2> QED BY <1>1, <2>2
<1> QED BY <1>1, <1>4, <1>5, <1>6, <1>7, <1>8, <1>9

(* The smaller and the greater of two numbers.                             *)
LEMMA PairFacts ==
    ASSUME NEW a \in Int, NEW b \in Int
    PROVE  /\ Min({a, b}) = IF a <= b THEN a ELSE b
           /\ Max({a, b}) = IF a >= b THEN a ELSE b
  BY DEF Min, Max

---------------------------------------------------------------------------
(* The invariant of the EEPROM.                                            *)

Write == [id : Id \cup {General}, dst : 0..EepromSize, value : Seq(Byte)]

(* A write stays within its block; one of hal_storage_write stays below    *)
(* the configuration.                                                      *)
WellPlaced(w, size) ==
    LET len == Len(w.value)
    IN  /\ w.id \in Fixed => len \in 1..BlockSize[w.id] /\ w.dst = Address[w.id]
        /\ w.id = Config => len <= ConfigMax /\ w.dst = OffsetConfig - len
        /\ w.id = General => /\ len # 0 /\ size <= OffsetConfig
                             /\ w.dst + len <= OffsetConfig - size

(* The writes of a call are of different blocks; hal_storage_write has one.*)
Calls(q) ==
    /\ q \in Seq(Write)
    /\ \A k \in DOMAIN q : q[k].id = General => Len(q) = 1
    /\ \A j, k \in DOMAIN q : q[j].id = q[k].id => j = k

CallInv == Calls(queue) /\ \A k \in DOMAIN queue : WellPlaced(queue[k], config_size)

(* A cell of a write holds what was to be written.                         *)
Stored(cells, size, w, a) ==
    IF a = OffsetConfig THEN size = Len(w.value) ELSE cells[a] = w.value[a - w.dst + 1]

(* The size of the configuration comes first, and what is not left is done.*)
ProgressInv ==
    queue # <<>> =>
        /\ left \subseteq Cells(Head(queue))
        /\ OffsetConfig \in left => left = Cells(Head(queue))
        /\ \A a \in Cells(Head(queue)) \ left : Stored(eeprom, config_size, Head(queue), a)

StorageInv == StorageTypeOK /\ CallInv /\ ProgressInv

(* The identifiers.                                                        *)
LEMMA IdFacts ==
    /\ Config \notin Fixed /\ General \notin Fixed /\ Config # General
    /\ Config \in Id /\ General \notin Id /\ Fixed \subseteq Id
    /\ \A i \in Id : i \in Fixed \/ i = Config
  BY AddressFacts DEF Config, General, Id

(* Cells of the blocks.                                                    *)
BlockCells(i) == Address[i] .. (Address[i] + BlockSize[i] - 1)

(* Where a write goes: into its block, or below the configuration.         *)
LEMMA CellFacts ==
    ASSUME NEW w \in Write, NEW size \in Size, WellPlaced(w, size)
    PROVE  /\ Cells(w) # {} /\ Cells(w) \subseteq Cell \cup {OffsetConfig}
           /\ OffsetConfig \in Cells(w) <=> w.id = Config
           /\ \A a \in Cells(w) : a \in Nat
           /\ \A a \in Cells(w) \ {OffsetConfig} :
                 /\ a - w.dst + 1 \in 1..Len(w.value) /\ w.value[a - w.dst + 1] \in Byte
                 /\ w.id \in Fixed => a \in BlockCells(w.id)
                 /\ w.id = Config => OffsetConfig - Len(w.value) <= a /\ a < OffsetConfig
                 /\ w.id = General => size <= OffsetConfig /\ a < OffsetConfig - size
<1> DEFINE len == Len(w.value)
           dst == w.dst
           id == w.id
           these == dst .. (dst + len - 1)
<1>1. id \in Id \cup {General} /\ dst \in 0..EepromSize /\ w.value \in Seq(Byte)
  BY DEF Write
<1>2. len \in Nat /\ \A k \in 1..len : w.value[k] \in Byte
  BY <1>1
<1>3. dst \in Nat
  BY <1>1, LayoutFacts
<1>4. /\ id \in Fixed => len \in 1..BlockSize[id] /\ dst = Address[id]
      /\ id = Config => len <= ConfigMax /\ dst = OffsetConfig - len
      /\ id = General => len # 0 /\ size <= OffsetConfig /\ dst + len <= OffsetConfig - size
  BY DEF WellPlaced
<1>5. Cells(w) = these \cup (IF id = Config THEN {OffsetConfig} ELSE {})
  BY DEF Cells
<1>6. \A a \in Cells(w) : a \in these \/ (id = Config /\ a = OffsetConfig)
  BY <1>5
<1>7. these \subseteq Cells(w) /\ (id = Config => OffsetConfig \in Cells(w))
  BY <1>5
<1>8. size \in Nat
  BY LayoutFacts, ErasedFact DEF Size
<1> HIDE DEF len, dst, id
<1>9. id \in Fixed \/ id = Config \/ id = General
  BY <1>1, IdFacts
<1>10. \A a \in these : a \in Nat /\ a - dst + 1 \in 1..len /\ dst <= a /\ a < dst + len
  BY <1>2, <1>3
<1>11. CASE id \in Fixed
  <2>1. /\ len \in Nat /\ len # 0 /\ len <= BlockSize[id] /\ dst = Address[id]
        /\ BlockSize[id] \in Nat /\ Address[id] \in Nat /\ OffsetConfig \in Nat
        /\ OffsetConfig + 2 <= Address[id] /\ Address[id] + BlockSize[id] <= EepromSize
        /\ EepromSize \in Nat
    BY <1>2, <1>4, <1>11, LayoutFacts
  <2>2. dst \in these
    BY <1>3, <2>1
  <2>3. \A a \in these : a \in BlockCells(id) /\ a \in Cell /\ a # OffsetConfig
    BY <1>10, <2>1 DEF BlockCells, Cell
  <2>4. id # Config /\ id # General
    BY <1>11, IdFacts
  <2> QED BY <1>2, <1>6, <1>7, <1>10, <2>2, <2>3, <2>4 DEF id, dst, len
<1>12. CASE id = Config
  <2>1. /\ len <= ConfigMax /\ dst = OffsetConfig - len /\ ConfigMax \in Nat
        /\ ConfigMax <= OffsetConfig /\ OffsetConfig \in Nat
    BY <1>4, <1>12, LayoutFacts
  <2>2. \A a \in these : OffsetConfig - len <= a /\ a < OffsetConfig /\ a \in Cell
    BY <1>2, <1>10, <2>1 DEF Cell
  <2>3. id \notin Fixed /\ id # General
    BY <1>12, IdFacts
  <2> QED BY <1>2, <1>6, <1>7, <1>10, <1>12, <2>1, <2>2, <2>3 DEF id, dst, len
<1>13. CASE id = General
  <2>1. /\ len # 0 /\ size <= OffsetConfig /\ dst + len <= OffsetConfig - size
        /\ OffsetConfig \in Nat
    BY <1>4, <1>13, LayoutFacts
  <2>2. dst \in these
    BY <1>2, <1>3, <2>1
  <2>3. \A a \in these : a < OffsetConfig - size /\ a \in Cell /\ a # OffsetConfig
    BY <1>2, <1>3, <1>8, <1>10, <2>1 DEF Cell
  <2>4. id \notin Fixed /\ id # Config
    BY <1>13, IdFacts
  <2> QED BY <1>2, <1>6, <1>7, <1>10, <2>1, <2>2, <2>3, <2>4 DEF id, dst, len
<1> QED BY <1>9, <1>11, <1>12, <1>13

(* A call begins.                                                          *)
LEMMA BeginKeeps ==
    ASSUME StorageInv, NEW q, Calls(q), q # <<>>,
           \A k \in DOMAIN q : WellPlaced(q[k], config_size), Begin(q)
    PROVE  StorageInv'
<1>1. queue' = q /\ left' = Cells(Head(q)) /\ UNCHANGED <<eeprom, config_size>>
  BY DEF Begin
<1>2. q \in Seq(Write) /\ 1 \in DOMAIN q /\ Head(q) = q[1] /\ q[1] \in Write
  BY DEF Calls
<1>3. eeprom \in [Cell -> Byte] /\ config_size \in Size
  BY DEF StorageInv, StorageTypeOK
<1>4. WellPlaced(Head(q), config_size) /\ Head(q) \in Write
  BY <1>2
<1>5. Cells(Head(q)) # {} /\ Cells(Head(q)) \subseteq Cell \cup {OffsetConfig}
  BY <1>3, <1>4, CellFacts
<1>6. StorageTypeOK'
  BY <1>1, <1>3, <1>5 DEF StorageTypeOK
<1>7. CallInv'
  BY <1>1 DEF CallInv
<1>8. ProgressInv'
  BY <1>1 DEF ProgressInv
<1> QED BY <1>6, <1>7, <1>8 DEF StorageInv

(* What callers pass.                                                      *)
LEMMA ValueFacts ==
    ASSUME NEW value \in Value(MaxLength)
    PROVE  value \in Seq(Byte) /\ Len(value) \in 0..MaxLength
<1>1. PICK k \in 0..MaxLength : value \in [1..k -> Byte]
  BY DEF Value
<1>2. k \in Nat
  BY BlocksAssumption
<1>3. value \in Seq(Byte)
  BY <1>1, <1>2, SeqDef
<1>4. Len(value) = k
  BY <1>1, <1>2, <1>3
<1> QED BY <1>1, <1>3, <1>4

(* A single write is a call.                                               *)
LEMMA OneCall ==
    ASSUME NEW w \in Write
    PROVE  /\ Calls(<<w>>) /\ <<w>> # <<>> /\ DOMAIN <<w>> = {1} /\ <<w>>[1] = w
<1>1. <<w>> \in Seq(Write) /\ DOMAIN <<w>> = {1} /\ Len(<<w>>) = 1 /\ <<w>>[1] = w
  OBVIOUS
<1> QED BY <1>1 DEF Calls

(* hal_storage_read and hal_storage_write stay below the configuration.    *)
LEMMA WithinFacts ==
    ASSUME NEW addr \in Nat, NEW len \in Nat, config_size \in Size
    PROVE  /\ Within(addr, len) \in 0..len
           /\ Within(addr, len) # 0 =>
                 /\ config_size <= OffsetConfig
                 /\ addr + Within(addr, len) <= OffsetConfig - config_size
           /\ config_size <= OffsetConfig /\ addr + len <= OffsetConfig - config_size =>
                 Within(addr, len) = len
<1>1. OffsetConfig \in Nat /\ config_size \in Nat
  BY LayoutFacts, ErasedFact DEF Size
<1>2. Limit = IF config_size > OffsetConfig THEN 0 ELSE OffsetConfig - config_size
  BY DEF Limit
<1>3. Limit \in Int
  BY <1>1, <1>2
<1> DEFINE room == Limit - addr
           m == Min({len, room})
<1>4. room \in Int /\ m = IF len <= room THEN len ELSE room
  BY <1>3, PairFacts
<1> HIDE DEF m
<1>5. m \in Int
  BY <1>4
<1>6. Within(addr, len) = Max({0, m})
  BY DEF Within, m
<1>7. Within(addr, len) = IF 0 >= m THEN 0 ELSE m
  BY <1>5, <1>6, PairFacts
<1> QED BY <1>1, <1>2, <1>4, <1>5, <1>7

(* hal_storage_write.                                                      *)
LEMMA WriteKeeps ==
    ASSUME StorageInv, NEW addr \in 0..OffsetConfig, NEW value \in Value(MaxLength),
           StorageWrite(addr, value)
    PROVE  StorageInv'
<1> DEFINE n == Within(addr, Len(value))
           part == SubSeq(value, 1, n)
           w == [id |-> General, dst |-> addr, value |-> part]
<1>1. n > 0 /\ Begin(<<w>>)
  BY DEF StorageWrite
<1>2. value \in Seq(Byte) /\ Len(value) \in Nat
  BY ValueFacts
<1>3. addr \in Nat /\ addr <= EepromSize /\ config_size \in Size /\ config_size \in Nat
        /\ OffsetConfig \in Nat /\ EepromSize \in Nat
  BY LayoutFacts, ErasedFact DEF StorageInv, StorageTypeOK, Size
<1>4. n \in 0..Len(value)
  BY <1>2, <1>3, WithinFacts
<1>5. n # 0 => config_size <= OffsetConfig /\ addr + n <= OffsetConfig - config_size
  BY <1>2, <1>3, WithinFacts
<1> HIDE DEF n
<1>6. part \in Seq(Byte) /\ Len(part) = n
  BY <1>2, <1>4
<1> HIDE DEF part
<1>7. w \in Write /\ w.id = General /\ w.dst = addr /\ w.value = part
  BY <1>3, <1>6 DEF Write
<1>8. n # 0
  BY <1>1, <1>4
<1> HIDE DEF w
<1>9. WellPlaced(w, config_size)
  BY <1>5, <1>6, <1>7, <1>8, IdFacts DEF WellPlaced
<1>10. /\ Calls(<<w>>) /\ <<w>> # <<>>
       /\ \A k \in DOMAIN <<w>> : WellPlaced(<<w>>[k], config_size)
  BY <1>7, <1>9, OneCall
<1> QED BY <1>1, <1>10, BeginKeeps

(* A block that fits is a write that stays within its bounds.              *)
LEMMA BlockFacts ==
    ASSUME NEW id \in Id, NEW value \in Seq(Byte), Fits(id, Len(value)),
           id = Config \/ value # <<>>
    PROVE  /\ Block(id, value) \in Write
           /\ Block(id, value).id = id /\ Block(id, value).value = value
           /\ \A size : WellPlaced(Block(id, value), size)
<1> DEFINE len == Len(value)
           dst == BlockStart(id, len)
           w == [id |-> id, dst |-> dst, value |-> value]
<1>1. Block(id, value) = w
  BY DEF Block
<1>2. len \in Nat /\ (value # <<>> => len # 0)
  OBVIOUS
<1>3. id \in Fixed => len <= BlockSize[id] /\ dst = Address[id]
  BY IdFacts DEF Fits, BlockStart
<1>4. id = Config => len <= ConfigMax /\ dst = OffsetConfig - len
  BY DEF Fits, BlockStart
<1> HIDE DEF len, dst
<1>5. dst \in 0..EepromSize
  <2>1. CASE id \in Fixed
    <3>1. /\ Address[id] \in Nat /\ Address[id] + BlockSize[id] <= EepromSize
          /\ BlockSize[id] \in Nat /\ EepromSize \in Nat
      BY <2>1, LayoutFacts
    <3> QED BY <1>3, <2>1, <3>1
  <2>2. CASE id = Config
    <3>1. /\ ConfigMax \in Nat /\ ConfigMax <= OffsetConfig /\ OffsetConfig \in Nat
          /\ OffsetConfig + 2 <= EepromSize /\ EepromSize \in Nat
      BY LayoutFacts
    <3> QED BY <1>2, <1>4, <2>2, <3>1
  <2> QED BY <2>1, <2>2, IdFacts
<1>6. w \in Write /\ w.id = id /\ w.value = value /\ w.dst = dst
  BY <1>5 DEF Write
<1> HIDE DEF w
<1>7. \A size : WellPlaced(w, size)
  <2>1. id \in Fixed => len \in 1..BlockSize[id]
    <3>1. id \in Fixed => BlockSize[id] \in Nat /\ len # 0
      BY <1>2, LayoutFacts, IdFacts
    <3> QED BY <1>2, <1>3, <3>1
  <2>2. len = Len(w.value) /\ id # General
    BY <1>6, IdFacts DEF len
  <2> QED BY <1>3, <1>4, <1>6, <2>1, <2>2 DEF WellPlaced
<1> QED BY <1>1, <1>6, <1>7

(* hal_storage_write_end.                                                  *)
LEMMA WriteEndKeeps ==
    ASSUME StorageInv, NEW id \in Id, NEW value \in Value(MaxLength), WriteEnd(id, value)
    PROVE  StorageInv'
<1> DEFINE w == Block(id, value)
<1>1. Begin(<<w>>) /\ Fits(id, Len(value)) /\ (id = Config \/ value # <<>>)
  BY DEF WriteEnd
<1>2. value \in Seq(Byte)
  BY ValueFacts
<1>3. w \in Write /\ WellPlaced(w, config_size)
  BY <1>1, <1>2, BlockFacts
<1> HIDE DEF w
<1>4. /\ Calls(<<w>>) /\ <<w>> # <<>>
      /\ \A k \in DOMAIN <<w>> : WellPlaced(<<w>>[k], config_size)
  BY <1>3, OneCall
<1> QED BY <1>1, <1>4, BeginKeeps

(* What hal_storage_reset_end writes.                                      *)
Zeros(i) == [k \in 1..BlockSize[i] |-> 0]

ResetCalls ==
    [i \in 1..(Len(BlockSize) + 1) |->
        IF i \in Fixed THEN Block(i, Zeros(i)) ELSE Block(Config, <<>>)]

(* It writes every block once, and the configuration last.                 *)
LEMMA ResetFacts ==
    /\ Calls(ResetCalls) /\ ResetCalls # <<>>
    /\ \A k \in DOMAIN ResetCalls :
          /\ \A size : WellPlaced(ResetCalls[k], size)
          /\ ResetCalls[k].id \in Id
          /\ Len(ResetCalls[k].value) <= MaxLength
<1> DEFINE n == Len(BlockSize)
           idOf(i) == IF i \in Fixed THEN i ELSE Config
           valueOf(i) == IF i \in Fixed THEN Zeros(i) ELSE <<>>
           q == [i \in 1..(n + 1) |-> Block(idOf(i), valueOf(i))]
<1>1. n \in Nat /\ Fixed = 1..n /\ \A i \in Fixed : BlockSize[i] \in Nat \ {0}
  BY AddressFacts
<1>2. ResetCalls = q
  BY DEF ResetCalls
<1>3. ASSUME NEW i \in 1..(n + 1)
      PROVE  /\ idOf(i) \in Id /\ valueOf(i) \in Seq(Byte)
             /\ Fits(idOf(i), Len(valueOf(i))) /\ Len(valueOf(i)) <= MaxLength
             /\ idOf(i) = Config \/ valueOf(i) # <<>>
  <2>1. CASE i \in Fixed
    <3>1. BlockSize[i] \in Nat \ {0} /\ 0 \in Byte
      BY <1>1, <2>1, ByteAssumption
    <3>2. Zeros(i) \in Seq(Byte) /\ Len(Zeros(i)) = BlockSize[i] /\ Zeros(i) # <<>>
      BY <3>1 DEF Zeros
    <3>3. idOf(i) = i /\ valueOf(i) = Zeros(i) /\ i \in Id /\ i # Config
      BY <2>1, IdFacts
    <3>4. BlockSize[i] <= MaxLength
      BY <2>1, BlocksAssumption
    <3>5. Fits(i, BlockSize[i])
      BY <3>1, <3>3 DEF Fits
    <3> HIDE DEF idOf, valueOf
    <3> QED BY <3>2, <3>3, <3>4, <3>5
  <2>2. CASE i \notin Fixed
    <3>1. idOf(i) = Config /\ valueOf(i) = <<>> /\ Config \in Id
      BY <2>2, IdFacts
    <3>2. <<>> \in Seq(Byte) /\ Len(<<>>) = 0 /\ 0 <= MaxLength
      BY BlocksAssumption
    <3>3. Fits(Config, 0)
      BY LayoutFacts DEF Fits
    <3> HIDE DEF idOf, valueOf
    <3> QED BY <3>1, <3>2, <3>3
  <2> QED BY <2>1, <2>2
<1>4. \A i \in 1..(n + 1) : idOf(i) = IF i = n + 1 THEN Config ELSE i
  BY <1>1
<1> HIDE DEF n, idOf, valueOf
<1>5. ASSUME NEW i \in 1..(n + 1)
      PROVE  /\ q[i] \in Write /\ q[i].id = idOf(i) /\ q[i].value = valueOf(i)
             /\ \A size : WellPlaced(q[i], size)
  <2>1. q[i] = Block(idOf(i), valueOf(i))
    OBVIOUS
  <2> HIDE DEF q
  <2> QED BY <1>3, <2>1, BlockFacts
<1>6. DOMAIN q = 1..(n + 1) /\ q = [i \in 1..(n + 1) |-> q[i]] /\ n + 1 \in Nat
  BY <1>1
<1> HIDE DEF q
<1>7. q \in Seq(Write) /\ Len(q) = n + 1
  BY <1>5, <1>6
<1>8. q # <<>>
  BY <1>1, <1>7
<1>9. \A k \in DOMAIN q : q[k].id # General
  BY <1>3, <1>5, <1>6, IdFacts
<1>10. ASSUME NEW j \in DOMAIN q, NEW k \in DOMAIN q, q[j].id = q[k].id
       PROVE  j = k
  <2>1. idOf(j) = idOf(k)
    BY <1>5, <1>6, <1>10
  <2>2. \A i \in 1..(n + 1) : i # n + 1 => i \in Fixed
    BY <1>1 DEF n
  <2>3. \A i \in 1..(n + 1) : i # n + 1 => i # Config
    BY <2>2, IdFacts
  <2> QED BY <1>4, <1>6, <2>1, <2>3
<1>11. Calls(q)
  BY <1>7, <1>9, <1>10 DEF Calls
<1> QED BY <1>2, <1>3, <1>5, <1>6, <1>8, <1>11

(* hal_storage_reset_end.                                                  *)
LEMMA ResetKeeps ==
    ASSUME StorageInv, ResetEnd
    PROVE  StorageInv' /\ Begin(ResetCalls)
<1>1. Begin(ResetCalls)
  BY Zenon DEF ResetEnd, ResetCalls, Zeros
<1> QED BY <1>1, ResetFacts, BeginKeeps

(* The rest of a call is a call.                                           *)
LEMMA TailCalls ==
    ASSUME NEW q, Calls(q), q # <<>>
    PROVE  /\ Calls(Tail(q)) /\ Head(q) = q[1] /\ 1 \in DOMAIN q
           /\ \A k \in DOMAIN Tail(q) : k + 1 \in DOMAIN q /\ Tail(q)[k] = q[k + 1]
           /\ Tail(q) # <<>> => \A k \in DOMAIN q : q[k].id # General
           /\ Head(q).id # General => \A k \in DOMAIN q : q[k].id # General
<1> DEFINE t == Tail(q)
           n == Len(q)
<1>1. /\ q \in Seq(Write) /\ n \in Nat /\ n # 0 /\ DOMAIN q = 1..n /\ Head(q) = q[1]
      /\ t \in Seq(Write) /\ Len(t) = n - 1 /\ DOMAIN t = 1..(n - 1)
      /\ \A k \in 1..(n - 1) : t[k] = q[k + 1]
      /\ t # <<>> => n # 1
  BY DEF Calls
<1>2. /\ \A k \in 1..n : q[k].id = General => n = 1
      /\ \A j, k \in 1..n : q[j].id = q[k].id => j = k
  BY <1>1 DEF Calls
<1> HIDE DEF t, n
<1>3. \A k \in 1..(n - 1) : k + 1 \in 1..n /\ n # 1
  BY <1>1
<1>4. \A k \in DOMAIN t : t[k].id # General
  BY <1>1, <1>2, <1>3
<1>5. ASSUME NEW j \in DOMAIN t, NEW k \in DOMAIN t, t[j].id = t[k].id
      PROVE  j = k
  <2>1. j + 1 = k + 1 /\ j \in Int /\ k \in Int
    BY <1>1, <1>2, <1>3, <1>5
  <2> QED BY <2>1
<1>6. Calls(t)
  BY <1>1, <1>4, <1>5 DEF Calls
<1>7. q[1].id # General => \A k \in 1..n : q[k].id # General
  <2> SUFFICES ASSUME NEW k \in 1..n, q[k].id = General
               PROVE  q[1].id = General
    OBVIOUS
  <2>1. n = 1 /\ k = 1
    BY <1>2
  <2> QED BY <2>1
<1> QED BY <1>1, <1>2, <1>3, <1>6, <1>7 DEF t

(* A write in progress.                                                    *)
LEMMA CallFacts ==
    ASSUME StorageInv, queue # <<>>
    PROVE  /\ Head(queue) \in Write /\ WellPlaced(Head(queue), config_size)
           /\ config_size \in Size /\ eeprom \in [Cell -> Byte]
           /\ left \subseteq Cells(Head(queue)) /\ left # {}
           /\ OffsetConfig \in left => left = Cells(Head(queue))
           /\ \A a \in Cells(Head(queue)) \ left : Stored(eeprom, config_size, Head(queue), a)
<1>1. queue \in Seq(Write) /\ 1 \in DOMAIN queue /\ Head(queue) = queue[1]
  BY DEF StorageInv, CallInv, Calls
<1> QED BY <1>1 DEF StorageInv, StorageTypeOK, CallInv, ProgressInv

(* What is written next: the size of the configuration alone.              *)
LEMMA CurrentFacts ==
    ASSUME StorageInv, NEW a \in Current, queue # <<>>
    PROVE  /\ a \in left /\ a \in Cells(Head(queue))
           /\ a = OffsetConfig => Head(queue).id = Config
           /\ OffsetConfig \in left => a = OffsetConfig
           /\ \A b \in left : b \in Nat
<1>1. left \subseteq Cells(Head(queue)) /\ left # {}
  BY CallFacts
<1>2. /\ \A b \in Cells(Head(queue)) : b \in Nat
      /\ OffsetConfig \in Cells(Head(queue)) <=> Head(queue).id = Config
  BY CallFacts, CellFacts
<1>3. left \in SUBSET Nat
  BY <1>1, <1>2
<1>4. Min(left) \in left
  BY <1>1, <1>3, LeastElement DEF Min
<1>5. a \in left /\ (OffsetConfig \in left => a = OffsetConfig)
  BY <1>4 DEF Current
<1> QED BY <1>1, <1>2, <1>3, <1>5

(* A cell gets its byte, or the size of the configuration is written; then *)
(* the same write goes on, or the next one.                                *)
LEMMA CellStep ==
    ASSUME StorageInv, NEW a \in left, WriteCell(a)
    PROVE  LET w == Head(queue)
           IN  /\ queue # <<>> /\ a \in Current
               /\ IF a = OffsetConfig
                  THEN config_size' = Len(w.value) /\ UNCHANGED eeprom
                  ELSE /\ eeprom' = [eeprom EXCEPT ![a] = w.value[a - w.dst + 1]]
                       /\ UNCHANGED config_size
               /\ \/ left # {a} /\ left' = left \ {a} /\ queue' = queue
                  \/ /\ left = {a} /\ queue' = Tail(queue)
                     /\ left' = IF queue' = <<>> THEN {} ELSE Cells(Head(queue'))
<1>1. queue # <<>>
  BY DEF StorageInv, StorageTypeOK
<1> QED BY <1>1, Zenon DEF WriteCell

(* The EEPROM after that.                                                  *)
LEMMA CellTypes ==
    ASSUME StorageInv, NEW a \in left, WriteCell(a)
    PROVE  LET w == Head(queue)
           IN  /\ eeprom' \in [Cell -> Byte] /\ config_size' \in Size
               /\ a \in Cells(w)
               /\ \A b \in Cell \ {a} : eeprom'[b] = eeprom[b]
               /\ Stored(eeprom', config_size', w, a)
               /\ a # OffsetConfig => config_size' = config_size /\ OffsetConfig \notin left
               /\ a = OffsetConfig => /\ w.id = Config /\ left = Cells(w) /\ eeprom' = eeprom
                                      /\ config_size' <= OffsetConfig
<1> DEFINE w == Head(queue)
<1>1. queue # <<>> /\ a \in Current
  BY CellStep
<1>2. /\ a \in Cells(w) /\ (a = OffsetConfig => w.id = Config)
      /\ (OffsetConfig \in left => a = OffsetConfig)
  BY <1>1, CurrentFacts
<1>3. /\ w \in Write /\ WellPlaced(w, config_size) /\ config_size \in Size
      /\ eeprom \in [Cell -> Byte] /\ (OffsetConfig \in left => left = Cells(w))
  BY <1>1, CallFacts
<1>4. a = OffsetConfig => config_size' = Len(w.value) /\ eeprom' = eeprom
  BY CellStep
<1>5. a # OffsetConfig => /\ eeprom' = [eeprom EXCEPT ![a] = w.value[a - w.dst + 1]]
                          /\ config_size' = config_size
  BY CellStep
<1> HIDE DEF w
<1>6. CASE a = OffsetConfig
  <2>1. Len(w.value) \in Nat /\ Len(w.value) <= OffsetConfig
    <3>1. w.value \in Seq(Byte) /\ Len(w.value) <= ConfigMax
      BY <1>2, <1>3, <1>6 DEF Write, WellPlaced
    <3>2. Len(w.value) \in Nat
      BY <3>1
    <3> QED BY <3>1, <3>2, LayoutFacts
  <2>2. config_size' \in Size
    BY <1>4, <1>6, <2>1, LayoutFacts DEF Size
  <2>3. Stored(eeprom', config_size', w, a)
    BY <1>4, <1>6 DEF Stored
  <2> QED BY <1>2, <1>3, <1>4, <1>6, <2>1, <2>2, <2>3 DEF w
<1>7. CASE a # OffsetConfig
  <2> DEFINE v == w.value[a - w.dst + 1]
  <2>1. a \in Cell /\ v \in Byte
    BY <1>2, <1>3, <1>7, CellFacts
  <2>2. eeprom' = [eeprom EXCEPT ![a] = v]
    BY <1>5, <1>7
  <2>3. Stored(eeprom', config_size', w, a) <=> eeprom'[a] = v
    BY <1>7 DEF Stored
  <2> HIDE DEF v
  <2>4. /\ eeprom' \in [Cell -> Byte] /\ eeprom'[a] = v
        /\ \A b \in Cell \ {a} : eeprom'[b] = eeprom[b]
    BY <1>3, <2>1, <2>2
  <2> QED BY <1>2, <1>3, <1>5, <1>7, <2>3, <2>4 DEF w
<1> QED BY <1>6, <1>7

(* A byte written.                                                         *)
LEMMA CellKeeps ==
    ASSUME StorageInv, NEW a \in left, WriteCell(a)
    PROVE  StorageInv'
<1> DEFINE w == Head(queue)
<1>1. /\ queue # <<>>
      /\ \/ left # {a} /\ left' = left \ {a} /\ queue' = queue
         \/ /\ left = {a} /\ queue' = Tail(queue)
            /\ left' = IF queue' = <<>> THEN {} ELSE Cells(Head(queue'))
  BY CellStep
<1>2. /\ w \in Write /\ WellPlaced(w, config_size) /\ config_size \in Size
      /\ eeprom \in [Cell -> Byte] /\ left \subseteq Cells(w)
      /\ \A b \in Cells(w) \ left : Stored(eeprom, config_size, w, b)
  BY <1>1, CallFacts
<1>3. /\ eeprom' \in [Cell -> Byte] /\ config_size' \in Size /\ a \in Cells(w)
      /\ \A b \in Cell \ {a} : eeprom'[b] = eeprom[b]
      /\ Stored(eeprom', config_size', w, a)
      /\ a # OffsetConfig => config_size' = config_size /\ OffsetConfig \notin left
      /\ a = OffsetConfig => w.id = Config /\ left = Cells(w)
  BY CellTypes
<1>4. Cells(w) \subseteq Cell \cup {OffsetConfig}
  BY <1>2, CellFacts
<1>5. Calls(queue) /\ \A k \in DOMAIN queue : WellPlaced(queue[k], config_size)
  BY DEF StorageInv, CallInv
<1>6. ASSUME NEW k \in DOMAIN queue
      PROVE  WellPlaced(queue[k], config_size')
  <2>1. a = OffsetConfig => queue[k].id # General
    BY <1>1, <1>3, <1>5, TailCalls, IdFacts
  <2> QED BY <1>3, <1>5, <2>1 DEF WellPlaced
<1>7. CASE left # {a} /\ left' = left \ {a} /\ queue' = queue
  <2>1. Head(queue') = w /\ left' # {} /\ left' \subseteq Cells(w)
    BY <1>2, <1>7
  <2> HIDE DEF w
  <2>2. OffsetConfig \notin left'
    BY <1>3, <1>7
  <2>3. ASSUME NEW b \in Cells(w) \ left'
        PROVE  Stored(eeprom', config_size', w, b)
    <3>1. CASE b = a
      BY <1>3, <3>1
    <3>2. CASE b # a
      <4>1. b \notin left /\ Stored(eeprom, config_size, w, b)
        BY <1>2, <1>7, <2>3, <3>2
      <4>2. a # OffsetConfig
        BY <1>3, <2>3, <4>1
      <4>3. b # OffsetConfig => eeprom'[b] = eeprom[b]
        BY <1>3, <1>4, <2>3, <3>2
      <4> QED BY <1>3, <4>1, <4>2, <4>3 DEF Stored
    <3> QED BY <3>1, <3>2
  <2>4. StorageTypeOK'
    <3>1. left' \subseteq Cell \cup {OffsetConfig}
      BY <1>4, <2>1
    <3> QED BY <1>1, <1>3, <1>7, <2>1, <3>1 DEF StorageTypeOK
  <2>5. CallInv'
    BY <1>5, <1>6, <1>7 DEF CallInv
  <2>6. ProgressInv'
    BY <2>1, <2>2, <2>3 DEF ProgressInv
  <2> QED BY <2>4, <2>5, <2>6 DEF StorageInv
<1>8. CASE /\ queue' = Tail(queue)
           /\ left' = IF queue' = <<>> THEN {} ELSE Cells(Head(queue'))
  <2> DEFINE t == Tail(queue)
  <2>1. /\ Calls(t) /\ \A k \in DOMAIN t : k + 1 \in DOMAIN queue /\ t[k] = queue[k + 1]
    BY <1>1, <1>5, TailCalls
  <2>2. \A k \in DOMAIN t : WellPlaced(t[k], config_size')
    BY <1>6, <2>1
  <2>3. queue' = t
    BY <1>8
  <2> HIDE DEF t, w
  <2>4. t # <<>> => Head(t) \in Write /\ WellPlaced(Head(t), config_size')
    <3>1. t # <<>> => 1 \in DOMAIN t /\ Head(t) = t[1] /\ t[1] \in Write
      BY <2>1 DEF Calls
    <3> QED BY <2>2, <3>1
  <2>5. t # <<>> => Cells(Head(t)) # {} /\ Cells(Head(t)) \subseteq Cell \cup {OffsetConfig}
    BY <1>3, <2>4, CellFacts
  <2>6. StorageTypeOK'
    BY <1>3, <1>8, <2>3, <2>5 DEF StorageTypeOK
  <2>7. CallInv'
    BY <2>1, <2>2, <2>3 DEF CallInv
  <2>8. ProgressInv'
    BY <1>8 DEF ProgressInv
  <2> QED BY <2>6, <2>7, <2>8 DEF StorageInv
<1> QED BY <1>1, <1>7, <1>8

(* The power fails: the byte being written holds anything.                 *)
LEMMA LossStep ==
    ASSUME StorageInv, PowerLoss
    PROVE  /\ queue # <<>> /\ queue' = <<>> /\ left' = {}
           /\ eeprom' \in [Cell -> Byte] /\ config_size' \in Size
           /\ config_size' # config_size => OffsetConfig \in left /\ eeprom' = eeprom
           /\ \A b \in Cell : eeprom'[b] # eeprom[b] => b \in left /\ OffsetConfig \notin left
<1>1. /\ queue # <<>> /\ queue' = <<>> /\ left' = {}
      /\ \/ UNCHANGED <<eeprom, config_size>>
         \/ OffsetConfig \in Current /\ config_size' \in Size /\ UNCHANGED eeprom
         \/ /\ \E a \in Current \ {OffsetConfig}, v \in Byte : eeprom' = [eeprom EXCEPT ![a] = v]
            /\ UNCHANGED config_size
  BY DEF PowerLoss
<1>2. eeprom \in [Cell -> Byte] /\ config_size \in Size /\ left \subseteq Cell \cup {OffsetConfig}
  BY DEF StorageInv, StorageTypeOK
<1>3. CASE UNCHANGED <<eeprom, config_size>>
  BY <1>1, <1>2, <1>3
<1>4. CASE OffsetConfig \in Current /\ config_size' \in Size /\ UNCHANGED eeprom
  BY <1>1, <1>2, <1>4, CurrentFacts
<1>5. ASSUME NEW a \in Current \ {OffsetConfig}, NEW v \in Byte,
             eeprom' = [eeprom EXCEPT ![a] = v], UNCHANGED config_size
      PROVE  /\ eeprom' \in [Cell -> Byte] /\ config_size' \in Size
             /\ \A b \in Cell : eeprom'[b] # eeprom[b] => b \in left /\ OffsetConfig \notin left
  <2>1. a \in left /\ OffsetConfig \notin left /\ a \in Cell
    BY <1>1, <1>2, CurrentFacts
  <2> QED BY <1>2, <1>5, <2>1
<1> QED BY <1>1, <1>3, <1>4, <1>5

(* Every step keeps the invariant.                                         *)
LEMMA StorageStep ==
    ASSUME StorageInv, [StorageNext]_storageVars
    PROVE  StorageInv'
<1>1. ASSUME NEW addr \in 0..OffsetConfig, NEW value \in Value(MaxLength),
             StorageWrite(addr, value)
      PROVE  StorageInv'
  BY <1>1, WriteKeeps
<1>2. ASSUME NEW id \in Id, NEW value \in Value(MaxLength), WriteEnd(id, value)
      PROVE  StorageInv'
  BY <1>2, WriteEndKeeps
<1>3. CASE ResetEnd
  BY <1>3, ResetKeeps
<1>4. CASE PowerLoss
  <2>1. /\ queue' = <<>> /\ left' = {}
        /\ eeprom' \in [Cell -> Byte] /\ config_size' \in Size
    BY <1>4, LossStep
  <2>2. Calls(<<>>) /\ DOMAIN <<>> = {}
    BY DEF Calls
  <2> QED BY <2>1, <2>2 DEF StorageInv, StorageTypeOK, CallInv, ProgressInv
<1>5. ASSUME NEW a \in left, WriteCell(a)
      PROVE  StorageInv'
  BY <1>5, CellKeeps
<1>6. CASE UNCHANGED storageVars
  BY <1>6 DEF storageVars, StorageInv, StorageTypeOK, CallInv, ProgressInv
<1> QED BY <1>1, <1>2, <1>3, <1>4, <1>5, <1>6 DEF StorageNext

(* An erased EEPROM.                                                       *)
LEMMA InitStorage == StorageInit => StorageInv
<1> SUFFICES ASSUME StorageInit PROVE StorageInv
  OBVIOUS
<1>1. /\ eeprom = [a \in Cell |-> Erased] /\ config_size = ErasedSize
      /\ queue = <<>> /\ left = {}
  BY DEF StorageInit
<1>2. Erased \in Byte /\ ErasedSize \in Size
  BY ByteAssumption DEF Size
<1>3. eeprom \in [Cell -> Byte]
  BY <1>1, <1>2
<1>4. Calls(<<>>) /\ DOMAIN <<>> = {}
  BY DEF Calls
<1> QED BY <1>1, <1>2, <1>3, <1>4 DEF StorageInv, StorageTypeOK, CallInv, ProgressInv

(* Every call, and every byte of it, stays where it belongs.               *)
THEOREM StorageInvariance == StorageSpec => []StorageInv
<1>1. StorageInv /\ [StorageNext]_storageVars => StorageInv'
  BY StorageStep
<1> QED BY <1>1, InitStorage, PTL DEF StorageSpec

(* Types, and no call writes outside the EEPROM (hal_storage_write,        *)
(* hal_storage_write_end, hal_storage_reset_end).                          *)
THEOREM StorageTypeCorrect == StorageSpec => []StorageTypeOK
<1>1. StorageInv => StorageTypeOK
  BY DEF StorageInv
<1> QED BY <1>1, StorageInvariance, PTL

---------------------------------------------------------------------------
(* What a step of a call disturbs.                                         *)

CallStep == PowerLoss \/ \E a \in left : WriteCell(a)

(* Cells of the write in progress, or the size of the configuration if it  *)
(* is being written, and never both in a step.                             *)
LEMMA StepDisturbs ==
    ASSUME StorageInv, CallStep
    PROVE  LET w == Head(queue)
           IN  /\ queue # <<>> /\ w \in Write /\ WellPlaced(w, config_size)
               /\ config_size \in Size /\ config_size' \in Size
               /\ eeprom \in [Cell -> Byte] /\ eeprom' \in [Cell -> Byte]
               /\ \A b \in Cell : eeprom'[b] # eeprom[b] =>
                     b \in Cells(w) /\ b # OffsetConfig /\ OffsetConfig \notin left
               /\ config_size' # config_size => w.id = Config /\ eeprom' = eeprom
               /\ w.id = Config /\ OffsetConfig \notin left => config_size = Len(w.value)
<1> DEFINE w == Head(queue)
<1>1. queue # <<>>
  BY LossStep, CellStep DEF CallStep
<1>2. /\ w \in Write /\ WellPlaced(w, config_size) /\ config_size \in Size
      /\ eeprom \in [Cell -> Byte] /\ left \subseteq Cells(w)
      /\ \A a \in Cells(w) \ left : Stored(eeprom, config_size, w, a)
  BY <1>1, CallFacts
<1>3. OffsetConfig \in Cells(w) <=> w.id = Config
  BY <1>2, CellFacts
<1>4. OffsetConfig \notin Cell
  BY LayoutFacts DEF Cell
<1>5. CASE PowerLoss
  <2>1. /\ eeprom' \in [Cell -> Byte] /\ config_size' \in Size
        /\ config_size' # config_size => OffsetConfig \in left /\ eeprom' = eeprom
        /\ \A b \in Cell : eeprom'[b] # eeprom[b] => b \in left /\ OffsetConfig \notin left
    BY <1>5, LossStep
  <2> HIDE DEF w
  <2>2. w.id = Config /\ OffsetConfig \notin left => config_size = Len(w.value)
    BY <1>2, <1>3 DEF Stored
  <2> QED BY <1>1, <1>2, <1>3, <1>4, <2>1, <2>2 DEF w
<1>6. ASSUME NEW a \in left, WriteCell(a)
      PROVE  /\ eeprom' \in [Cell -> Byte] /\ config_size' \in Size
             /\ config_size' # config_size => w.id = Config /\ eeprom' = eeprom
             /\ \A b \in Cell : eeprom'[b] # eeprom[b] =>
                   b \in Cells(w) /\ OffsetConfig \notin left
  <2>1. /\ eeprom' \in [Cell -> Byte] /\ config_size' \in Size /\ a \in Cells(w)
        /\ \A b \in Cell \ {a} : eeprom'[b] = eeprom[b]
        /\ a # OffsetConfig => config_size' = config_size /\ OffsetConfig \notin left
        /\ a = OffsetConfig => w.id = Config /\ eeprom' = eeprom
    BY <1>6, CellTypes
  <2> HIDE DEF w
  <2> QED BY <2>1
<1> HIDE DEF w
<1>7. w.id = Config /\ OffsetConfig \notin left => config_size = Len(w.value)
  BY <1>2, <1>3 DEF Stored
<1>8. CASE \E a \in left : WriteCell(a)
  BY <1>1, <1>2, <1>4, <1>6, <1>7, <1>8 DEF w
<1> QED BY <1>5, <1>8 DEF CallStep

(* So the other blocks keep their bytes: the fixed ones, the configuration *)
(* and what lies below it.                                                 *)
LEMMA OthersKept ==
    ASSUME StorageInv, CallStep
    PROVE  LET w == Head(queue)
           IN  /\ \A i \in Fixed : i # w.id =>
                     \A b \in BlockCells(i) : eeprom'[b] = eeprom[b]
               /\ \A b \in Cell : w.id \in Fixed /\ w.dst + Len(w.value) <= b =>
                     eeprom'[b] = eeprom[b]
               /\ w.id # Config =>
                     /\ config_size' = config_size
                     /\ \A b \in Nat : OffsetConfig - config_size <= b /\ b < OffsetConfig =>
                           eeprom'[b] = eeprom[b]
               /\ w.id # General =>
                     \A b \in Nat :
                        /\ b < OffsetConfig - config_size /\ config_size <= OffsetConfig
                        /\ b < OffsetConfig - config_size' /\ config_size' <= OffsetConfig
                        => eeprom'[b] = eeprom[b]
<1> DEFINE w == Head(queue)
           len == Len(w.value)
<1>1. /\ w \in Write /\ WellPlaced(w, config_size)
      /\ config_size \in Size /\ config_size' \in Size
      /\ \A b \in Cell : eeprom'[b] # eeprom[b] =>
            b \in Cells(w) /\ b # OffsetConfig /\ OffsetConfig \notin left
      /\ config_size' # config_size => w.id = Config /\ eeprom' = eeprom
      /\ w.id = Config /\ OffsetConfig \notin left => config_size = len
  BY StepDisturbs
<1> HIDE DEF w
<1>2. \A a \in Cells(w) \ {OffsetConfig} :
         /\ a - w.dst + 1 \in 1..len
         /\ w.id \in Fixed => a \in BlockCells(w.id)
         /\ w.id = Config => OffsetConfig - len <= a /\ a < OffsetConfig
         /\ w.id = General => config_size <= OffsetConfig /\ a < OffsetConfig - config_size
  BY <1>1, CellFacts
<1>3. w.id \in Id \cup {General} /\ len \in Nat /\ w.dst \in Nat
  BY <1>1, LayoutFacts DEF Write
<1>4. config_size \in Nat /\ config_size' \in Nat /\ OffsetConfig \in Nat
  BY <1>1, LayoutFacts, ErasedFact DEF Size
<1> HIDE DEF len
<1>5. /\ \A i \in Fixed : /\ Address[i] \in Nat /\ BlockSize[i] \in Nat \ {0}
                          /\ OffsetConfig + 2 <= Address[i]
                          /\ Address[i] + BlockSize[i] <= EepromSize
      /\ \A i, j \in Fixed : i < j => Address[j] + BlockSize[j] <= Address[i]
      /\ EepromSize \in Nat /\ \A i \in Fixed : i \in Nat
  BY LayoutFacts, AddressFacts
<1>6. ASSUME NEW i \in Fixed, i # w.id, NEW b \in BlockCells(i)
      PROVE  eeprom'[b] = eeprom[b]
  <2>1. /\ b \in Nat /\ b \in Cell /\ OffsetConfig + 2 <= b
        /\ Address[i] <= b /\ b < Address[i] + BlockSize[i]
    BY <1>4, <1>5 DEF BlockCells, Cell
  <2> SUFFICES ASSUME b \in Cells(w) \ {OffsetConfig} PROVE FALSE
    BY <1>1, <2>1
  <2>2. w.id \in Fixed
    BY <1>2, <1>3, <1>4, <2>1, IdFacts
  <2>3. b \in BlockCells(w.id)
    BY <1>2, <2>2
  <2>4. i < w.id \/ w.id < i
    BY <1>5, <1>6, <2>2
  <2>5. Address[w.id] <= b /\ b < Address[w.id] + BlockSize[w.id]
    BY <1>5, <2>2, <2>3 DEF BlockCells
  <2>6. i < w.id => Address[w.id] + BlockSize[w.id] <= Address[i]
    BY <1>5, <2>2
  <2>7. w.id < i => Address[i] + BlockSize[i] <= Address[w.id]
    BY <1>5, <2>2
  <2>8. Address[i] \in Nat /\ BlockSize[i] \in Nat
          /\ Address[w.id] \in Nat /\ BlockSize[w.id] \in Nat
    BY <1>5, <2>2
  <2> QED BY <2>1, <2>4, <2>5, <2>6, <2>7, <2>8
<1>7. ASSUME NEW b \in Cell, w.id \in Fixed, w.dst + len <= b
      PROVE  eeprom'[b] = eeprom[b]
  <2>1. b \in Nat
    BY <1>4, <1>5 DEF Cell
  <2>2. ~(b - w.dst + 1 \in 1..len)
    BY <1>3, <1>7, <2>1
  <2> QED BY <1>1, <1>2, <2>2
<1>8. ASSUME w.id # Config
      PROVE  /\ config_size' = config_size
             /\ \A b \in Nat : OffsetConfig - config_size <= b /\ b < OffsetConfig =>
                   eeprom'[b] = eeprom[b]
  <2>1. config_size' = config_size
    BY <1>1, <1>8
  <2>2. ASSUME NEW b \in Nat, OffsetConfig - config_size <= b, b < OffsetConfig
        PROVE  eeprom'[b] = eeprom[b]
    <3>1. b \in Cell /\ b # OffsetConfig /\ ~(OffsetConfig + 2 <= b)
      BY <1>4, <2>2 DEF Cell
    <3> SUFFICES ASSUME b \in Cells(w) \ {OffsetConfig} PROVE FALSE
      BY <1>1, <3>1
    <3>2. w.id \notin Fixed
      <4>1. w.id \in Fixed => b \in BlockCells(w.id)
        BY <1>2
      <4> QED BY <1>4, <1>5, <2>2, <4>1 DEF BlockCells
    <3>3. w.id = General
      BY <1>3, <1>8, <3>2, IdFacts
    <3> QED BY <1>2, <1>4, <2>2, <3>3
  <2> QED BY <2>1, <2>2
<1>9. ASSUME w.id # General, NEW b \in Nat,
             b < OffsetConfig - config_size, config_size <= OffsetConfig,
             b < OffsetConfig - config_size', config_size' <= OffsetConfig
      PROVE  eeprom'[b] = eeprom[b]
  <2>1. b \in Cell /\ b # OffsetConfig /\ b < OffsetConfig
    BY <1>4, <1>9 DEF Cell
  <2> SUFFICES ASSUME b \in Cells(w) \ {OffsetConfig}, OffsetConfig \notin left PROVE FALSE
    BY <1>1, <2>1
  <2>2. w.id \notin Fixed
    <3>1. w.id \in Fixed => b \in BlockCells(w.id)
      BY <1>2
    <3> QED BY <1>4, <1>5, <2>1, <3>1 DEF BlockCells
  <2>3. w.id = Config
    BY <1>3, <1>9, <2>2, IdFacts
  <2>4. config_size = len /\ OffsetConfig - len <= b
    BY <1>1, <1>2, <2>3
  <2> QED BY <1>4, <1>9, <2>4
<1> QED BY <1>6, <1>7, <1>8, <1>9 DEF w, len

(* What hal_storage_read returns of a cell.                                *)
LEMMA OneFits ==
    ASSUME NEW size \in Size, NEW a \in 0..OffsetConfig, NEW limit,
           limit = IF size > OffsetConfig THEN 0 ELSE OffsetConfig - size
    PROVE  Max({0, Min({1, limit - a})}) =
               IF size <= OffsetConfig /\ a < OffsetConfig - size THEN 1 ELSE 0
<1>1. OffsetConfig \in Nat /\ size \in Nat /\ a \in Nat /\ limit \in Int
  BY LayoutFacts, ErasedFact DEF Size
<1> DEFINE room == limit - a
           m == Min({1, room})
<1>2. room \in Int /\ m = IF 1 <= room THEN 1 ELSE room
  BY <1>1, PairFacts
<1> HIDE DEF m
<1>3. m \in Int
  BY <1>2
<1>4. Max({0, m}) = IF 0 >= m THEN 0 ELSE m
  BY <1>3, PairFacts
<1> QED BY <1>1, <1>2, <1>4 DEF m

(* It is nothing, or a cell below the configuration; before a step and     *)
(* after it.                                                               *)
LEMMA ReadOne ==
    ASSUME NEW a \in 0..OffsetConfig, config_size \in Size, config_size' \in Size
    PROVE  /\ StorageRead(a, 1) # <<>> =>
                 /\ StorageRead(a, 1) = <<eeprom[a]>>
                 /\ config_size <= OffsetConfig /\ a < OffsetConfig - config_size
           /\ StorageRead(a, 1)' # <<>> =>
                 /\ StorageRead(a, 1)' = <<eeprom'[a]>>
                 /\ config_size' <= OffsetConfig /\ a < OffsetConfig - config_size'
<1>1. Within(a, 1) =
         IF config_size <= OffsetConfig /\ a < OffsetConfig - config_size THEN 1 ELSE 0
  <2>1. Limit = IF config_size > OffsetConfig THEN 0 ELSE OffsetConfig - config_size
    BY DEF Limit
  <2> QED BY <2>1, OneFits DEF Within
<1>2. Within(a, 1)' =
         IF config_size' <= OffsetConfig /\ a < OffsetConfig - config_size' THEN 1 ELSE 0
  <2>1. Limit' = IF config_size' > OffsetConfig THEN 0 ELSE OffsetConfig - config_size'
    BY DEF Limit
  <2>2. Within(a, 1)' = Max({0, Min({1, Limit' - a})})
    BY DEF Within
  <2> QED BY <2>1, <2>2, OneFits
<1>3. a \in Nat /\ a + 1 - 1 = a
  BY LayoutFacts
<1>4. \A e : [k \in 1..1 |-> e[a + k - 1]] = <<e[a]>>
  <2> SUFFICES ASSUME NEW e PROVE [k \in 1..1 |-> e[a + k - 1]] = <<e[a]>>
    OBVIOUS
  <2>1. 1..1 = {1}
    OBVIOUS
  <2>2. [k \in 1..1 |-> e[a + k - 1]] = [k \in 1..1 |-> e[a]]
    BY <1>3, <2>1
  <2> QED BY <2>1, <2>2
<1>5. \A e : [k \in 1..0 |-> e[a + k - 1]] = <<>>
  OBVIOUS
<1>6. StorageRead(a, 1) = [k \in 1..Within(a, 1) |-> eeprom[a + k - 1]]
  BY DEF StorageRead
<1>7. StorageRead(a, 1)' = [k \in 1..Within(a, 1)' |-> eeprom'[a + k - 1]]
  BY DEF StorageRead
<1> QED BY <1>1, <1>2, <1>4, <1>5, <1>6, <1>7

(* A call of the program.                                                  *)
ProgramStep ==
    \/ \E addr \in 0..OffsetConfig, value \in Value(MaxLength) : StorageWrite(addr, value)
    \/ \E id \in Id, value \in Value(MaxLength) : WriteEnd(id, value)
    \/ ResetEnd

(* A call starts when none is in progress, and changes no cell yet.        *)
LEMMA ProgramBegins ==
    ASSUME ProgramStep
    PROVE  queue = <<>> /\ UNCHANGED <<eeprom, config_size>>
  BY Zenon DEF ProgramStep, StorageWrite, WriteEnd, ResetEnd, Begin

(* What hal_storage_write stored can be read until it is called again or   *)
(* the configuration grows over it: fixed blocks, and a configuration that *)
(* still ends below, do not touch it, even when the power fails.           *)
THEOREM AlwaysGeneralKept == StorageSpec => GeneralKept
<1> DEFINE Kept ==
      queue # <<>> /\ Head(queue).id # General =>
          \A a \in 0..OffsetConfig :
             LET before == StorageRead(a, 1)
                 after == StorageRead(a, 1)'
             IN  before # <<>> /\ after # <<>> => after = before
<1>1. StorageInv /\ [StorageNext]_storageVars => [Kept]_storageVars
  <2> SUFFICES ASSUME StorageInv, StorageNext, queue # <<>>, Head(queue).id # General,
                      NEW a \in 0..OffsetConfig,
                      StorageRead(a, 1) # <<>>, StorageRead(a, 1)' # <<>>
               PROVE  StorageRead(a, 1)' = StorageRead(a, 1)
    BY Zenon DEF Kept
  <2>1. CallStep
    BY ProgramBegins DEF StorageNext, ProgramStep, CallStep
  <2>2. config_size \in Size /\ config_size' \in Size
    BY <2>1, StepDisturbs
  <2>3. /\ StorageRead(a, 1) = <<eeprom[a]>> /\ StorageRead(a, 1)' = <<eeprom'[a]>>
        /\ config_size <= OffsetConfig /\ a < OffsetConfig - config_size
        /\ config_size' <= OffsetConfig /\ a < OffsetConfig - config_size'
    BY <2>2, ReadOne
  <2>4. a \in Nat
    BY LayoutFacts
  <2>5. eeprom'[a] = eeprom[a]
    BY <2>1, <2>3, <2>4, OthersKept
  <2> QED BY <2>3, <2>5
<1> QED BY <1>1, StorageInvariance, PTL DEF StorageSpec, GeneralKept

---------------------------------------------------------------------------
(* The blocks that the EEPROM implements.                                  *)

(* What hal_storage_read_end returns of fixed block i from these cells.    *)
FixedContent(cells, i) == [k \in 1..BlockSize[i] |-> cells[Address[i] + k - 1]]

(* Before a step and after it.                                             *)
LEMMA ReadFixed ==
    ASSUME NEW i \in Fixed
    PROVE  /\ Contents[i] = FixedContent(eeprom, i)
           /\ Contents'[i] = FixedContent(eeprom', i)
<1>1. i \in Id /\ i # Config
  BY IdFacts
<1>2. Min({EepromSize, BlockSize[i]}) = BlockSize[i]
  <2>1. /\ EepromSize \in Int /\ BlockSize[i] \in Int
        /\ EepromSize <= BlockSize[i] => EepromSize = BlockSize[i]
    BY LayoutFacts
  <2> QED BY <2>1, PairFacts
<1>3. ReadEnd(i, EepromSize) = FixedContent(eeprom, i)
  BY <1>1, <1>2, Zenon DEF ReadEnd, FixedContent
<1>4. ReadEnd(i, EepromSize)' = FixedContent(eeprom', i)
  BY <1>1, <1>2, Zenon DEF ReadEnd, FixedContent
<1> QED BY <1>1, <1>3, <1>4 DEF Contents

(* A fixed block is a sequence of bytes.                                   *)
LEMMA FixedFacts ==
    ASSUME NEW i \in Fixed, NEW cells \in [Cell -> Byte]
    PROVE  /\ FixedContent(cells, i) \in Seq(Byte)
           /\ Len(FixedContent(cells, i)) = BlockSize[i] /\ BlockSize[i] \in Nat
           /\ \A k \in 1..BlockSize[i] :
                 /\ FixedContent(cells, i)[k] = cells[Address[i] + k - 1]
                 /\ Address[i] + k - 1 \in BlockCells(i) /\ Address[i] + k - 1 \in Cell
<1>1. /\ BlockSize[i] \in Nat /\ Address[i] \in Nat /\ OffsetConfig + 2 <= Address[i]
      /\ Address[i] + BlockSize[i] <= EepromSize /\ OffsetConfig \in Nat /\ EepromSize \in Nat
  BY LayoutFacts
<1>2. \A k \in 1..BlockSize[i] :
         Address[i] + k - 1 \in BlockCells(i) /\ Address[i] + k - 1 \in Cell
  BY <1>1 DEF BlockCells, Cell
<1>3. \A k \in 1..BlockSize[i] : cells[Address[i] + k - 1] \in Byte
  BY <1>2
<1> DEFINE len == BlockSize[i]
           at(k) == cells[Address[i] + k - 1]
<1>4. FixedContent(cells, i) = [k \in 1..len |-> at(k)]
  BY DEF FixedContent
<1>5. len \in Nat /\ \A k \in 1..len : at(k) \in Byte
  BY <1>1, <1>3
<1> HIDE DEF len, at
<1>6. /\ FixedContent(cells, i) \in Seq(Byte) /\ Len(FixedContent(cells, i)) = len
      /\ \A k \in 1..len : FixedContent(cells, i)[k] = at(k)
  BY <1>4, <1>5
<1> QED BY <1>2, <1>5, <1>6 DEF len, at

(* What it returns of the configuration.                                   *)
ConfigContent(cells, size) ==
    IF size > OffsetConfig THEN Fault
    ELSE [k \in 1..Min({EepromSize, ConfigMax, size}) |-> cells[OffsetConfig - size + k - 1]]

(* Before a step and after it.                                             *)
LEMMA ReadConfig ==
    /\ Contents[Config] = ConfigContent(eeprom, config_size)
    /\ Contents'[Config] = ConfigContent(eeprom', config_size')
<1>1. ReadEnd(Config, EepromSize) = ConfigContent(eeprom, config_size)
  BY Zenon DEF ReadEnd, ConfigContent
<1>2. ReadEnd(Config, EepromSize)' = ConfigContent(eeprom', config_size')
  BY Zenon DEF ReadEnd, ConfigContent
<1> QED BY <1>1, <1>2, IdFacts DEF Contents

(* The configuration is as long as its size says, if it was written.       *)
LEMMA ConfigLength ==
    ASSUME NEW size \in Nat
    PROVE  LET n == Min({EepromSize, ConfigMax, size})
           IN  n \in Nat /\ n <= size /\ (size <= ConfigMax => n = size)
<1> DEFINE S == {EepromSize, ConfigMax, size}
<1>1. /\ EepromSize \in Nat /\ ConfigMax \in Nat /\ ConfigMax <= EepromSize
  BY LayoutFacts
<1>2. S \in SUBSET Nat /\ S # {}
  BY <1>1
<1>3. PICK x \in S : \A y \in S : x <= y
  BY <1>2, LeastElement
<1>4. Min(S) \in S /\ \A y \in S : Min(S) <= y
  BY <1>3 DEF Min
<1> DEFINE n == Min(S)
<1>5. n \in S /\ n <= size /\ n <= ConfigMax
  BY <1>4
<1> HIDE DEF n
<1>6. n \in Nat /\ (size <= ConfigMax => n = size)
  BY <1>1, <1>5
<1> QED BY <1>5, <1>6 DEF n

(* It depends on its own cells only.                                       *)
LEMMA ConfigSame ==
    ASSUME NEW size \in Size, NEW before, NEW after,
           \A b \in Nat : OffsetConfig - size <= b /\ b < OffsetConfig => after[b] = before[b]
    PROVE  ConfigContent(after, size) = ConfigContent(before, size)
<1>1. OffsetConfig \in Nat /\ size \in Nat
  BY LayoutFacts, ErasedFact DEF Size
<1>2. CASE size > OffsetConfig
  BY <1>2 DEF ConfigContent
<1>3. CASE ~(size > OffsetConfig)
  <2> DEFINE n == Min({EepromSize, ConfigMax, size})
  <2>1. n \in Nat /\ n <= size
    BY <1>1, ConfigLength
  <2>2. \A cells : ConfigContent(cells, size) = [k \in 1..n |-> cells[OffsetConfig - size + k - 1]]
    BY <1>3 DEF ConfigContent
  <2> HIDE DEF n
  <2>3. ASSUME NEW k \in 1..n
        PROVE  after[OffsetConfig - size + k - 1] = before[OffsetConfig - size + k - 1]
    <3> DEFINE b == OffsetConfig - size + k - 1
    <3>1. b \in Nat /\ OffsetConfig - size <= b /\ b < OffsetConfig
      BY <1>1, <1>3, <2>1
    <3> HIDE DEF b
    <3>2. after[b] = before[b]
      BY <3>1
    <3> QED BY <3>2 DEF b
  <2> QED BY <2>2, <2>3
<1> QED BY <1>2, <1>3

(* A configuration that was written is read.                               *)
LEMMA ConfigWritten ==
    ASSUME NEW value \in Seq(Byte), Len(value) <= ConfigMax, NEW cells,
           \A k \in 1..Len(value) : cells[OffsetConfig - Len(value) + k - 1] = value[k]
    PROVE  ConfigContent(cells, Len(value)) = value
<1> DEFINE len == Len(value)
           n == Min({EepromSize, ConfigMax, len})
<1>1. len \in Nat /\ OffsetConfig \in Nat /\ ConfigMax \in Nat /\ ConfigMax <= OffsetConfig
  BY LayoutFacts
<1>2. n = len
  BY <1>1, ConfigLength
<1>3. ~(len > OffsetConfig)
  BY <1>1
<1> HIDE DEF n
<1>4. ConfigContent(cells, len) = [k \in 1..len |-> cells[OffsetConfig - len + k - 1]]
  BY <1>2, <1>3 DEF ConfigContent, n
<1>5. ConfigContent(cells, len) = [k \in 1..len |-> value[k]]
  BY <1>4
<1>6. value = [k \in 1..len |-> value[k]]
  OBVIOUS
<1> QED BY <1>5, <1>6

(* Two sequences of bytes that agree past n.                               *)
LEMMA SameRest ==
    ASSUME NEW s \in Seq(Byte), NEW t \in Seq(Byte), Len(s) = Len(t),
           NEW n \in Nat, \A k \in 1..Len(s) : n < k => s[k] = t[k]
    PROVE  Blocks!Rest(s, n) = Blocks!Rest(t, n)
<1> DEFINE len == Len(s)
           u == SubSeq(s, n + 1, len)
           v == SubSeq(t, n + 1, len)
<1>1. len \in Nat /\ Blocks!Rest(s, n) = u /\ Blocks!Rest(t, n) = v
  BY DEF Blocks!Rest
<1>2. /\ u \in Seq(Byte) /\ v \in Seq(Byte) /\ Len(u) = Len(v)
      /\ \A i \in 1..Len(u) : u[i] = s[n + i] /\ v[i] = t[n + i] /\ n + i \in 1..len /\ n < n + i
  <2>1. CASE n + 1 <= len
    <3>1. /\ u \in Seq(Byte) /\ v \in Seq(Byte) /\ Len(u) = len - n /\ Len(v) = len - n
          /\ \A i \in 1..(len - n) : u[i] = s[n + i] /\ v[i] = t[n + i]
      BY <1>1, <2>1
    <3> HIDE DEF u, v, len
    <3>2. \A i \in 1..(len - n) : n + i \in 1..len /\ n < n + i
      BY <1>1
    <3> QED BY <3>1, <3>2
  <2>2. CASE ~(n + 1 <= len)
    <3>1. u = <<>> /\ v = <<>>
      BY <1>1, <2>2
    <3> HIDE DEF u, v
    <3> QED BY <3>1
  <2> QED BY <2>1, <2>2
<1> HIDE DEF u, v
<1>3. \A i \in 1..Len(u) : u[i] = v[i]
  BY <1>2
<1> QED BY <1>1, <1>2, <1>3

(* What was written, and behind it what was there.                         *)
LEMMA NewContent ==
    ASSUME NEW s \in Seq(Byte), NEW t \in Seq(Byte), Len(s) = Len(t),
           NEW v \in Seq(Byte), Len(v) <= Len(s),
           \A k \in 1..Len(v) : t[k] = v[k],
           \A k \in 1..Len(s) : Len(v) < k => t[k] = s[k]
    PROVE  t = v \o Blocks!Rest(s, Len(v))
<1> DEFINE len == Len(s)
           n == Len(v)
           r == SubSeq(s, n + 1, len)
           u == v \o r
<1>1. len \in Nat /\ n \in Nat /\ n <= len /\ Blocks!Rest(s, n) = r
  BY DEF Blocks!Rest
<1>2. /\ r \in Seq(Byte) /\ Len(r) = len - n
      /\ \A i \in 1..(len - n) : r[i] = s[n + i]
  <2>1. CASE n + 1 <= len
    BY <1>1, <2>1
  <2>2. CASE ~(n + 1 <= len)
    <3>1. r = <<>> /\ len - n = 0
      BY <1>1, <2>2
    <3> HIDE DEF r, len, n
    <3> QED BY <3>1
  <2> QED BY <2>1, <2>2
<1> HIDE DEF r
<1>3. /\ u \in Seq(Byte) /\ Len(u) = n + Len(r)
      /\ \A i \in 1..n : u[i] = v[i]
      /\ \A i \in 1..(n + Len(r)) : n < i => u[i] = r[i - n]
  BY <1>2
<1> HIDE DEF u
<1>4. Len(u) = len
  BY <1>1, <1>2, <1>3
<1>5. ASSUME NEW i \in 1..len
      PROVE  u[i] = t[i]
  <2>1. CASE i <= n
    <3>1. i \in 1..n
      BY <1>1, <2>1
    <3> QED BY <1>3, <3>1
  <2>2. CASE ~(i <= n)
    <3>1. i - n \in 1..(len - n) /\ n + (i - n) = i /\ n < i
      BY <1>1, <2>2
    <3>2. u[i] = r[i - n]
      BY <1>1, <1>2, <1>3, <3>1
    <3>3. r[i - n] = s[i]
      BY <1>2, <3>1
    <3> QED BY <3>1, <3>2, <3>3
  <2> QED BY <2>1, <2>2
<1>6. u = t
  BY <1>3, <1>4, <1>5
<1> QED BY <1>1, <1>6 DEF u

(* The blocks of a call, seen from outside.                                *)
Shown(q) == [k \in DOMAIN q |-> [id |-> q[k].id, value |-> q[k].value]]

(* Their order is that of the writes.                                      *)
LEMMA ShownFacts ==
    ASSUME NEW q, Calls(q), q # <<>>
    PROVE  /\ Shown(q) # <<>> /\ DOMAIN Shown(q) = DOMAIN q
           /\ Head(Shown(q)) = [id |-> Head(q).id, value |-> Head(q).value]
           /\ Shown(Tail(q)) = Tail(Shown(q))
           /\ \A k \in DOMAIN q : Shown(q)[k].id = q[k].id /\ Shown(q)[k].value = q[k].value
<1> DEFINE n == Len(q)
           Block1 == [id : Id \cup {General}, value : Seq(Byte)]
           at(k) == [id |-> q[k].id, value |-> q[k].value]
           s == Shown(q)
           t == Tail(q)
<1>1. /\ q \in Seq(Write) /\ n \in Nat /\ n # 0 /\ DOMAIN q = 1..n /\ Head(q) = q[1]
      /\ t \in Seq(Write) /\ Len(t) = n - 1 /\ DOMAIN t = 1..(n - 1)
      /\ \A k \in 1..(n - 1) : t[k] = q[k + 1]
  BY DEF Calls
<1>2. \A k \in 1..n : at(k) \in Block1 /\ at(k).id = q[k].id /\ at(k).value = q[k].value
  <2>1. \A k \in 1..n : q[k] \in Write
    BY <1>1
  <2> QED BY <2>1 DEF Write
<1>3. s = [k \in 1..n |-> at(k)]
  BY <1>1 DEF Shown
<1> HIDE DEF at, n, s, Block1
<1>4. s \in Seq(Block1) /\ Len(s) = n /\ DOMAIN s = 1..n /\ \A k \in 1..n : s[k] = at(k)
  BY <1>1, <1>2, <1>3
<1>5. s # <<>> /\ Head(s) = at(1) /\ 1 \in 1..n
  BY <1>1, <1>4
<1>6. /\ Tail(s) \in Seq(Block1) /\ Len(Tail(s)) = n - 1
      /\ \A k \in 1..(n - 1) : Tail(s)[k] = s[k + 1] /\ k + 1 \in 1..n
  BY <1>1, <1>4, <1>5
<1>7. Tail(s) = [k \in 1..(n - 1) |-> at(k + 1)]
  <2> DEFINE r == Tail(s)
  <2>1. r = [k \in 1..(n - 1) |-> r[k]]
    <3>1. r \in Seq(Block1) /\ Len(r) = n - 1
      BY <1>6
    <3> HIDE DEF r
    <3> QED BY <3>1
  <2>2. \A k \in 1..(n - 1) : r[k] = at(k + 1)
    BY <1>4, <1>6
  <2> HIDE DEF r
  <2>3. r = [k \in 1..(n - 1) |-> at(k + 1)]
    BY <2>1, <2>2
  <2> QED BY <2>3 DEF r
<1>8. Shown(t) = [k \in 1..(n - 1) |-> at(k + 1)]
  <2>1. Shown(t) = [k \in 1..(n - 1) |-> [id |-> t[k].id, value |-> t[k].value]]
    BY <1>1 DEF Shown
  <2>2. \A k \in 1..(n - 1) : [id |-> t[k].id, value |-> t[k].value] = at(k + 1)
    BY <1>1 DEF at
  <2> QED BY <2>1, <2>2
<1>9. Head(s) = [id |-> Head(q).id, value |-> Head(q).value]
  BY <1>1, <1>5 DEF at
<1> QED BY <1>1, <1>2, <1>4, <1>5, <1>7, <1>8, <1>9 DEF s

(* What is shown before a step and after it.                               *)
LEMMA WritingFacts ==
    /\ queue = <<>> => Writing = <<>>
    /\ queue' = <<>> => Writing' = <<>>
    /\ queue # <<>> /\ Head(queue).id = General => Writing = <<>>
    /\ queue' # <<>> /\ Head(queue').id = General => Writing' = <<>>
    /\ queue # <<>> /\ Head(queue).id # General => Writing = Shown(queue)
    /\ queue' # <<>> /\ Head(queue').id # General => Writing' = Shown(queue')
    /\ queue' = queue => Writing' = Writing
<1>1. Shown(<<>>) = <<>>
  BY DEF Shown
<1>2. Writing = IF queue # <<>> /\ Head(queue).id = General THEN <<>> ELSE Shown(queue)
  BY Zenon DEF Writing, Shown
<1>3. Writing' = IF queue' # <<>> /\ Head(queue').id = General THEN <<>> ELSE Shown(queue')
  BY Zenon DEF Writing, Shown
<1> QED BY <1>1, <1>2, <1>3

(* Blocks that are not being written are read as before, and so is a fixed *)
(* block past the end of what is written.                                  *)
LEMMA ContentsKept ==
    ASSUME StorageInv, CallStep
    PROVE  LET w == Head(queue)
           IN  /\ \A i \in Id \ {w.id} : Contents'[i] = Contents[i]
               /\ w.id \in Fixed => Blocks!Rest(Contents'[w.id], Len(w.value))
                                      = Blocks!Rest(Contents[w.id], Len(w.value))
<1> DEFINE w == Head(queue)
           len == Len(w.value)
<1>1. /\ w \in Write /\ WellPlaced(w, config_size) /\ config_size \in Size
      /\ eeprom \in [Cell -> Byte] /\ eeprom' \in [Cell -> Byte]
  BY StepDisturbs
<1>2. /\ \A i \in Fixed : i # w.id => \A b \in BlockCells(i) : eeprom'[b] = eeprom[b]
      /\ \A b \in Cell : w.id \in Fixed /\ w.dst + len <= b => eeprom'[b] = eeprom[b]
      /\ w.id # Config =>
            /\ config_size' = config_size
            /\ \A b \in Nat : OffsetConfig - config_size <= b /\ b < OffsetConfig =>
                  eeprom'[b] = eeprom[b]
  BY OthersKept
<1>3. w.value \in Seq(Byte) /\ (w.id \in Fixed => w.dst = Address[w.id])
  BY <1>1 DEF Write, WellPlaced
<1>4. len \in Nat
  BY <1>3
<1> HIDE DEF w, len
<1>5. ASSUME NEW i \in Fixed, i # w.id
      PROVE  Contents'[i] = Contents[i]
  <2>1. \A k \in 1..BlockSize[i] : eeprom'[Address[i] + k - 1] = eeprom[Address[i] + k - 1]
    BY <1>1, <1>2, <1>5, FixedFacts
  <2>2. FixedContent(eeprom', i) = FixedContent(eeprom, i)
    BY <2>1 DEF FixedContent
  <2> QED BY <2>2, ReadFixed
<1>6. ASSUME w.id # Config
      PROVE  Contents'[Config] = Contents[Config]
  BY <1>1, <1>2, <1>6, ConfigSame, ReadConfig
<1>7. ASSUME w.id \in Fixed
      PROVE  Blocks!Rest(Contents'[w.id], len) = Blocks!Rest(Contents[w.id], len)
  <2> DEFINE i == w.id
             s == FixedContent(eeprom', i)
             t == FixedContent(eeprom, i)
  <2>1. /\ s \in Seq(Byte) /\ t \in Seq(Byte) /\ Len(s) = BlockSize[i] /\ Len(t) = BlockSize[i]
        /\ \A k \in 1..BlockSize[i] :
              /\ s[k] = eeprom'[Address[i] + k - 1] /\ t[k] = eeprom[Address[i] + k - 1]
              /\ Address[i] + k - 1 \in Cell
    BY <1>1, <1>7, FixedFacts
  <2>2. Contents'[i] = s /\ Contents[i] = t
    BY <1>7, ReadFixed
  <2>3. Address[i] \in Nat /\ BlockSize[i] \in Nat
    BY <1>7, LayoutFacts
  <2> HIDE DEF s, t
  <2>4. \A k \in 1..Len(s) : len < k => s[k] = t[k]
    <3> SUFFICES ASSUME NEW k \in 1..BlockSize[i], len < k PROVE s[k] = t[k]
      BY <2>1
    <3>1. Address[i] + len <= Address[i] + k - 1
      BY <1>4, <2>3
    <3>2. eeprom'[Address[i] + k - 1] = eeprom[Address[i] + k - 1]
      BY <1>2, <1>3, <1>7, <2>1, <3>1
    <3> QED BY <2>1, <3>2
  <2>5. Blocks!Rest(s, len) = Blocks!Rest(t, len)
    BY <1>4, <2>1, <2>4, SameRest
  <2> QED BY <2>2, <2>5
<1> QED BY <1>5, <1>6, <1>7, IdFacts DEF w, len

(* When the last cell is written the whole block is.                       *)
LEMMA AllStored ==
    ASSUME StorageInv, NEW a \in left, WriteCell(a), left = {a}
    PROVE  \A b \in Cells(Head(queue)) : Stored(eeprom', config_size', Head(queue), b)
<1> DEFINE w == Head(queue)
<1>1. queue # <<>>
  BY CellStep
<1>2. /\ w \in Write /\ WellPlaced(w, config_size) /\ config_size \in Size
      /\ \A b \in Cells(w) \ left : Stored(eeprom, config_size, w, b)
  BY <1>1, CallFacts
<1>3. Cells(w) \subseteq Cell \cup {OffsetConfig}
  BY <1>2, CellFacts
<1>4. /\ a \in Cells(w) /\ \A b \in Cell \ {a} : eeprom'[b] = eeprom[b]
      /\ Stored(eeprom', config_size', w, a)
      /\ a # OffsetConfig => config_size' = config_size
      /\ a = OffsetConfig => left = Cells(w)
  BY CellTypes
<1> HIDE DEF w
<1>5. ASSUME NEW b \in Cells(w), b # a
      PROVE  Stored(eeprom', config_size', w, b)
  <2>1. a # OffsetConfig /\ Stored(eeprom, config_size, w, b)
    BY <1>2, <1>4, <1>5
  <2>2. b # OffsetConfig => eeprom'[b] = eeprom[b]
    BY <1>3, <1>4, <1>5
  <2> QED BY <1>4, <2>1, <2>2 DEF Stored
<1> QED BY <1>4, <1>5 DEF w

(* Then it is read as it was written.                                      *)
LEMMA WrittenContent ==
    ASSUME StorageInv, NEW a \in left, WriteCell(a), left = {a}, Head(queue).id # General
    PROVE  LET w == Head(queue)
           IN  Contents'[w.id] = w.value \o (IF w.id = Config THEN <<>>
                                             ELSE Blocks!Rest(Contents[w.id], Len(w.value)))
<1> DEFINE w == Head(queue)
           len == Len(w.value)
           i == w.id
<1>1. /\ w \in Write /\ WellPlaced(w, config_size) /\ config_size \in Size
      /\ eeprom \in [Cell -> Byte] /\ eeprom' \in [Cell -> Byte]
  BY StepDisturbs DEF CallStep
<1>2. \A b \in Cells(w) : Stored(eeprom', config_size', w, b)
  BY AllStored
<1>3. \A b \in Cell : i \in Fixed /\ w.dst + len <= b => eeprom'[b] = eeprom[b]
  BY OthersKept DEF CallStep
<1>4. /\ w.value \in Seq(Byte) /\ w.dst \in Nat
      /\ i \in Fixed => len <= BlockSize[i] /\ w.dst = Address[i]
      /\ i = Config => len <= ConfigMax /\ w.dst = OffsetConfig - len
      /\ i \in Fixed \/ i = Config
  BY <1>1, LayoutFacts, IdFacts DEF Write, WellPlaced
<1>5. len \in Nat
  BY <1>4
<1>6. /\ \A k \in 1..len : w.dst + k - 1 \in Cells(w)
      /\ OffsetConfig \in Cells(w) <=> i = Config
  <2>1. OffsetConfig \in Cells(w) <=> i = Config
    BY <1>1, CellFacts
  <2>2. \A k \in 1..len : w.dst + k - 1 \in w.dst .. (w.dst + len - 1)
    BY <1>4, <1>5
  <2> QED BY <2>1, <2>2 DEF Cells
<1> HIDE DEF w, len, i
<1>7. \A k \in 1..len : w.dst + k - 1 # OffsetConfig => eeprom'[w.dst + k - 1] = w.value[k]
  <2> SUFFICES ASSUME NEW k \in 1..len, w.dst + k - 1 # OffsetConfig
               PROVE  eeprom'[w.dst + k - 1] = w.value[k]
    OBVIOUS
  <2>1. (w.dst + k - 1) - w.dst + 1 = k
    BY <1>4, <1>5
  <2>2. Stored(eeprom', config_size', w, w.dst + k - 1)
    BY <1>2, <1>6
  <2> QED BY <2>1, <2>2 DEF Stored
<1>8. CASE i \in Fixed
  <2> DEFINE s == FixedContent(eeprom, i)
             t == FixedContent(eeprom', i)
  <2>1. /\ s \in Seq(Byte) /\ t \in Seq(Byte) /\ Len(s) = BlockSize[i] /\ Len(t) = BlockSize[i]
        /\ \A k \in 1..BlockSize[i] :
              /\ s[k] = eeprom[Address[i] + k - 1] /\ t[k] = eeprom'[Address[i] + k - 1]
              /\ Address[i] + k - 1 \in Cell
    BY <1>1, <1>8, FixedFacts
  <2>2. Contents'[i] = t /\ Contents[i] = s /\ i # Config
    BY <1>8, ReadFixed, IdFacts
  <2>3. Address[i] \in Nat /\ BlockSize[i] \in Nat /\ len <= BlockSize[i] /\ w.dst = Address[i]
          /\ OffsetConfig \in Nat /\ OffsetConfig + 2 <= Address[i]
    BY <1>4, <1>8, LayoutFacts
  <2> HIDE DEF s, t
  <2>4. \A k \in 1..len : t[k] = w.value[k]
    <3> SUFFICES ASSUME NEW k \in 1..len PROVE t[k] = w.value[k]
      OBVIOUS
    <3>1. k \in 1..BlockSize[i] /\ Address[i] + k - 1 # OffsetConfig
      BY <1>5, <2>3
    <3> QED BY <1>7, <2>1, <2>3, <3>1
  <2>5. \A k \in 1..Len(s) : len < k => t[k] = s[k]
    <3> SUFFICES ASSUME NEW k \in 1..BlockSize[i], len < k PROVE t[k] = s[k]
      BY <2>1
    <3>1. Address[i] + len <= Address[i] + k - 1
      BY <1>5, <2>3
    <3> QED BY <1>3, <1>8, <2>1, <2>3, <3>1
  <2>6. t = w.value \o Blocks!Rest(s, len)
    <3>1. w.value \in Seq(Byte) /\ len = Len(w.value)
      BY <1>4 DEF len
    <3>2. len <= Len(s) /\ Len(s) = Len(t)
      BY <2>1, <2>3
    <3> HIDE DEF w, len
    <3> QED BY <2>1, <2>4, <2>5, <3>1, <3>2, NewContent
  <2> QED BY <2>2, <2>6 DEF w, len, i
<1>9. CASE i = Config
  <2>1. /\ len <= ConfigMax /\ w.dst = OffsetConfig - len
        /\ OffsetConfig \in Nat /\ ConfigMax \in Nat /\ ConfigMax <= OffsetConfig
    BY <1>4, <1>9, LayoutFacts
  <2>2. config_size' = len
    BY <1>2, <1>6, <1>9 DEF Stored, len
  <2>3. \A k \in 1..len : eeprom'[OffsetConfig - len + k - 1] = w.value[k]
    <3> SUFFICES ASSUME NEW k \in 1..len
                 PROVE  eeprom'[OffsetConfig - len + k - 1] = w.value[k]
      OBVIOUS
    <3>1. w.dst + k - 1 # OffsetConfig
      BY <1>5, <2>1
    <3> QED BY <1>7, <2>1, <3>1
  <2>4. ConfigContent(eeprom', len) = w.value
    BY <1>4, <2>1, <2>3, ConfigWritten DEF len
  <2>5. Contents'[Config] = w.value
    BY <2>2, <2>4, ReadConfig
  <2>6. w.value \o <<>> = w.value
    BY <1>4
  <2> QED BY <1>9, <2>5, <2>6 DEF w, len, i
<1> QED BY <1>4, <1>8, <1>9

(* A step of a call is one of the block being written, or, of              *)
(* hal_storage_write, none.                                                *)
LEMMA CallMaps ==
    ASSUME StorageInv, CallStep
    PROVE  [Blocks!Next]_Blocks!vars
<1> DEFINE w == Head(queue)
           b == [id |-> w.id, value |-> w.value]
<1>1. queue # <<>> /\ w \in Write /\ Calls(queue)
  BY StepDisturbs DEF StorageInv, CallInv
<1>2. /\ \A i \in Id \ {w.id} : Contents'[i] = Contents[i]
      /\ w.id \in Fixed => Blocks!Rest(Contents'[w.id], Len(w.value))
                             = Blocks!Rest(Contents[w.id], Len(w.value))
  BY ContentsKept
<1>3. CASE w.id = General
  <2>1. Contents' = Contents
    <3>1. \A i \in Id : Contents'[i] = Contents[i]
      BY <1>2, <1>3, IdFacts
    <3>2. Contents = [i \in Id |-> Contents[i]] /\ Contents' = [i \in Id |-> Contents'[i]]
      BY DEF Contents
    <3> QED BY <3>1, <3>2
  <2>2. queue' = queue \/ queue' = <<>>
    <3>1. ASSUME NEW a \in left, WriteCell(a)
          PROVE  queue' = queue \/ queue' = <<>>
      <4>1. queue' = queue \/ queue' = Tail(queue)
        BY <3>1, CellStep
      <4>2. Tail(queue) = <<>>
        BY <1>1, <1>3, TailCalls
      <4> QED BY <4>1, <4>2
    <3> QED BY <3>1, LossStep DEF CallStep
  <2>3. Writing = <<>> /\ Writing' = <<>>
    BY <1>1, <1>3, <2>2, WritingFacts
  <2> QED BY <2>1, <2>3 DEF Blocks!vars
<1>4. CASE w.id # General
  <2>1. /\ Writing = Shown(queue) /\ Writing # <<>> /\ Head(Writing) = b
    BY <1>1, <1>4, WritingFacts, ShownFacts
  <2>2. b.id = w.id /\ b.value = w.value
    OBVIOUS
  <2> HIDE DEF w, b
  <2>3. Blocks!Unfinished
    BY <1>2, <2>1, <2>2 DEF Blocks!Unfinished, Blocks!Id, Id
  <2>4. CASE PowerLoss
    <3>1. Writing' = <<>>
      BY <2>4, LossStep, WritingFacts
    <3> QED BY <2>3, <3>1 DEF Blocks!Next, Blocks!CutOff
  <2>5. ASSUME NEW a \in left, WriteCell(a)
        PROVE  Blocks!Next
    <3>1. CASE queue' = queue
      <4>1. Writing' = Writing
        BY <3>1, WritingFacts
      <4> QED BY <2>3, <4>1 DEF Blocks!Next, Blocks!Progress
    <3>2. CASE left = {a} /\ queue' = Tail(queue)
      <4>1. Contents'[w.id] = w.value \o (IF w.id = Config THEN <<>>
                                         ELSE Blocks!Rest(Contents[w.id], Len(w.value)))
        BY <1>4, <2>5, <3>2, WrittenContent DEF w
      <4>2. Writing' = Tail(Writing)
        <5>1. Shown(Tail(queue)) = Tail(Shown(queue))
          BY <1>1, ShownFacts
        <5>2. /\ Calls(Tail(queue))
              /\ \A k \in DOMAIN Tail(queue) :
                    k + 1 \in DOMAIN queue /\ Tail(queue)[k] = queue[k + 1]
              /\ Tail(queue) # <<>> => \A k \in DOMAIN queue : queue[k].id # General
          BY <1>1, TailCalls
        <5>3. Tail(queue) # <<>> => /\ 1 \in DOMAIN Tail(queue)
                                    /\ Head(Tail(queue)) = Tail(queue)[1]
          BY <5>2 DEF Calls
        <5>4. queue' # <<>> => Head(queue').id # General
          BY <3>2, <5>2, <5>3
        <5>5. queue' # <<>> => Writing' = Shown(queue')
          BY <5>4, WritingFacts
        <5>6. Shown(<<>>) = <<>>
          BY DEF Shown
        <5>7. queue' = <<>> => Writing' = Shown(queue')
          BY <5>6, WritingFacts
        <5> QED BY <2>1, <3>2, <5>1, <5>5, <5>7
      <4>3. Blocks!Finish
        BY <2>1, <2>2, <2>3, <4>1, <4>2 DEF Blocks!Finish
      <4> QED BY <4>3 DEF Blocks!Next
    <3> QED BY <2>5, <3>1, <3>2, CellStep
  <2> QED BY <2>4, <2>5 DEF CallStep
<1> QED BY <1>3, <1>4

(* Several blocks in turn begin a call.                                    *)
LEMMA BeginMaps ==
    ASSUME StorageInv, NEW q, Calls(q), q # <<>>, Begin(q),
           \A k \in DOMAIN q : q[k].id \in Id /\ Len(q[k].value) <= MaxLength
    PROVE  Blocks!Next
<1>1. queue = <<>> /\ queue' = q /\ UNCHANGED <<eeprom, config_size>>
  BY DEF Begin
<1>2. Contents' = Contents
  <2>1. \A i \in Id : Contents'[i] = Contents[i]
    <3>1. \A i \in Fixed : Contents'[i] = Contents[i]
      BY <1>1, ReadFixed
    <3>2. Contents'[Config] = Contents[Config]
      BY <1>1, ReadConfig
    <3> QED BY <3>1, <3>2, IdFacts
  <2>2. Contents = [i \in Id |-> Contents[i]] /\ Contents' = [i \in Id |-> Contents'[i]]
    BY DEF Contents
  <2> QED BY <2>1, <2>2
<1>3. 1 \in DOMAIN q /\ Head(q) = q[1] /\ DOMAIN q = 1..Len(q) /\ Len(q) \in Nat
  BY DEF Calls
<1>4. Head(q).id # General
  BY <1>3, IdFacts
<1>5. Writing = <<>> /\ Writing' = Shown(q)
  BY <1>1, <1>4, WritingFacts
<1>6. /\ Shown(q) # <<>> /\ DOMAIN Shown(q) = DOMAIN q
      /\ \A k \in DOMAIN q : Shown(q)[k].id = q[k].id /\ Shown(q)[k].value = q[k].value
  BY ShownFacts
<1>7. \A k \in DOMAIN q : \A j \in 1..(k - 1) : q[j].id # q[k].id
  <2> SUFFICES ASSUME NEW k \in DOMAIN q, NEW j \in 1..(k - 1), q[j].id = q[k].id
               PROVE  FALSE
    OBVIOUS
  <2>1. j \in DOMAIN q /\ j # k
    BY <1>3
  <2> QED BY <2>1 DEF Calls
<1>8. \A k \in DOMAIN q : \A j \in 1..(k - 1) : j \in DOMAIN q
  BY <1>3
<1>9. ASSUME NEW k \in DOMAIN Shown(q)
      PROVE  /\ Shown(q)[k].id \in Blocks!Id /\ Len(Shown(q)[k].value) <= MaxLength
             /\ \A j \in 1..(k - 1) : Shown(q)[j].id # Shown(q)[k].id
  BY <1>6, <1>7, <1>8 DEF Blocks!Id, Id
<1>10. Blocks!Begin
  BY <1>2, <1>5, <1>6, <1>9 DEF Blocks!Begin
<1> QED BY <1>10 DEF Blocks!Next

(* A call of the program begins the blocks it is for; hal_storage_write    *)
(* is none of them.                                                        *)
LEMMA ProgramMaps ==
    ASSUME StorageInv, ProgramStep
    PROVE  [Blocks!Next]_Blocks!vars
<1>1. ASSUME NEW addr \in 0..OffsetConfig, NEW value \in Value(MaxLength),
             StorageWrite(addr, value)
      PROVE  UNCHANGED Blocks!vars
  <2> DEFINE w == [id |-> General, dst |-> addr,
                   value |-> SubSeq(value, 1, Within(addr, Len(value)))]
  <2>1. Begin(<<w>>)
    BY <1>1 DEF StorageWrite
  <2>2. w.id = General
    OBVIOUS
  <2> HIDE DEF w
  <2>3. queue = <<>> /\ queue' = <<w>> /\ UNCHANGED <<eeprom, config_size>>
    BY <2>1 DEF Begin
  <2>4. queue' # <<>> /\ Head(queue').id = General
    BY <2>2, <2>3
  <2>5. Writing = <<>> /\ Writing' = <<>>
    BY <2>3, <2>4, WritingFacts
  <2>6. Contents' = Contents
    <3>1. \A i \in Id : Contents'[i] = Contents[i]
      BY <2>3, ReadFixed, ReadConfig, IdFacts
    <3>2. Contents = [i \in Id |-> Contents[i]] /\ Contents' = [i \in Id |-> Contents'[i]]
      BY DEF Contents
    <3> QED BY <3>1, <3>2
  <2> QED BY <2>5, <2>6 DEF Blocks!vars
<1>2. ASSUME NEW id \in Id, NEW value \in Value(MaxLength), WriteEnd(id, value)
      PROVE  Blocks!Next
  <2> DEFINE w == Block(id, value)
  <2>1. Begin(<<w>>) /\ Fits(id, Len(value)) /\ (id = Config \/ value # <<>>)
    BY <1>2 DEF WriteEnd
  <2>2. value \in Seq(Byte) /\ Len(value) <= MaxLength
    BY ValueFacts, BlocksAssumption
  <2>3. w \in Write /\ w.id = id /\ w.value = value
    BY <2>1, <2>2, BlockFacts
  <2> HIDE DEF w
  <2>4. /\ Calls(<<w>>) /\ <<w>> # <<>>
        /\ \A k \in DOMAIN <<w>> : <<w>>[k].id \in Id /\ Len(<<w>>[k].value) <= MaxLength
    BY <2>2, <2>3, OneCall
  <2> QED BY <2>1, <2>4, BeginMaps
<1>3. CASE ResetEnd
  <2>1. Begin(ResetCalls)
    BY <1>3, ResetKeeps
  <2>2. Blocks!Next
    BY <2>1, ResetFacts, BeginMaps
  <2> QED BY <2>2
<1> QED BY <1>1, <1>2, <1>3 DEF ProgramStep

(* Every block of an erased EEPROM is erased, and there is no              *)
(* configuration.                                                          *)
LEMMA InitMaps == StorageInit => Blocks!Init
<1> SUFFICES ASSUME StorageInit PROVE Blocks!Init
  OBVIOUS
<1>1. /\ eeprom = [a \in Cell |-> Erased] /\ config_size = ErasedSize /\ queue = <<>>
  BY DEF StorageInit
<1>2. Writing = <<>>
  BY <1>1, WritingFacts
<1>3. ASSUME NEW i \in Fixed
      PROVE  Contents[i] = [k \in 1..BlockSize[i] |-> Erased]
  <2>1. \A k \in 1..BlockSize[i] : Address[i] + k - 1 \in Cell
    <3>1. eeprom \in [Cell -> Byte]
      BY InitStorage DEF StorageInv, StorageTypeOK
    <3> QED BY <3>1, FixedFacts
  <2>2. FixedContent(eeprom, i) = [k \in 1..BlockSize[i] |-> Erased]
    BY <1>1, <2>1 DEF FixedContent
  <2> QED BY <2>2, ReadFixed
<1>4. Contents[Config] = Fault
  <2>1. ErasedSize > OffsetConfig
    BY LayoutFacts, ErasedFact
  <2> QED BY <1>1, <2>1, ReadConfig DEF ConfigContent
<1>5. Contents = [i \in Id |-> IF i = Config THEN Fault ELSE [k \in 1..BlockSize[i] |-> Erased]]
  <2>1. Contents = [i \in Id |-> Contents[i]]
    BY DEF Contents
  <2>2. \A i \in Id : Contents[i] = IF i = Config THEN Fault
                                    ELSE [k \in 1..BlockSize[i] |-> Erased]
    BY <1>3, <1>4, IdFacts
  <2> QED BY <2>1, <2>2
<1> QED BY <1>2, <1>5 DEF Blocks!Init

(* The EEPROM implements independent blocks (hal_storage_write_end,        *)
(* hal_storage_read_end, hal_storage_reset_end): a write changes the block *)
(* it is for and no other, wherever the power fails, and is read back when *)
(* it is done.                                                             *)
THEOREM StorageRefinement == StorageSpec => BlockSpec
<1>1. StorageInv /\ [StorageNext]_storageVars => [Blocks!Next]_Blocks!vars
  <2> SUFFICES ASSUME StorageInv, [StorageNext]_storageVars
               PROVE  [Blocks!Next]_Blocks!vars
    OBVIOUS
  <2>1. CASE ProgramStep
    BY <2>1, ProgramMaps
  <2>2. CASE CallStep
    BY <2>2, CallMaps
  <2>3. CASE UNCHANGED storageVars
    <3>1. UNCHANGED <<eeprom, config_size, queue>>
      BY <2>3 DEF storageVars
    <3>2. \A i \in Id : Contents'[i] = Contents[i]
      BY <3>1, ReadFixed, ReadConfig, IdFacts
    <3>3. Contents = [i \in Id |-> Contents[i]] /\ Contents' = [i \in Id |-> Contents'[i]]
      BY DEF Contents
    <3>4. Contents' = Contents
      BY <3>2, <3>3
    <3>5. Writing' = Writing
      BY <3>1, WritingFacts
    <3> QED BY <3>4, <3>5 DEF Blocks!vars
  <2> QED BY <2>1, <2>2, <2>3 DEF StorageNext, ProgramStep, CallStep
<1> QED BY <1>1, InitMaps, StorageInvariance, PTL DEF StorageSpec, BlockSpec, Blocks!Spec

=============================================================================
