-------------------------- MODULE KnownPeersProofs --------------------------
(***************************************************************************)
(* The devices known to the gateway (module KnownPeers), for any number of *)
(* slots and devices: the slots, their number and the D-Bus objects agree  *)
(* however the writes of the file end and however callers spell addresses. *)
(* As long as no write has failed and every device was removed by the text *)
(* it was added with, memory and file hold exactly what the callers were   *)
(* told; the run Known_spellings shows that the second condition is needed.*)
(***************************************************************************)
EXTENDS KnownPeers, FiniteSetTheorems, WellFoundedInduction, TLAPS

UsedSlots == {i \in Slot : Used(i)}

(* A daemon that does not run has no memory and writes nothing.            *)
EndedInv == ~running => pending = None /\ UsedSlots = {}

(* Until the bus is there the slots in use are the first ones.             *)
PackedInv == ~on_bus => UsedSlots = 1..size

SlotInv == TypeOK /\ SlotsAgree /\ EndedInv /\ PackedInv

---------------------------------------------------------------------------
(* Sets of numbers.                                                        *)

Less == {ss \in Nat \X Nat : ss[1] < ss[2]}

(* A set of natural numbers that is not empty has a least element.         *)
LEMMA LeastElement ==
    ASSUME NEW S \in SUBSET Nat, S # {}
    PROVE  \E x \in S : \A y \in S : x <= y
<1>1. IsWellFoundedOn(Less, Nat)
  BY NatLessThanWellFounded DEF OpToRel, Less
<1>2. \A x, y \in Nat : y < x => <<y, x>> \in Less
  BY DEF Less
<1>3. PICK x \in S : \A y \in S : ~(<<y, x>> \in Less)
  BY <1>1, WFMin
<1>4. \A y \in S : ~(y < x)
  BY <1>2, <1>3
<1>5. \A y \in S : x <= y
  BY <1>4
<1> QED BY <1>5

(* The minimum of a set is one of its elements.                            *)
LEMMA MinElement ==
    ASSUME NEW S \in SUBSET Nat, S # {}
    PROVE  Min(S) \in S /\ \A y \in S : Min(S) <= y
  BY LeastElement DEF Min

(* The first n numbers.                                                    *)
LEMMA IntervalSize ==
    ASSUME NEW n \in Nat
    PROVE  IsFiniteSet(1..n) /\ Cardinality(1..n) = n
  BY FS_Interval

(* Sets of slots are finite.                                               *)
LEMMA SlotSets ==
    ASSUME NEW S \in SUBSET Slot
    PROVE  /\ IsFiniteSet(S) /\ Cardinality(S) \in 0..MaxPeers
           /\ S # Slot => Cardinality(S) < MaxPeers
           /\ \A T \in SUBSET S : /\ Cardinality(T) <= Cardinality(S)
                                  /\ Cardinality(T) = Cardinality(S) => T = S
<1>1. MaxPeers \in Nat
  BY MaxPeersAssumption
<1>2. IsFiniteSet(Slot) /\ Cardinality(Slot) = MaxPeers
  BY <1>1, IntervalSize DEF Slot
<1>3. /\ IsFiniteSet(S) /\ Cardinality(S) <= MaxPeers
      /\ Cardinality(S) = Cardinality(Slot) => S = Slot
  BY <1>2, FS_Subset
<1>4. Cardinality(S) \in Nat
  BY <1>3, FS_CardinalityType
<1>5. ASSUME NEW T \in SUBSET S
      PROVE  /\ Cardinality(T) <= Cardinality(S)
             /\ Cardinality(T) = Cardinality(S) => T = S
  BY <1>3, FS_Subset
<1> QED BY <1>1, <1>2, <1>3, <1>4, <1>5

---------------------------------------------------------------------------
(* Slots.                                                                  *)

(* The slots in use before slot i.                                         *)
UsedBefore(i) == {j \in 1..(i - 1) : Used(j)}

(* add_known_device visits every slot in use, so it does not overlook that *)
(* a device is known already, and when not all slots are in use it finds   *)
(* one within the array that is free.                                      *)
LEMMA ScanFacts ==
    ASSUME SlotInv
    PROVE  /\ UsedSlots \subseteq Scanned
           /\ size < MaxPeers => FreePos \in Slot /\ ~Used(FreePos)
<1>1. size = Cardinality(UsedSlots) /\ size \in Nat /\ MaxPeers \in Nat
  BY MaxPeersAssumption DEF SlotInv, SlotsAgree, UsedSlots, TypeOK
<1>2. \A i \in Slot : i \in Nat /\ i >= 1 /\ i <= MaxPeers
                        /\ UsedBefore(i) \subseteq UsedSlots /\ i \notin UsedBefore(i)
  BY <1>1 DEF UsedBefore, UsedSlots, Slot
<1>3. UsedSlots \in SUBSET Slot
  BY DEF UsedSlots
<1>4. Scanned = {i \in Slot : Cardinality(UsedBefore(i)) < size}
  BY DEF Scanned, UsedBefore
<1>5. ASSUME NEW i \in UsedSlots
      PROVE  i \in Scanned
  <2>1. i \in Slot /\ UsedBefore(i) \in SUBSET UsedSlots /\ UsedBefore(i) # UsedSlots
    BY <1>2, <1>3, <1>5
  <2>2. UsedBefore(i) \in SUBSET Slot
    BY <1>3, <2>1
  <2>3. /\ Cardinality(UsedBefore(i)) <= Cardinality(UsedSlots)
        /\ Cardinality(UsedBefore(i)) # Cardinality(UsedSlots)
    BY <1>3, <2>1, SlotSets
  <2>4. Cardinality(UsedBefore(i)) \in Nat
    BY <1>1, <2>2, SlotSets
  <2>5. Cardinality(UsedBefore(i)) < size
    BY <1>1, <2>3, <2>4
  <2> QED BY <1>4, <2>1, <2>5
<1>6. ASSUME size < MaxPeers
      PROVE  FreePos \in Slot /\ ~Used(FreePos)
  <2> DEFINE free == {i \in Scanned : ~Used(i)}
  <2>1. free \subseteq Slot /\ Slot \subseteq Nat
    BY DEF Scanned, Slot
  <2>2. FreePos = IF free # {} THEN Min(free) ELSE Cardinality(Scanned) + 1
    BY Zenon DEF FreePos
  <2>3. CASE free # {}
    <3>1. Min(free) \in free
      BY <2>1, <2>3, MinElement
    <3> QED BY <2>1, <2>2, <2>3, <3>1
  <2>4. CASE free = {}
    <3>1. UsedSlots # Slot
      <4>1. Cardinality(Slot) = MaxPeers
        BY <1>1, IntervalSize DEF Slot
      <4> QED BY <1>1, <1>6, <4>1
    <3> DEFINE unused == {i \in Slot : ~Used(i)}
    <3>2. unused # {} /\ unused \in SUBSET Nat
      BY <2>1, <3>1 DEF UsedSlots
    <3>3. PICK u \in unused : \A i \in unused : u <= i
      BY <3>2, LeastElement
    <3>4. u \in Slot /\ u \in Nat /\ u >= 1 /\ u <= MaxPeers /\ ~Used(u) /\ u - 1 \in Nat
      BY <1>2, <3>3
    <3>5. ASSUME NEW i \in Slot, i < u
          PROVE  Used(i)
      BY <1>2, <3>3, <3>4, <3>5
    <3>6. UsedBefore(u) = 1..(u - 1)
      <4>1. \A j \in 1..(u - 1) : j \in Slot /\ j < u
        BY <1>1, <3>4 DEF Slot
      <4> QED BY <3>5, <4>1 DEF UsedBefore
    <3>7. Cardinality(UsedBefore(u)) = u - 1
      BY <3>4, <3>6, IntervalSize
    <3>8. u \notin Scanned
      BY <2>4, <3>4
    <3>9. u - 1 >= size
      BY <1>1, <1>4, <3>4, <3>7, <3>8
    <3>10. UsedBefore(u) \in SUBSET UsedSlots
      BY <1>2, <3>4
    <3>11. u - 1 = size /\ UsedBefore(u) = UsedSlots
      <4>1. Cardinality(UsedBefore(u)) <= Cardinality(UsedSlots)
        BY <1>3, <3>10, SlotSets
      <4>2. Cardinality(UsedBefore(u)) = Cardinality(UsedSlots)
        BY <1>1, <3>4, <3>7, <3>9, <4>1
      <4>3. UsedBefore(u) = UsedSlots
        BY <1>3, <3>10, <4>2, SlotSets
      <4> QED BY <1>1, <3>7, <4>2, <4>3
    <3>12. Scanned = 1..(u - 1)
      <4>1. Scanned \subseteq UsedSlots
        BY <2>1, <2>4 DEF Scanned, UsedSlots
      <4> QED BY <1>5, <3>6, <3>11, <4>1
    <3>13. FreePos = u
      <4>1. Cardinality(Scanned) = u - 1
        BY <3>4, <3>12, IntervalSize
      <4> QED BY <2>2, <2>4, <3>4, <4>1
    <3> QED BY <3>4, <3>13
  <2> QED BY <2>3, <2>4
<1> QED BY <1>5, <1>6

---------------------------------------------------------------------------
(* The file.                                                               *)

(* What is kept of the file has the chosen entries, each once and in their *)
(* order.                                                                  *)
LEMMA KeptFacts ==
    ASSUME file \in Seq(Entry), NEW K \in SUBSET (DOMAIN file)
    PROVE  /\ Kept(K) \in Seq(Entry) /\ DOMAIN Kept(K) = 1..Cardinality(K)
           /\ \E at \in [1..Cardinality(K) -> K] :
                 /\ \A i \in 1..Cardinality(K) : Kept(K)[i] = file[at[i]]
                 /\ \A i, j \in 1..Cardinality(K) : i < j => at[i] < at[j]
                 /\ \A k \in K : \E i \in 1..Cardinality(K) : at[i] = k
<1> DEFINE n == Cardinality(K)
           upto(k) == {j \in K : j <= k}
           r == [k \in K |-> Cardinality(upto(k))]
           pos(i) == CHOOSE k \in K : Cardinality(upto(k)) = i
           at == [i \in 1..n |-> pos(i)]
<1>1. /\ DOMAIN file = 1..Len(file) /\ Len(file) \in Nat
      /\ \A k \in DOMAIN file : file[k] \in Entry
  OBVIOUS
<1>2. IsFiniteSet(K) /\ n \in Nat
  BY <1>1, IntervalSize, FS_Subset, FS_CardinalityType
<1>3. K \subseteq Nat
  BY <1>1
<1>4. ASSUME NEW k \in K
      PROVE  /\ upto(k) \in SUBSET K /\ IsFiniteSet(upto(k))
             /\ r[k] = Cardinality(upto(k)) /\ r[k] \in 1..n
  <2>1. upto(k) \in SUBSET K /\ k \in upto(k)
    BY <1>3
  <2>2. IsFiniteSet(upto(k)) /\ Cardinality(upto(k)) <= n
    BY <1>2, <2>1, FS_Subset
  <2>3. Cardinality(upto(k)) \in Nat /\ Cardinality(upto(k)) # 0
    BY <2>1, <2>2, FS_CardinalityType, FS_EmptySet
  <2>4. r[k] = Cardinality(upto(k))
    OBVIOUS
  <2> HIDE DEF upto, r
  <2> QED BY <1>2, <2>1, <2>2, <2>3, <2>4
<1>5. ASSUME NEW k \in K, NEW l \in K, k < l
      PROVE  r[k] < r[l]
  <2>1. upto(k) \in SUBSET upto(l) /\ l \in upto(l) /\ l \notin upto(k)
    BY <1>3, <1>5
  <2>2. Cardinality(upto(k)) <= Cardinality(upto(l))
          /\ Cardinality(upto(k)) # Cardinality(upto(l))
    BY <1>4, <2>1, FS_Subset
  <2> HIDE DEF upto, r
  <2>3. r[k] \in Nat /\ r[l] \in Nat
    <3>1. r[k] \in 1..n /\ r[l] \in 1..n
      BY <1>4
    <3> QED BY <1>2, <3>1
  <2> QED BY <1>4, <2>2, <2>3
<1>6. \A k, l \in K : r[k] = r[l] => k = l
  <2> SUFFICES ASSUME NEW k \in K, NEW l \in K, k # l
               PROVE  r[k] # r[l]
    OBVIOUS
  <2>1. k < l \/ l < k
    BY <1>3
  <2> HIDE DEF r
  <2>2. r[k] \in Nat /\ r[l] \in Nat
    <3>1. r[k] \in 1..n /\ r[l] \in 1..n
      BY <1>4
    <3> QED BY <1>2, <3>1
  <2> QED BY <1>5, <2>1, <2>2
<1>7. r \in Surjection(K, 1..n)
  <2>1. r \in [K -> 1..n]
    <3>1. r = [k \in K |-> r[k]]
      OBVIOUS
    <3> HIDE DEF r
    <3> QED BY <1>4, <3>1
  <2> HIDE DEF r
  <2>2. r \in Injection(K, 1..n)
    BY <1>6, <2>1 DEF Injection, IsInjective
  <2> QED BY <1>2, <2>2, IntervalSize, FS_Injection
<1>8. \A i \in 1..n : \E k \in K : Cardinality(upto(k)) = i
  <2>1. \A i \in 1..n : \E k \in K : r[k] = i
    BY <1>7, Zenon DEF Surjection
  <2> QED BY <1>4, <2>1, Zenon
<1> HIDE DEF r
<1>9. Kept(K) = [i \in 1..n |-> file[pos(i)]]
  BY Zenon DEF Kept
<1>10. ASSUME NEW i \in 1..n
       PROVE  pos(i) \in K /\ r[pos(i)] = i
  <2>1. pos(i) \in K /\ Cardinality(upto(pos(i))) = i
    BY <1>8, Zenon
  <2> QED BY <1>4, <2>1
<1> HIDE DEF pos
<1>11. at \in [1..n -> K] /\ \A i \in 1..n : at[i] = pos(i)
  BY <1>10
<1>12. \A i \in 1..n : at[i] \in K /\ r[at[i]] = i
  BY <1>10, <1>11
<1> HIDE DEF at
<1>13. Kept(K) = [i \in 1..n |-> file[at[i]]]
  BY <1>9, <1>11
<1>14. ASSUME NEW i \in 1..n, NEW j \in 1..n, i < j
       PROVE  at[i] < at[j]
  <2>1. at[i] # at[j] /\ ~(at[j] < at[i])
    <3>1. r[at[i]] = i /\ r[at[j]] = j /\ at[i] \in K /\ at[j] \in K
      BY <1>12
    <3>2. at[j] < at[i] => r[at[j]] < r[at[i]]
      BY <1>5, <3>1
    <3> QED BY <1>14, <3>1, <3>2
  <2>2. at[i] \in Nat /\ at[j] \in Nat
    BY <1>3, <1>12
  <2> QED BY <2>1, <2>2
<1>15. ASSUME NEW k \in K
       PROVE  \E i \in 1..n : at[i] = k
  <2>1. r[k] \in 1..n
    BY <1>4
  <2>2. at[r[k]] \in K /\ r[at[r[k]]] = r[k]
    BY <1>12, <2>1
  <2> QED BY <1>6, <2>1, <2>2
<1>16. Kept(K) \in Seq(Entry)
  <2>1. \A i \in 1..n : file[at[i]] \in Entry
    BY <1>1, <1>12
  <2> HIDE DEF n
  <2> QED BY <1>2, <1>13, <2>1
<1> QED BY <1>11, <1>13, <1>14, <1>15, <1>16

(* The entries are those of the devices D, one for each.                   *)
Holds(entries, D) ==
    /\ {entries[i].mac : i \in DOMAIN entries} = D
    /\ \A i, j \in DOMAIN entries : entries[i].mac = entries[j].mac => i = j

(* The texts of the entries.                                               *)
Texts(entries) == {entries[i] : i \in DOMAIN entries}

(* The entry of a new device is added.                                     *)
LEMMA WithFacts ==
    ASSUME file \in Seq(Entry), NEW m \in Device, NEW sp \in Spelling
    PROVE  /\ With(m, sp) \in Seq(Entry)
           /\ \A D : Holds(file, D) /\ m \notin D => Holds(With(m, sp), D \cup {m})
           /\ Texts(With(m, sp)) = Texts(file) \cup {Text(m, sp)}
<1> DEFINE e == Text(m, sp)
           f == Append(file, e)
<1>1. e \in Entry /\ e.mac = m
  BY DEF Entry, Text
<1>2. With(m, sp) = f
  BY DEF With
<1> HIDE DEF e
<1>3. /\ f \in Seq(Entry) /\ DOMAIN file = 1..Len(file) /\ Len(file) \in Nat
      /\ DOMAIN f = 1..(Len(file) + 1) /\ f[Len(file) + 1] = e
      /\ \A i \in 1..Len(file) : f[i] = file[i]
  BY <1>1
<1> HIDE DEF f
<1>4. ASSUME NEW D, Holds(file, D), m \notin D
      PROVE  Holds(f, D \cup {m})
  <2>1. \A i \in 1..Len(file) : f[i].mac \in D /\ f[i].mac # m
    BY <1>3, <1>4 DEF Holds
  <2>2. f[Len(file) + 1].mac = m
    BY <1>1, <1>3
  <2>3. \A i \in DOMAIN f : i \in 1..Len(file) \/ i = Len(file) + 1
    BY <1>3
  <2>4. \A d \in D : \E i \in 1..Len(file) : f[i].mac = d
    BY <1>3, <1>4 DEF Holds
  <2>5. {f[i].mac : i \in DOMAIN f} = D \cup {m}
    <3>1. 1..Len(file) \subseteq DOMAIN f /\ Len(file) + 1 \in DOMAIN f
      BY <1>3
    <3> QED BY <2>1, <2>2, <2>3, <2>4, <3>1
  <2>6. ASSUME NEW i \in DOMAIN f, NEW j \in DOMAIN f, f[i].mac = f[j].mac
        PROVE  i = j
    <3>1. i \in 1..Len(file) /\ j \in 1..Len(file) => i = j
      BY <1>3, <1>4, <2>6 DEF Holds
    <3> QED BY <2>1, <2>2, <2>3, <2>6, <3>1
  <2> QED BY <2>5, <2>6 DEF Holds
<1>5. Texts(f) = Texts(file) \cup {e}
  <2>1. \A i \in DOMAIN f : i \in 1..Len(file) \/ i = Len(file) + 1
    BY <1>3
  <2>2. 1..Len(file) \subseteq DOMAIN f /\ Len(file) + 1 \in DOMAIN f
    BY <1>3
  <2> QED BY <1>3, <2>1, <2>2 DEF Texts
<1> QED BY <1>2, <1>3, <1>4, <1>5 DEF e

(* The entries with the text of a removal are dropped, and no other; if    *)
(* the device was stored with this text it is gone.                        *)
LEMMA WithoutFacts ==
    ASSUME file \in Seq(Entry), NEW m \in Device, NEW sp \in Spelling
    PROVE  /\ Without(m, sp) \in Seq(Entry)
           /\ Texts(Without(m, sp)) = Texts(file) \ {Text(m, sp)}
           /\ \A D : Holds(file, D) /\ Text(m, sp) \in Texts(file)
                    => Holds(Without(m, sp), D \ {m})
<1> DEFINE K == {i \in DOMAIN file : file[i] # Text(m, sp)}
           f == Kept(K)
           n == Cardinality(K)
<1>1. Without(m, sp) = f
  BY DEF Without
<1>2. K \in SUBSET (DOMAIN file)
  OBVIOUS
<1>3. \A i \in DOMAIN file : i \in K <=> file[i] # Text(m, sp)
  OBVIOUS
<1> HIDE DEF K
<1>4. f \in Seq(Entry) /\ DOMAIN f = 1..n
  BY <1>2, KeptFacts
<1>5. PICK at \in [1..n -> K] :
         /\ \A i \in 1..n : f[i] = file[at[i]]
         /\ \A i, j \in 1..n : i < j => at[i] < at[j]
         /\ \A k \in K : \E i \in 1..n : at[i] = k
  BY <1>2, KeptFacts
<1> HIDE DEF f, n
<1>6. ASSUME NEW D, Holds(file, D), Text(m, sp) \in Texts(file)
      PROVE  Holds(f, D \ {m})
  <2>0. \A i \in DOMAIN file : i \in K <=> file[i].mac # m
    <3>1. PICK k \in DOMAIN file : file[k] = Text(m, sp)
      BY <1>6 DEF Texts
    <3>2. file[k].mac = m
      BY <3>1 DEF Text
    <3>3. \A i \in DOMAIN file : file[i].mac = m => i = k
      BY <1>6, <3>2 DEF Holds
    <3> QED BY <1>3, <3>1, <3>2, <3>3
  <2>1. ASSUME NEW i \in DOMAIN f, NEW j \in DOMAIN f, f[i].mac = f[j].mac
        PROVE  i = j
    <3>1. at[i] = at[j]
      BY <1>2, <1>4, <1>5, <1>6, <2>1 DEF Holds
    <3>2. \A k, l \in 1..n : k < l => at[k] # at[l]
      <4>1. \A k \in 1..n : at[k] \in Nat
        BY <1>2, <1>5
      <4> QED BY <1>5, <4>1
    <3>3. i \in 1..n /\ j \in 1..n
      BY <1>4
    <3> QED BY <3>1, <3>2, <3>3
  <2>2. \A i \in DOMAIN f : f[i].mac \in D \ {m}
    BY <1>2, <1>4, <1>5, <1>6, <2>0 DEF Holds
  <2>3. \A d \in D \ {m} : \E i \in DOMAIN f : f[i].mac = d
    <3> SUFFICES ASSUME NEW d \in D \ {m}
                 PROVE  \E i \in DOMAIN f : f[i].mac = d
      OBVIOUS
    <3>1. PICK k \in DOMAIN file : file[k].mac = d
      BY <1>6 DEF Holds
    <3>2. k \in K
      BY <2>0, <3>1
    <3> QED BY <1>4, <1>5, <3>1, <3>2
  <2> QED BY <2>1, <2>2, <2>3 DEF Holds
<1>7. Texts(f) = Texts(file) \ {Text(m, sp)}
  <2>1. \A i \in DOMAIN f : f[i] \in Texts(file) \ {Text(m, sp)}
    BY <1>2, <1>3, <1>4, <1>5 DEF Texts
  <2>2. ASSUME NEW k \in DOMAIN file, file[k] # Text(m, sp)
        PROVE  \E i \in DOMAIN f : f[i] = file[k]
    <3>1. k \in K
      BY <1>3, <2>2
    <3> QED BY <1>4, <1>5, <3>1
  <2> QED BY <2>1, <2>2 DEF Texts
<1> QED BY <1>1, <1>4, <1>6, <1>7

---------------------------------------------------------------------------
(* The steps and the slots.                                                *)

Slots == [Slot -> [mac : Device \cup {NoDevice}, status : BOOLEAN]]

(* What the types and the records of the slots say.                        *)
LEMMA SlotFacts ==
    ASSUME SlotInv
    PROVE  /\ slots \in Slots /\ \A i \in Slot : slots[i].mac \in Device \cup {NoDevice}
           /\ UsedSlots \in SUBSET Slot /\ IsFiniteSet(UsedSlots)
           /\ size = Cardinality(UsedSlots) /\ size \in 0..MaxPeers /\ size \in Nat
           /\ objects \in SUBSET UsedSlots
           /\ NoDevice \notin Device /\ MaxPeers \in Nat
<1>1. slots \in Slots /\ size \in 0..MaxPeers /\ objects \in SUBSET Slot
  BY DEF SlotInv, TypeOK, Slots
<1>2. \A i \in Slot : slots[i].mac \in Device \cup {NoDevice}
  BY <1>1 DEF Slots
<1>3. UsedSlots \in SUBSET Slot
  BY DEF UsedSlots
<1>4. IsFiniteSet(UsedSlots)
  BY <1>3, SlotSets
<1>5. size = Cardinality(UsedSlots) /\ objects \in SUBSET UsedSlots
  BY <1>1 DEF SlotInv, SlotsAgree, UsedSlots
<1> QED BY <1>1, <1>2, <1>3, <1>4, <1>5, DeviceAssumption, MaxPeersAssumption

(* parse_nodes fills the first slots, one for an entry.                    *)
LEMMA LoadFacts ==
    ASSUME NEW f \in Seq(Entry)
    PROVE  /\ Loaded(f) \in Slots /\ LoadedSize(f) \in 0..MaxPeers
           /\ LoadedSize(f) <= Len(f) /\ (Len(f) <= MaxPeers => LoadedSize(f) = Len(f))
           /\ {i \in Slot : Loaded(f)[i].mac # NoDevice} = 1..LoadedSize(f)
           /\ \A i \in 1..LoadedSize(f) : i \in DOMAIN f /\ Loaded(f)[i].mac = f[i].mac
<1> DEFINE n == LoadedSize(f)
           len == Len(f)
<1>1. len \in Nat /\ MaxPeers \in Nat /\ DOMAIN f = 1..len
  BY MaxPeersAssumption
<1>2. \A i \in 1..len : f[i].mac \in Device /\ f[i].mac # NoDevice
  <2>1. \A i \in 1..len : f[i] \in Entry
    OBVIOUS
  <2> QED BY <2>1, DeviceAssumption DEF Entry
<1>3. \A i \in Slot : Loaded(f)[i] = IF i <= len THEN [mac |-> f[i].mac, status |-> FALSE] ELSE FreeSlot
  BY DEF Loaded
<1>4. n \in 0..MaxPeers /\ n <= len /\ (len <= MaxPeers => n = len)
        /\ (n = len \/ n = MaxPeers)
  <2> DEFINE S == {len, MaxPeers}
  <2>1. S \in SUBSET Nat /\ S # {}
    BY <1>1
  <2>2. Min(S) \in S /\ \A y \in S : Min(S) <= y
    BY <2>1, MinElement
  <2>3. n = Min(S)
    BY DEF LoadedSize
  <2> HIDE DEF n, len
  <2> QED BY <1>1, <2>2, <2>3
<1> HIDE DEF n, len
<1>5. ASSUME NEW i \in Slot
      PROVE  /\ Loaded(f)[i] \in [mac : Device \cup {NoDevice}, status : BOOLEAN]
             /\ Loaded(f)[i].mac # NoDevice <=> i <= n
             /\ i <= n => i \in DOMAIN f /\ Loaded(f)[i].mac = f[i].mac
  <2>1. i \in Nat /\ i >= 1 /\ i <= MaxPeers
    BY <1>1 DEF Slot
  <2>2. Loaded(f)[i] = IF i <= len THEN [mac |-> f[i].mac, status |-> FALSE] ELSE FreeSlot
    BY <1>3
  <2>3. i <= len <=> i <= n
    BY <1>1, <1>4, <2>1
  <2>4. CASE i <= n
    <3>1. i \in 1..len
      BY <1>1, <2>1, <2>3, <2>4
    <3>2. Loaded(f)[i] = [mac |-> f[i].mac, status |-> FALSE]
      BY <2>2, <2>3, <2>4
    <3> QED BY <1>1, <1>2, <2>4, <3>1, <3>2
  <2>5. CASE ~(i <= n)
    <3>1. Loaded(f)[i] = FreeSlot
      BY <2>2, <2>3, <2>5
    <3> QED BY <2>5, <3>1 DEF FreeSlot
  <2> QED BY <2>4, <2>5
<1>6. Loaded(f) \in Slots
  <2>1. Loaded(f) = [i \in Slot |-> Loaded(f)[i]]
    BY DEF Loaded
  <2> QED BY <1>5, <2>1 DEF Slots
<1>7. 1..n \subseteq Slot
  BY <1>1, <1>4 DEF Slot
<1>8. \A i \in Slot : i <= n <=> i \in 1..n
  BY <1>1, <1>4 DEF Slot
<1> QED BY <1>4, <1>5, <1>6, <1>7, <1>8 DEF n, len

(* A step that changes no slot.                                            *)
LEMMA SameSlots ==
    ASSUME SlotInv, UNCHANGED <<slots, size, objects>>, TypeOK', EndedInv',
           on_bus' = on_bus
    PROVE  SlotInv'
<1>1. UsedSlots' = UsedSlots /\ \A i \in objects : Used(i)' = Used(i)
  BY DEF UsedSlots, Used
<1>2. SlotsAgree'
  BY <1>1 DEF SlotInv, SlotsAgree, UsedSlots
<1>3. PackedInv'
  BY <1>1 DEF SlotInv, PackedInv
<1> QED BY <1>2, <1>3 DEF SlotInv

(* The daemon starts.                                                      *)
LEMMA StartKeepsSlots ==
    ASSUME SlotInv, Start
    PROVE  SlotInv'
<1>1. /\ ~running /\ running' = TRUE /\ file' = IF file = Broken THEN <<>> ELSE file
      /\ slots' = Loaded(file') /\ size' = LoadedSize(file')
      /\ UNCHANGED <<on_bus, objects, pending, told, intact, exact>>
  BY DEF Start, history
<1>2. file' \in Seq(Entry)
  BY <1>1 DEF SlotInv, TypeOK
<1> DEFINE f == file'
<1>3. f \in Seq(Entry)
  BY <1>2
<1> HIDE DEF f
<1>4. /\ Loaded(f) \in Slots /\ LoadedSize(f) \in 0..MaxPeers
      /\ {i \in Slot : Loaded(f)[i].mac # NoDevice} = 1..LoadedSize(f)
  BY <1>3, LoadFacts
<1>5. slots' = Loaded(f) /\ size' = LoadedSize(f)
  BY <1>1 DEF f
<1>6. UsedSlots' = 1..size' /\ size' \in 0..MaxPeers /\ slots' \in Slots
  BY <1>4, <1>5 DEF UsedSlots, Used
<1>7. Cardinality(UsedSlots') = size'
  BY <1>6, IntervalSize, MaxPeersAssumption
<1>8. objects = {}
  BY <1>1, SlotFacts DEF SlotInv, EndedInv
<1>9. TypeOK'
  BY <1>1, <1>2, <1>6 DEF SlotInv, TypeOK, Slots
<1> QED BY <1>1, <1>6, <1>7, <1>8, <1>9
        DEF SlotInv, SlotsAgree, EndedInv, PackedInv, UsedSlots

(* The bus is there: the objects are those of the first slots.             *)
LEMMA BusKeepsSlots ==
    ASSUME SlotInv, BusAcquired
    PROVE  SlotInv'
<1>1. /\ running /\ ~on_bus /\ on_bus' = TRUE
      /\ UNCHANGED <<running, slots, size, file, pending, told, intact, exact>>
  BY DEF BusAcquired, disk, history
<1>2. PICK n \in 0..size : objects' = 1..n
  BY DEF BusAcquired
<1>3. UsedSlots = 1..size /\ size \in Nat /\ UsedSlots \in SUBSET Slot
  BY <1>1, SlotFacts DEF SlotInv, PackedInv
<1>4. objects' \in SUBSET UsedSlots /\ UsedSlots' = UsedSlots
  BY <1>1, <1>2, <1>3 DEF UsedSlots, Used
<1>5. TypeOK'
  BY <1>1, <1>3, <1>4 DEF SlotInv, TypeOK
<1> QED BY <1>1, <1>4, <1>5 DEF SlotInv, SlotsAgree, EndedInv, PackedInv, UsedSlots

(* The daemon ends.                                                        *)
LEMMA StopKeepsSlots ==
    ASSUME SlotInv, Stop
    PROVE  SlotInv'
<1>1. /\ running' = FALSE /\ on_bus' = FALSE
      /\ slots' = [i \in Slot |-> FreeSlot] /\ size' = 0 /\ objects' = {}
      /\ pending' = None /\ intact' = (intact /\ pending = None)
      /\ UNCHANGED <<file, told, exact>>
  BY DEF Stop
<1>2. slots' \in Slots
  BY <1>1 DEF FreeSlot, Slots
<1>3. UsedSlots' = {}
  BY <1>1 DEF UsedSlots, Used, FreeSlot
<1>4. 0 \in 0..MaxPeers /\ 1..0 = {}
  BY MaxPeersAssumption
<1>5. TypeOK'
  <2>1. intact' \in BOOLEAN
    BY <1>1, Zenon
  <2> QED BY <1>1, <1>2, <1>4, <2>1 DEF SlotInv, TypeOK, Slots
<1>6. Cardinality({}) = 0
  BY FS_EmptySet
<1> QED BY <1>1, <1>3, <1>4, <1>5, <1>6
        DEF SlotInv, SlotsAgree, EndedInv, PackedInv, UsedSlots

(* write_file: what is written are entries, and the file is lost while     *)
(* they are.                                                               *)
LEMMA RewriteFacts ==
    ASSUME SlotInv, NEW entries, file # Broken => entries \in Seq(Entry), Rewrite(entries)
    PROVE  /\ file' # Broken => file' \in Seq(Entry)
           /\ pending' # None => pending' \in Seq(Entry)
           /\ intact' \in BOOLEAN
           /\ intact' => /\ intact /\ file # Broken /\ file' = Broken
                         /\ pending' = entries /\ pending' # None
<1>1. CASE file # Broken /\ file' = Broken /\ pending' = entries /\ UNCHANGED intact
  <2>1. entries \in Seq(Entry) /\ entries # None
    BY <1>1, MarkAssumption
  <2> QED BY <1>1, <2>1 DEF SlotInv, TypeOK
<1>2. CASE intact' = FALSE /\ UNCHANGED disk
  BY <1>2 DEF SlotInv, TypeOK, disk
<1> QED BY <1>1, <1>2 DEF Rewrite

(* The slots after a device has been added.                                *)
LEMMA NewSlotFacts ==
    ASSUME SlotInv, NEW i \in Slot, ~Used(i), NEW m \in Device, slots' = NewSlot(i, m)
    PROVE  /\ slots' \in Slots /\ UsedSlots' = UsedSlots \cup {i} /\ i \notin UsedSlots
           /\ slots'[i].mac = m /\ \A j \in Slot \ {i} : slots'[j] = slots[j]
<1> DEFINE new == [mac |-> m, status |-> FALSE]
<1>1. slots \in Slots /\ m # NoDevice
  BY SlotFacts
<1>2. slots' = [slots EXCEPT ![i] = new]
  BY DEF NewSlot
<1>3. new \in [mac : Device \cup {NoDevice}, status : BOOLEAN] /\ new.mac = m
  OBVIOUS
<1> HIDE DEF new
<1>4. /\ slots' \in Slots /\ slots'[i] = new
      /\ \A j \in Slot \ {i} : slots'[j] = slots[j]
  BY <1>1, <1>2, <1>3 DEF Slots
<1>5. UsedSlots' = UsedSlots \cup {i}
  BY <1>1, <1>3, <1>4 DEF UsedSlots, Used
<1> QED BY <1>3, <1>4, <1>5 DEF UsedSlots

(* add_known_device: a device that is not known gets a free slot.          *)
LEMMA AddStep ==
    ASSUME SlotInv, NEW m \in Device, NEW sp \in Spelling, AddDevice(m, sp)
    PROVE  /\ Serving /\ Rewrite(With(m, sp)) /\ told' = told \cup {Text(m, sp)}
           /\ UNCHANGED <<running, on_bus, exact>> /\ size' = size + 1
           /\ \A j \in UsedSlots : slots[j].mac # m
           /\ \E i \in Slot :
                 /\ ~Used(i) /\ slots' = NewSlot(i, m) /\ objects' = objects \cup {i}
<1>1. /\ Serving /\ Rewrite(With(m, sp)) /\ told' = told \cup {Text(m, sp)}
      /\ UNCHANGED <<running, on_bus, exact>> /\ size' = size + 1 /\ size < MaxPeers
      /\ \A i \in Scanned : slots[i].mac # m
      /\ slots' = NewSlot(FreePos, m) /\ objects' = objects \cup {FreePos}
  BY DEF AddDevice, NewDeviceObject
<1>2. UsedSlots \subseteq Scanned /\ FreePos \in Slot /\ ~Used(FreePos)
  BY <1>1, ScanFacts
<1> QED BY <1>1, <1>2

(* AddDevice keeps the records of the slots.                               *)
LEMMA AddKeepsSlots ==
    ASSUME SlotInv, NEW m \in Device, NEW sp \in Spelling, AddDevice(m, sp)
    PROVE  SlotInv'
<1>1. /\ Serving /\ Rewrite(With(m, sp)) /\ told' = told \cup {Text(m, sp)}
      /\ UNCHANGED <<running, on_bus, exact>> /\ size' = size + 1
  BY AddStep
<1>2. PICK i \in Slot : ~Used(i) /\ slots' = NewSlot(i, m) /\ objects' = objects \cup {i}
  BY AddStep
<1>3. /\ slots' \in Slots /\ UsedSlots' = UsedSlots \cup {i} /\ i \notin UsedSlots
  BY <1>2, NewSlotFacts
<1>4. /\ UsedSlots \in SUBSET Slot /\ IsFiniteSet(UsedSlots) /\ size = Cardinality(UsedSlots)
      /\ size \in Nat /\ objects \in SUBSET UsedSlots /\ MaxPeers \in Nat
  BY SlotFacts
<1> DEFINE U == UsedSlots \cup {i}
<1>5. Cardinality(U) = size + 1 /\ U \in SUBSET Slot /\ Cardinality(U) \in 0..MaxPeers
  BY <1>3, <1>4, FS_AddElement, SlotSets
<1> HIDE DEF U
<1>6. UsedSlots' = U /\ Cardinality(UsedSlots') = size' /\ size' \in 0..MaxPeers
  BY <1>1, <1>3, <1>5 DEF U
<1>7. objects' \in SUBSET UsedSlots' /\ objects' \in SUBSET Slot
  BY <1>2, <1>3, <1>4
<1>8. SlotsAgree'
  <2>1. \A j \in objects' : Used(j)'
    BY <1>7 DEF UsedSlots
  <2> QED BY <1>6, <2>1 DEF SlotsAgree, UsedSlots
<1>9. file # Broken => With(m, sp) \in Seq(Entry)
  BY WithFacts DEF SlotInv, TypeOK
<1>10. TypeOK'
  <2>1. /\ file' # Broken => file' \in Seq(Entry)
        /\ pending' # None => pending' \in Seq(Entry)
        /\ intact' \in BOOLEAN
    BY <1>1, <1>9, RewriteFacts
  <2>2. running' \in BOOLEAN /\ on_bus' \in BOOLEAN /\ exact' \in BOOLEAN
    BY <1>1 DEF SlotInv, TypeOK
  <2>3. told' \subseteq Entry
    BY <1>1 DEF SlotInv, TypeOK, Text, Entry
  <2> QED BY <1>3, <1>6, <1>7, <2>1, <2>2, <2>3 DEF TypeOK, Slots
<1>11. running' /\ on_bus'
  BY <1>1 DEF Serving
<1> QED BY <1>8, <1>10, <1>11 DEF SlotInv, EndedInv, PackedInv

(* remove_known_device: the device's slot is free again.                   *)
LEMMA RemoveStep ==
    ASSUME SlotInv, NEW m \in Device, NEW sp \in Spelling, RemoveDevice(m, sp)
    PROVE  /\ Serving /\ Rewrite(Without(m, sp)) /\ told' = {t \in told : t.mac # m}
           /\ exact' = (exact /\ Text(m, sp) \in told)
           /\ UNCHANGED <<running, on_bus>> /\ size' = size - 1
           /\ \E i \in Slot :
                 /\ i \in UsedSlots /\ slots[i].mac = m /\ objects' = objects \ {i}
                 /\ slots' \in Slots /\ UsedSlots' = UsedSlots \ {i}
                 /\ \A j \in Slot \ {i} : slots'[j] = slots[j]
<1>1. /\ Serving /\ Rewrite(Without(m, sp)) /\ told' = {t \in told : t.mac # m}
      /\ exact' = (exact /\ Text(m, sp) \in told)
      /\ UNCHANGED <<running, on_bus>>
  BY DEF RemoveDevice
<1>2. PICK i \in objects : slots[i].mac = m /\ Forget(i)
  BY DEF RemoveDevice
<1>3. /\ slots' = [slots EXCEPT ![i].mac = NoDevice]
      /\ objects' = objects \ {i} /\ size' = size - 1
  BY <1>2 DEF Forget
<1>4. slots \in Slots /\ i \in Slot /\ i \in UsedSlots
  BY SlotFacts
<1> DEFINE free == [slots[i] EXCEPT !.mac = NoDevice]
<1>5. slots[i] \in [mac : Device \cup {NoDevice}, status : BOOLEAN]
  BY <1>4 DEF Slots
<1>6. free \in [mac : Device \cup {NoDevice}, status : BOOLEAN] /\ free.mac = NoDevice
  BY <1>5
<1>7. slots' = [slots EXCEPT ![i] = free]
  BY <1>3, Zenon
<1> HIDE DEF free
<1>8. /\ slots' \in Slots /\ slots'[i] = free
      /\ \A j \in Slot \ {i} : slots'[j] = slots[j]
  BY <1>4, <1>6, <1>7 DEF Slots
<1>9. UsedSlots' = UsedSlots \ {i}
  BY <1>6, <1>8 DEF UsedSlots, Used
<1> QED BY <1>1, <1>2, <1>3, <1>4, <1>8, <1>9

(* RemoveDevice keeps the records of the slots.                            *)
LEMMA RemoveKeepsSlots ==
    ASSUME SlotInv, NEW m \in Device, NEW sp \in Spelling, RemoveDevice(m, sp)
    PROVE  SlotInv'
<1>1. /\ Serving /\ Rewrite(Without(m, sp)) /\ told' = {t \in told : t.mac # m}
      /\ exact' = (exact /\ Text(m, sp) \in told)
      /\ UNCHANGED <<running, on_bus>> /\ size' = size - 1
  BY RemoveStep
<1>2. PICK i \in Slot :
         /\ i \in UsedSlots /\ objects' = objects \ {i}
         /\ slots' \in Slots /\ UsedSlots' = UsedSlots \ {i}
  BY RemoveStep
<1>3. /\ UsedSlots \in SUBSET Slot /\ IsFiniteSet(UsedSlots) /\ size = Cardinality(UsedSlots)
      /\ size \in Nat /\ objects \in SUBSET UsedSlots /\ MaxPeers \in Nat
  BY SlotFacts
<1> DEFINE U == UsedSlots \ {i}
<1>4. Cardinality(U) = size - 1 /\ U \in SUBSET Slot /\ Cardinality(U) \in 0..MaxPeers
  BY <1>2, <1>3, FS_RemoveElement, SlotSets
<1> HIDE DEF U
<1>5. UsedSlots' = U /\ Cardinality(UsedSlots') = size' /\ size' \in 0..MaxPeers
  BY <1>1, <1>2, <1>4 DEF U
<1>6. objects' \in SUBSET UsedSlots' /\ objects' \in SUBSET Slot
  BY <1>2, <1>3
<1>7. SlotsAgree'
  <2>1. \A j \in objects' : Used(j)'
    BY <1>6 DEF UsedSlots
  <2> QED BY <1>5, <2>1 DEF SlotsAgree, UsedSlots
<1>8. file # Broken => Without(m, sp) \in Seq(Entry)
  BY WithoutFacts DEF SlotInv, TypeOK
<1>9. TypeOK'
  <2>1. /\ file' # Broken => file' \in Seq(Entry)
        /\ pending' # None => pending' \in Seq(Entry)
        /\ intact' \in BOOLEAN
    BY <1>1, <1>8, RewriteFacts
  <2>2. running' \in BOOLEAN /\ on_bus' \in BOOLEAN /\ told' \subseteq Entry
    BY <1>1 DEF SlotInv, TypeOK
  <2>3. exact' \in BOOLEAN
    BY <1>1, Zenon
  <2> QED BY <1>2, <1>5, <1>6, <2>1, <2>2, <2>3 DEF TypeOK, Slots
<1>10. running' /\ on_bus'
  BY <1>1 DEF Serving
<1> QED BY <1>7, <1>9, <1>10 DEF SlotInv, EndedInv, PackedInv

(* evt_presence marks a device as connected: the addresses stay.           *)
LEMMA ConnectedStep ==
    ASSUME SlotInv, NEW m \in Device, Connected(m)
    PROVE  /\ UNCHANGED <<running, on_bus, size, objects, file, pending, told, intact, exact>>
           /\ slots' \in Slots /\ \A j \in Slot : slots'[j].mac = slots[j].mac
           /\ UsedSlots' = UsedSlots
<1>1. UNCHANGED <<running, on_bus, size, objects, file, pending, told, intact, exact>>
  BY DEF Connected, disk, history
<1>2. PICK i \in Slot : slots' = [slots EXCEPT ![i].status = TRUE]
  BY DEF Connected
<1> DEFINE new == [slots[i] EXCEPT !.status = TRUE]
<1>3. slots \in Slots
  BY SlotFacts
<1>4. slots[i] \in [mac : Device \cup {NoDevice}, status : BOOLEAN]
  BY <1>3 DEF Slots
<1>5. new \in [mac : Device \cup {NoDevice}, status : BOOLEAN] /\ new.mac = slots[i].mac
  BY <1>4
<1>6. slots' = [slots EXCEPT ![i] = new]
  BY <1>2, Zenon
<1> HIDE DEF new
<1>7. slots' \in Slots /\ \A j \in Slot : slots'[j].mac = slots[j].mac
  BY <1>3, <1>5, <1>6 DEF Slots
<1>8. UsedSlots' = UsedSlots
  BY <1>7 DEF UsedSlots, Used
<1> QED BY <1>1, <1>7, <1>8

(* Every step keeps the records of the slots.                              *)
LEMMA NextKeepsSlots ==
    ASSUME SlotInv, [Next]_vars
    PROVE  SlotInv'
<1>1. CASE Start
  BY <1>1, StartKeepsSlots
<1>2. CASE BusAcquired
  BY <1>2, BusKeepsSlots
<1>3. CASE Stop
  BY <1>3, StopKeepsSlots
<1>4. CASE WriteDone
  <2>1. /\ UNCHANGED <<running, on_bus, slots, size, objects, told, intact, exact>>
        /\ pending # None /\ file' = pending /\ pending' = None
    BY <1>4 DEF WriteDone, memory, history
  <2>2. TypeOK' /\ EndedInv'
    BY <2>1 DEF SlotInv, TypeOK, EndedInv
  <2> QED BY <2>1, <2>2, SameSlots
<1>5. CASE WriteFails
  <2>1. /\ UNCHANGED <<running, on_bus, slots, size, objects, told, file, exact>>
        /\ pending # None /\ pending' = None /\ intact' = FALSE
    BY <1>5 DEF WriteFails, memory
  <2>2. TypeOK' /\ EndedInv'
    BY <2>1 DEF SlotInv, TypeOK, EndedInv
  <2> QED BY <2>1, <2>2, SameSlots
<1>6. ASSUME NEW m \in Device, NEW sp \in Spelling, AddDevice(m, sp)
      PROVE  SlotInv'
  BY <1>6, AddKeepsSlots
<1>7. ASSUME NEW m \in Device, NEW sp \in Spelling, RemoveDevice(m, sp)
      PROVE  SlotInv'
  BY <1>7, RemoveKeepsSlots
<1>8. ASSUME NEW m \in Device, Connected(m)
      PROVE  SlotInv'
  <2>1. /\ UNCHANGED <<running, on_bus, size, objects, file, pending, told, intact, exact>>
        /\ slots' \in Slots /\ UsedSlots' = UsedSlots
    BY <1>8, ConnectedStep
  <2>2. TypeOK'
    BY <2>1 DEF SlotInv, TypeOK, Slots
  <2>3. SlotsAgree'
    <3>1. size = Cardinality(UsedSlots) /\ \A j \in objects : j \in UsedSlots
      BY SlotFacts
    <3> QED BY <2>1, <3>1 DEF SlotsAgree, UsedSlots
  <2> QED BY <2>1, <2>2, <2>3 DEF SlotInv, EndedInv, PackedInv
<1>9. ASSUME UNCHANGED vars
      PROVE  SlotInv'
  <2>1. UNCHANGED <<running, on_bus, slots, size, objects, told, file, pending, intact, exact>>
    BY <1>9 DEF vars, memory, disk, history
  <2>2. TypeOK' /\ EndedInv'
    BY <2>1 DEF SlotInv, TypeOK, EndedInv, UsedSlots, Used
  <2> QED BY <2>1, <2>2, SameSlots
<1> QED BY <1>1, <1>2, <1>3, <1>4, <1>5, <1>6, <1>7, <1>8, <1>9 DEF Next, AddKnown

(* A daemon that has never run.                                            *)
LEMMA InitSlots == Init => SlotInv
<1> SUFFICES ASSUME Init PROVE SlotInv
  OBVIOUS
<1>1. /\ running = FALSE /\ on_bus = FALSE /\ slots = [i \in Slot |-> FreeSlot]
      /\ size = 0 /\ objects = {} /\ file \in {<<>>, Broken} /\ pending = None
      /\ told = {} /\ intact = TRUE /\ exact = TRUE
  BY DEF Init
<1>2. slots \in Slots /\ UsedSlots = {}
  BY <1>1 DEF UsedSlots, Used, FreeSlot, Slots
<1>3. 0 \in 0..MaxPeers /\ 1..0 = {} /\ Cardinality({}) = 0 /\ <<>> \in Seq(Entry)
  BY MaxPeersAssumption, FS_EmptySet
<1>4. TypeOK
  BY <1>1, <1>2, <1>3 DEF TypeOK, Slots
<1>5. SlotsAgree
  BY <1>1, <1>2, <1>3 DEF SlotsAgree, UsedSlots
<1> QED BY <1>1, <1>2, <1>3, <1>4, <1>5 DEF SlotInv, EndedInv, PackedInv

(* The invariant of the slots.                                             *)
THEOREM SlotInvariance == Spec => []SlotInv
<1>1. SlotInv /\ [Next]_vars => SlotInv'
  BY NextKeepsSlots
<1> QED BY <1>1, InitSlots, PTL DEF Spec

(* Types, and nothing is stored outside the array (add_known_device).      *)
THEOREM TypeCorrect == Spec => []TypeOK
<1>1. SlotInv => TypeOK
  BY DEF SlotInv
<1> QED BY <1>1, SlotInvariance, PTL

(* known_peers_size is the number of slots in use and every object stands  *)
(* for one of them, however the writes of the file end and whatever texts  *)
(* callers pass (add_known_device, remove_known_device).                   *)
THEOREM SlotsAlwaysAgree == Spec => []SlotsAgree
<1>1. SlotInv => SlotsAgree
  BY DEF SlotInv
<1> QED BY <1>1, SlotInvariance, PTL

---------------------------------------------------------------------------
(* What callers are told.                                                  *)

Good == intact /\ exact

(* The entries are the texts T, one for each device.                       *)
Stores(entries, T) == Texts(entries) = T /\ Holds(entries, Macs(T))

(* The file stores what they were told; before the first start it may be   *)
(* missing.                                                                *)
FileInv ==
    Good /\ pending = None => IF file = Broken THEN told = {} ELSE Stores(file, told)

(* So does what is being written.                                          *)
PendingInv == Good /\ pending # None => Stores(pending, told)

(* The devices they were told of fit in the slots.                         *)
FewInv == Good => IsFiniteSet(Macs(told)) /\ Cardinality(Macs(told)) <= MaxPeers

ToldInv == SlotInv /\ AcceptsWhatItTold /\ FileInv /\ PendingInv /\ FewInv

(* Each device in use has its slot.                                        *)
OneSlotEach(D) ==
    /\ \A j \in UsedSlots : slots[j].mac \in D
    /\ \A d \in D : \E j \in UsedSlots : slots[j].mac = d
    /\ \A i, j \in UsedSlots : slots[i].mac = slots[j].mac => i = j

(* That is what AcceptsWhatItTold says of a daemon that runs.              *)
LEMMA AcceptsNow ==
    ASSUME running, Good
    PROVE  AcceptsWhatItTold <=> OneSlotEach(Macs(told))
<1>1. Known = {slots[j].mac : j \in UsedSlots}
  BY DEF Known, UsedSlots
<1>2. Known = Macs(told) <=>
        /\ \A j \in UsedSlots : slots[j].mac \in Macs(told)
        /\ \A d \in Macs(told) : \E j \in UsedSlots : slots[j].mac = d
  BY <1>1
<1>3. (\A i, j \in Slot : Used(i) /\ slots[i].mac = slots[j].mac => i = j)
        <=> \A i, j \in UsedSlots : slots[i].mac = slots[j].mac => i = j
  BY DEF UsedSlots, Used
<1> QED BY <1>2, <1>3 DEF AcceptsWhatItTold, OneSlotEach, Good

(* The same after a step.                                                  *)
LEMMA AcceptsThen ==
    ASSUME running', Good', OneSlotEach(Macs(told))'
    PROVE  AcceptsWhatItTold'
<1>1. Known' = {slots'[j].mac : j \in UsedSlots'}
  BY DEF Known, UsedSlots
<1>2. Known' = Macs(told')
  BY <1>1 DEF OneSlotEach, Macs
<1>3. \A i, j \in Slot : Used(i)' /\ slots'[i].mac = slots'[j].mac => i = j
  BY DEF UsedSlots, Used, OneSlotEach
<1> QED BY <1>2, <1>3 DEF AcceptsWhatItTold, Good, Macs

(* The devices in the slots are no more than there are slots.              *)
LEMMA FewDevices ==
    ASSUME NEW U \in SUBSET Slot, NEW f \in Slots, NEW D,
           \A j \in U : f[j].mac \in D, \A d \in D : \E j \in U : f[j].mac = d
    PROVE  IsFiniteSet(D) /\ Cardinality(D) <= MaxPeers
<1> DEFINE g == [j \in U |-> f[j].mac]
<1>1. g \in Surjection(U, D)
  BY DEF Surjection
<1>2. IsFiniteSet(U) /\ Cardinality(U) \in 0..MaxPeers
  BY SlotSets
<1> HIDE DEF g
<1>3. IsFiniteSet(D) /\ Cardinality(D) <= Cardinality(U)
  BY <1>1, <1>2, FS_Surjection
<1>4. Cardinality(D) \in Nat /\ MaxPeers \in Nat
  BY <1>3, FS_CardinalityType, MaxPeersAssumption
<1> QED BY <1>2, <1>3, <1>4

(* A file with an entry for each of them fits in the slots.                *)
LEMMA EntriesFit ==
    ASSUME NEW f \in Seq(Entry), NEW D, Holds(f, D), IsFiniteSet(D), Cardinality(D) <= MaxPeers
    PROVE  Len(f) <= MaxPeers
<1> DEFINE g == [i \in DOMAIN f |-> f[i].mac]
<1>1. g \in [DOMAIN f -> D] /\ \A i, j \in DOMAIN f : g[i] = g[j] => i = j
  BY DEF Holds
<1>2. DOMAIN f = 1..Len(f) /\ Len(f) \in Nat
  OBVIOUS
<1> HIDE DEF g
<1>3. g \in Injection(DOMAIN f, D)
  BY <1>1 DEF Injection, IsInjective
<1>4. Cardinality(DOMAIN f) <= Cardinality(D)
  BY <1>3, FS_Injection
<1>5. Cardinality(DOMAIN f) = Len(f) /\ Cardinality(D) \in Nat /\ MaxPeers \in Nat
  BY <1>2, IntervalSize, FS_CardinalityType, MaxPeersAssumption
<1> QED BY <1>2, <1>4, <1>5

(* A step that changes neither the slots' addresses nor what was told.     *)
LEMMA SameDevices ==
    ASSUME SlotInv, AcceptsWhatItTold, Good' => Good, running' => running,
           UsedSlots' = UsedSlots, \A j \in Slot : slots'[j].mac = slots[j].mac,
           told' = told
    PROVE  AcceptsWhatItTold'
<1> SUFFICES ASSUME running', Good'
             PROVE  AcceptsWhatItTold'
  BY DEF AcceptsWhatItTold, Good
<1>1. OneSlotEach(Macs(told))
  BY AcceptsNow
<1>2. OneSlotEach(Macs(told))'
  BY <1>1 DEF OneSlotEach, UsedSlots, Macs
<1> QED BY <1>2, AcceptsThen

(* A start restores the devices the callers were told of.                  *)
LEMMA StartKeepsTold ==
    ASSUME ToldInv, Start
    PROVE  AcceptsWhatItTold' /\ FileInv' /\ PendingInv' /\ FewInv'
<1>1. /\ ~running /\ running' = TRUE /\ file' = IF file = Broken THEN <<>> ELSE file
      /\ slots' = Loaded(file') /\ UNCHANGED <<pending, told, intact, exact>>
  BY DEF Start, history
<1>2. pending = None /\ SlotInv
  BY <1>1 DEF ToldInv, SlotInv, EndedInv
<1>3. file' \in Seq(Entry) /\ file' # Broken
  <2>1. file' \in Seq(Entry)
    BY <1>1, <1>2 DEF SlotInv, TypeOK
  <2> QED BY <2>1, MarkAssumption
<1> DEFINE f == file'
<1>4. f \in Seq(Entry)
  BY <1>3
<1>5. Good => Stores(f, told)
  <2>1. CASE file = Broken
    <3>1. f = <<>> /\ DOMAIN f = {}
      BY <1>1, <2>1
    <3>2. Good => told = {}
      BY <1>2, <2>1 DEF ToldInv, FileInv
    <3> HIDE DEF f
    <3> QED BY <3>1, <3>2 DEF Stores, Texts, Holds, Macs
  <2>2. CASE file # Broken
    BY <1>1, <1>2, <2>2 DEF ToldInv, FileInv
  <2> QED BY <2>1, <2>2
<1>6. slots' = Loaded(f)
  BY <1>1
<1> HIDE DEF f
<1>7. Good => IsFiniteSet(Macs(told)) /\ Cardinality(Macs(told)) <= MaxPeers
  BY DEF ToldInv, FewInv
<1>8. Good => AcceptsWhatItTold'
  <2> SUFFICES ASSUME Good
               PROVE  AcceptsWhatItTold'
    OBVIOUS
  <2>1. Len(f) <= MaxPeers
    BY <1>4, <1>5, <1>7, EntriesFit DEF Stores
  <2> DEFINE n == LoadedSize(f)
  <2>2. /\ n = Len(f)
        /\ {i \in Slot : Loaded(f)[i].mac # NoDevice} = 1..n
        /\ \A i \in 1..n : i \in DOMAIN f /\ Loaded(f)[i].mac = f[i].mac
    BY <1>4, <2>1, LoadFacts
  <2>3. DOMAIN f = 1..Len(f)
    BY <1>4
  <2> HIDE DEF n
  <2>4. UsedSlots' = DOMAIN f
    BY <1>6, <2>2, <2>3 DEF UsedSlots, Used
  <2>5. \A i \in DOMAIN f : slots'[i].mac = f[i].mac
    BY <1>6, <2>2, <2>3
  <2>6. OneSlotEach(Macs(told))'
    <3> DEFINE D == Macs(told)
    <3>1. {f[i].mac : i \in DOMAIN f} = D
      BY <1>5 DEF Stores, Holds
    <3>2. \A i, j \in DOMAIN f : f[i].mac = f[j].mac => i = j
      BY <1>5 DEF Stores, Holds
    <3>3. Macs(told)' = D
      BY <1>1 DEF Macs
    <3> HIDE DEF D
    <3> QED BY <2>4, <2>5, <3>1, <3>2, <3>3 DEF OneSlotEach
  <2>7. Good'
    BY <1>1 DEF Good
  <2> QED BY <1>1, <2>6, <2>7, AcceptsThen
<1>9. ~Good => AcceptsWhatItTold'
  BY <1>1 DEF AcceptsWhatItTold, Good
<1>10. FileInv'
  BY <1>1, <1>3, <1>5 DEF FileInv, Good, f
<1>11. PendingInv' /\ FewInv'
  BY <1>1, <1>2, <1>7 DEF PendingInv, FewInv, Good
<1> QED BY <1>8, <1>9, <1>10, <1>11

(* A device is added to the slots, to the file and to what was told.       *)
LEMMA AddKeepsTold ==
    ASSUME ToldInv, NEW m \in Device, NEW sp \in Spelling, AddDevice(m, sp)
    PROVE  AcceptsWhatItTold' /\ FileInv' /\ PendingInv' /\ FewInv'
<1>1. SlotInv /\ AcceptsWhatItTold /\ FileInv
  BY DEF ToldInv
<1>2. /\ Serving /\ Rewrite(With(m, sp)) /\ told' = told \cup {Text(m, sp)}
      /\ UNCHANGED <<running, on_bus, exact>> /\ \A j \in UsedSlots : slots[j].mac # m
  BY <1>1, AddStep
<1>3. PICK i \in Slot : ~Used(i) /\ slots' = NewSlot(i, m)
  BY <1>1, AddStep
<1>4. file # Broken => With(m, sp) \in Seq(Entry)
  BY <1>1, WithFacts DEF SlotInv, TypeOK
<1>5. intact' => /\ intact /\ file # Broken /\ file' = Broken
                 /\ pending' = With(m, sp) /\ pending' # None
  BY <1>1, <1>2, <1>4, RewriteFacts
<1> SUFFICES ASSUME Good'
             PROVE  AcceptsWhatItTold' /\ FileInv' /\ PendingInv' /\ FewInv'
  BY DEF AcceptsWhatItTold, FileInv, PendingInv, FewInv, Good
<1>6. Good /\ intact'
  BY <1>2, <1>5 DEF Good
<1>7. Macs(told') = Macs(told) \cup {m}
  <2>1. Text(m, sp).mac = m
    BY DEF Text
  <2> QED BY <1>2, <2>1 DEF Macs
<1>8. OneSlotEach(Macs(told))
  BY <1>1, <1>2, <1>6, AcceptsNow DEF Serving
<1>9. m \notin Macs(told)
  BY <1>2, <1>8 DEF OneSlotEach
<1>10. Stores(file, told) /\ file \in Seq(Entry)
  BY <1>1, <1>2, <1>5, <1>6 DEF FileInv, Serving, SlotInv, TypeOK
<1>11. Stores(pending', told')
  <2>1. Texts(With(m, sp)) = told' /\ Holds(With(m, sp), Macs(told) \cup {m})
    BY <1>2, <1>9, <1>10, WithFacts DEF Stores
  <2> QED BY <1>5, <1>6, <1>7, <2>1 DEF Stores
<1>12. /\ slots' \in Slots /\ UsedSlots' = UsedSlots \cup {i} /\ i \notin UsedSlots
       /\ slots'[i].mac = m /\ \A j \in Slot \ {i} : slots'[j] = slots[j]
  BY <1>1, <1>3, NewSlotFacts
<1>13. UsedSlots \in SUBSET Slot
  BY <1>1, SlotFacts
<1>14. \A j \in UsedSlots : slots'[j].mac = slots[j].mac
  BY <1>12, <1>13
<1>15. OneSlotEach(Macs(told))'
  <2>1. \A j \in UsedSlots' : slots'[j].mac \in Macs(told')
    BY <1>7, <1>8, <1>12, <1>14 DEF OneSlotEach
  <2>2. ASSUME NEW d \in Macs(told')
        PROVE  \E j \in UsedSlots' : slots'[j].mac = d
    <3>1. CASE d = m
      BY <1>12, <3>1
    <3>2. CASE d \in Macs(told)
      <4>1. PICK j \in UsedSlots : slots[j].mac = d
        BY <1>8, <3>2 DEF OneSlotEach
      <4> QED BY <1>12, <1>14, <4>1
    <3> QED BY <1>7, <3>1, <3>2
  <2>3. \A k, j \in UsedSlots' : slots'[k].mac = slots'[j].mac => k = j
    <3>1. \A k, j \in UsedSlots : slots'[k].mac = slots'[j].mac => k = j
      BY <1>8, <1>14 DEF OneSlotEach
    <3>2. \A k \in UsedSlots : slots'[k].mac # slots'[i].mac
      BY <1>2, <1>12, <1>14
    <3> QED BY <1>12, <3>1, <3>2
  <2> QED BY <2>1, <2>2, <2>3 DEF OneSlotEach, Macs
<1>16. AcceptsWhatItTold'
  BY <1>2, <1>15, AcceptsThen DEF Serving
<1>17. FileInv' /\ PendingInv'
  BY <1>5, <1>6, <1>11 DEF FileInv, PendingInv
<1>18. FewInv'
  <2>1. UsedSlots' \in SUBSET Slot
    BY <1>12, <1>13
  <2>2. IsFiniteSet(Macs(told')) /\ Cardinality(Macs(told')) <= MaxPeers
    BY <1>12, <1>15, <2>1, FewDevices DEF OneSlotEach, Macs
  <2> QED BY <2>2 DEF FewInv, Macs
<1> QED BY <1>16, <1>17, <1>18

(* A device is removed from the slots, the file and what was told.         *)
LEMMA RemoveKeepsTold ==
    ASSUME ToldInv, NEW m \in Device, NEW sp \in Spelling, RemoveDevice(m, sp)
    PROVE  AcceptsWhatItTold' /\ FileInv' /\ PendingInv' /\ FewInv'
<1>1. SlotInv /\ AcceptsWhatItTold /\ FileInv
  BY DEF ToldInv
<1>2. /\ Serving /\ Rewrite(Without(m, sp)) /\ told' = {t \in told : t.mac # m}
      /\ exact' = (exact /\ Text(m, sp) \in told)
      /\ UNCHANGED <<running, on_bus>>
  BY <1>1, RemoveStep
<1>3. PICK i \in Slot :
         /\ i \in UsedSlots /\ slots[i].mac = m
         /\ slots' \in Slots /\ UsedSlots' = UsedSlots \ {i}
         /\ \A j \in Slot \ {i} : slots'[j] = slots[j]
  BY <1>1, RemoveStep
<1>4. file # Broken => Without(m, sp) \in Seq(Entry)
  BY <1>1, WithoutFacts DEF SlotInv, TypeOK
<1>5. intact' => /\ intact /\ file # Broken /\ file' = Broken
                 /\ pending' = Without(m, sp) /\ pending' # None
  BY <1>1, <1>2, <1>4, RewriteFacts
<1> SUFFICES ASSUME Good'
             PROVE  AcceptsWhatItTold' /\ FileInv' /\ PendingInv' /\ FewInv'
  BY DEF AcceptsWhatItTold, FileInv, PendingInv, FewInv, Good
<1>6. Good /\ intact' /\ Text(m, sp) \in told
  BY <1>2, <1>5 DEF Good
<1>7. Macs(told') = Macs(told) \ {m}
  BY <1>2 DEF Macs
<1>8. OneSlotEach(Macs(told))
  BY <1>1, <1>2, <1>6, AcceptsNow DEF Serving
<1>9. Stores(file, told) /\ file \in Seq(Entry)
  BY <1>1, <1>2, <1>5, <1>6 DEF FileInv, Serving, SlotInv, TypeOK
<1>10. Stores(pending', told')
  <2>1. Texts(pending') = told \ {Text(m, sp)} /\ Holds(pending', Macs(told'))
    BY <1>5, <1>6, <1>7, <1>9, WithoutFacts DEF Stores
  <2>2. \A t \in told : t.mac = m => t = Text(m, sp)
    <3>1. Text(m, sp).mac = m
      BY DEF Text
    <3> QED BY <1>6, <1>9, <3>1 DEF Stores, Texts, Holds
  <2>3. Text(m, sp).mac = m
    BY DEF Text
  <2>4. told' = told \ {Text(m, sp)}
    BY <1>2, <2>2, <2>3
  <2> QED BY <2>1, <2>4 DEF Stores, Macs
<1>11. UsedSlots \in SUBSET Slot
  BY <1>1, SlotFacts
<1>12. \A j \in UsedSlots' : j \in UsedSlots /\ j # i /\ slots'[j].mac = slots[j].mac
  BY <1>3, <1>11
<1>13. OneSlotEach(Macs(told))'
  <2>1. \A j \in UsedSlots' : slots'[j].mac \in Macs(told')
    <3>1. \A j \in UsedSlots' : slots[j].mac # m
      BY <1>3, <1>8, <1>12 DEF OneSlotEach
    <3> QED BY <1>7, <1>8, <1>12, <3>1 DEF OneSlotEach
  <2>2. \A d \in Macs(told') : \E j \in UsedSlots' : slots'[j].mac = d
    <3> SUFFICES ASSUME NEW d \in Macs(told')
                 PROVE  \E j \in UsedSlots' : slots'[j].mac = d
      OBVIOUS
    <3>1. PICK j \in UsedSlots : slots[j].mac = d
      BY <1>7, <1>8 DEF OneSlotEach
    <3>2. j \in UsedSlots'
      BY <1>7, <1>3, <3>1
    <3> QED BY <1>12, <3>1, <3>2
  <2>3. \A k, j \in UsedSlots' : slots'[k].mac = slots'[j].mac => k = j
    BY <1>8, <1>12 DEF OneSlotEach
  <2> QED BY <2>1, <2>2, <2>3 DEF OneSlotEach, Macs
<1>14. AcceptsWhatItTold'
  BY <1>2, <1>13, AcceptsThen DEF Serving
<1>15. FileInv' /\ PendingInv'
  BY <1>5, <1>6, <1>10 DEF FileInv, PendingInv
<1>16. FewInv'
  <2>1. UsedSlots' \in SUBSET Slot
    BY <1>3, <1>11
  <2>2. IsFiniteSet(Macs(told')) /\ Cardinality(Macs(told')) <= MaxPeers
    BY <1>3, <1>13, <2>1, FewDevices DEF OneSlotEach, Macs
  <2> QED BY <2>2 DEF FewInv, Macs
<1> QED BY <1>14, <1>15, <1>16

(* Every step keeps memory, file and callers together.                     *)
LEMMA NextKeepsTold ==
    ASSUME ToldInv, [Next]_vars
    PROVE  ToldInv'
<1>1. SlotInv /\ AcceptsWhatItTold /\ FileInv /\ PendingInv /\ FewInv
  BY DEF ToldInv
<1>2. SlotInv'
  BY <1>1, NextKeepsSlots
<1> SUFFICES AcceptsWhatItTold' /\ FileInv' /\ PendingInv' /\ FewInv'
  BY <1>2 DEF ToldInv
<1>3. CASE Start
  BY <1>3, StartKeepsTold
<1>4. CASE BusAcquired
  <2>1. UNCHANGED <<running, slots, file, pending, told, intact, exact>>
    BY <1>4 DEF BusAcquired, disk, history
  <2>2. UsedSlots' = UsedSlots
    BY <2>1 DEF UsedSlots, Used
  <2>3. AcceptsWhatItTold'
    BY <1>1, <2>1, <2>2, SameDevices DEF Good
  <2> QED BY <1>1, <2>1, <2>3 DEF FileInv, PendingInv, FewInv, Good
<1>5. CASE Stop
  <2>1. /\ running' = FALSE /\ pending' = None
        /\ intact' => intact /\ pending = None
        /\ UNCHANGED <<file, told, exact>>
    BY <1>5 DEF Stop
  <2> QED BY <1>1, <2>1 DEF AcceptsWhatItTold, FileInv, PendingInv, FewInv, Good
<1>6. CASE WriteDone
  <2>1. /\ UNCHANGED <<running, slots, told, intact, exact>>
        /\ pending # None /\ file' = pending /\ pending' = None
    BY <1>6 DEF WriteDone, memory, history
  <2>2. UsedSlots' = UsedSlots
    BY <2>1 DEF UsedSlots, Used
  <2>3. AcceptsWhatItTold'
    BY <1>1, <2>1, <2>2, SameDevices DEF Good
  <2>4. file' # Broken
    BY <1>1, <2>1, MarkAssumption DEF SlotInv, TypeOK
  <2> QED BY <1>1, <2>1, <2>3, <2>4 DEF FileInv, PendingInv, FewInv, Good
<1>7. CASE WriteFails
  <2>1. intact' = FALSE
    BY <1>7 DEF WriteFails
  <2> QED BY <2>1 DEF AcceptsWhatItTold, FileInv, PendingInv, FewInv, Good
<1>8. ASSUME NEW m \in Device, NEW sp \in Spelling, AddDevice(m, sp)
      PROVE  AcceptsWhatItTold' /\ FileInv' /\ PendingInv' /\ FewInv'
  BY <1>8, AddKeepsTold
<1>9. ASSUME NEW m \in Device, NEW sp \in Spelling, RemoveDevice(m, sp)
      PROVE  AcceptsWhatItTold' /\ FileInv' /\ PendingInv' /\ FewInv'
  BY <1>9, RemoveKeepsTold
<1>10. ASSUME NEW m \in Device, Connected(m)
       PROVE  AcceptsWhatItTold' /\ FileInv' /\ PendingInv' /\ FewInv'
  <2>1. /\ UNCHANGED <<running, file, pending, told, intact, exact>>
        /\ \A j \in Slot : slots'[j].mac = slots[j].mac
        /\ UsedSlots' = UsedSlots
    BY <1>1, <1>10, ConnectedStep
  <2>2. AcceptsWhatItTold'
    BY <1>1, <2>1, SameDevices DEF Good
  <2> QED BY <1>1, <2>1, <2>2 DEF FileInv, PendingInv, FewInv, Good
<1>11. ASSUME UNCHANGED vars
       PROVE  AcceptsWhatItTold' /\ FileInv' /\ PendingInv' /\ FewInv'
  <2>1. UNCHANGED <<running, slots, file, pending, told, intact, exact>>
    BY <1>11 DEF vars, memory, disk, history
  <2>2. UsedSlots' = UsedSlots
    BY <2>1 DEF UsedSlots, Used
  <2>3. AcceptsWhatItTold'
    BY <1>1, <2>1, <2>2, SameDevices DEF Good
  <2> QED BY <1>1, <2>1, <2>3 DEF FileInv, PendingInv, FewInv, Good
<1> QED BY <1>3, <1>4, <1>5, <1>6, <1>7, <1>8, <1>9, <1>10, <1>11 DEF Next, AddKnown

(* Before the first start nobody has been told anything.                   *)
LEMMA InitTold == Init => ToldInv
<1> SUFFICES ASSUME Init PROVE ToldInv
  OBVIOUS
<1>1. /\ running = FALSE /\ file \in {<<>>, Broken} /\ pending = None /\ told = {}
  BY DEF Init
<1>2. Stores(<<>>, {}) /\ Macs({}) = {}
  BY DEF Stores, Texts, Holds, Macs
<1>3. IsFiniteSet({}) /\ Cardinality({}) <= MaxPeers
  BY FS_EmptySet, MaxPeersAssumption
<1> QED BY <1>1, <1>2, <1>3, InitSlots
        DEF ToldInv, AcceptsWhatItTold, FileInv, PendingInv, FewInv

(* The invariant of memory, file and callers.                              *)
THEOREM ToldInvariance == Spec => []ToldInv
<1>1. ToldInv /\ [Next]_vars => ToldInv'
  BY NextKeepsTold
<1> QED BY <1>1, InitTold, PTL DEF Spec

(* While no write has failed or was cut off, and every device is removed   *)
(* by the text it was added with, the devices accepted are those the       *)
(* callers were told, over any number of calls and restarts                *)
(* (add_known_device, remove_known_device, parse_nodes).                   *)
THEOREM AlwaysAcceptsWhatItTold == Spec => []AcceptsWhatItTold
<1>1. ToldInv => AcceptsWhatItTold
  BY DEF ToldInv
<1> QED BY <1>1, ToldInvariance, PTL

(* ... and the file, between writes, holds the same texts (write_file).    *)
THEOREM AlwaysSavesWhatItTold == Spec => []SavesWhatItTold
<1>1. ToldInv => SavesWhatItTold
  BY DEF ToldInv, SavesWhatItTold, FileInv, Good, Stores, Texts, Saved
<1> QED BY <1>1, ToldInvariance, PTL

=============================================================================
