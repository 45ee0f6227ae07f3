----------------------------- MODULE StorageAvr -----------------------------
(***************************************************************************)
(* The EEPROM of a thing (src/hal/storage/storage_avr.cpp).                *)
(*                                                                         *)
(* Blocks of a fixed size (UUID, token, MAC, ...) lie at the end, each     *)
(* below the one before; below them two bytes hold the size of the         *)
(* configuration, which lies below these and ends there.  What is left     *)
(* below the configuration is for hal_storage_read and hal_storage_write.  *)
(*                                                                         *)
(* A call is a step that works out what to write where, and one step for   *)
(* each byte, since the power may fail in between; the byte being written  *)
(* may then hold anything.  The two bytes of the size are one step: sizes  *)
(* fit one byte, so between the two writes the size is as before or as     *)
(* after (an erased size stays beyond any valid one).                      *)
(***************************************************************************)
EXTENDS Integers, Sequences, FiniteSets, FiniteSetsExt

CONSTANTS
    EepromSize,         \* E2END + 1
    BlockSize,          \* sizes of the fixed blocks, from the end downwards
    ConfigMax,          \* CONFIG_SIZE_UNITY * KNOT_THING_DATA_MAX
    Byte,               \* contents of a cell; 0 and Erased among them
    MaxLength           \* longest block a caller passes (a bound)

Erased == 255
ErasedSize == 65535

Fixed == DOMAIN BlockSize
Config == 0             \* HAL_STORAGE_ID_CONFIG
General == -1           \* a write of hal_storage_write
Id == Fixed \cup {Config}

(* ADDR_UUID and so on.                                                    *)
Address[i \in 0..Len(BlockSize)] ==
    IF i = 0 THEN EepromSize ELSE Address[i - 1] - BlockSize[i]

OffsetConfig == Address[Len(BlockSize)] - 2

Cell == (0..(OffsetConfig - 1)) \cup ((OffsetConfig + 2)..(EepromSize - 1))
Size == 0..OffsetConfig \cup {ErasedSize}
Value(n) == UNION {[1..k -> Byte] : k \in 0..n}

ASSUME LayoutAssumption == ConfigMax \in Nat /\ ConfigMax <= OffsetConfig
ASSUME ByteAssumption == {0, Erased} \subseteq Byte
ASSUME EepromAssumption == EepromSize \in 0..ErasedSize
ASSUME BlocksAssumption ==
    /\ BlockSize \in Seq(Nat \ {0}) /\ MaxLength \in Nat
    /\ \A i \in Fixed : BlockSize[i] <= MaxLength

VARIABLES
    eeprom,             \* the cells
    config_size,        \* the two bytes at OffsetConfig
    queue,              \* writes of the call in progress: id, first cell, bytes
    left                \* cells the first of them has not written yet

storageVars == <<eeprom, config_size, queue, left>>

StorageInit ==
    /\ eeprom = [a \in Cell |-> Erased] /\ config_size = ErasedSize
    /\ queue = <<>> /\ left = {}

(* Definitions named Bad... are deliberate faults: each replaces the       *)
(* definition after it in a run that shows that a property can fail.       *)

---------------------------------------------------------------------------
(* Where the area of hal_storage_read and hal_storage_write ends.          *)
BadLimit == OffsetConfig

Limit == IF config_size > OffsetConfig THEN 0 ELSE OffsetConfig - config_size

Within(addr, len) == Max({0, Min({len, Limit - addr})})

StorageRead(addr, len) == [k \in 1..Within(addr, len) |-> eeprom[addr + k - 1]]

(* hal_storage_read_end; Fault stands for -EFAULT.                         *)
Fault == <<-1>>

ReadEnd(id, len) ==
    IF id = Config
    THEN IF config_size > OffsetConfig THEN Fault
         ELSE [k \in 1..Min({len, ConfigMax, config_size}) |->
                  eeprom[OffsetConfig - config_size + k - 1]]
    ELSE [k \in 1..Min({len, BlockSize[id]}) |-> eeprom[Address[id] + k - 1]]

---------------------------------------------------------------------------
(* Calls.                                                                  *)

Cells(w) ==
    (w.dst .. (w.dst + Len(w.value) - 1))
        \cup (IF w.id = Config THEN {OffsetConfig} ELSE {})

Begin(q) ==
    /\ queue = <<>>
    /\ queue' = q /\ left' = Cells(Head(q))
    /\ UNCHANGED <<eeprom, config_size>>

(* As many bytes as fit; none when the size of the configuration is not    *)
(* valid.                                                                  *)
StorageWrite(addr, value) ==
    LET n == Within(addr, Len(value))
    IN  n > 0 /\ Begin(<<[id |-> General, dst |-> addr, value |-> SubSeq(value, 1, n)]>>)

BadFits(id, len) == TRUE

Fits(id, len) == len <= IF id = Config THEN ConfigMax ELSE BlockSize[id]

BadBlockStart(id, len) == IF id = Config THEN OffsetConfig - ConfigMax ELSE Address[id]

BlockStart(id, len) == IF id = Config THEN OffsetConfig - len ELSE Address[id]

Block(id, value) == [id |-> id, dst |-> BlockStart(id, Len(value)), value |-> value]

(* An empty configuration still has its size written.                      *)
WriteEnd(id, value) ==
    /\ Fits(id, Len(value))
    /\ id = Config \/ value # <<>>
    /\ Begin(<<Block(id, value)>>)

(* Zeros for all blocks in turn, and at last the size of the configuration.*)
ResetEnd ==
    Begin([i \in 1..(Len(BlockSize) + 1) |->
              IF i \in Fixed THEN Block(i, [k \in 1..BlockSize[i] |-> 0])
                             ELSE Block(Config, <<>>)])

---------------------------------------------------------------------------
(* The EEPROM.                                                             *)

(* The cell to write next: hal_storage_write goes upwards; the size of the *)
(* configuration comes before its bytes; a block is written in any order.  *)
Current ==
    IF OffsetConfig \in left THEN {OffsetConfig}
    ELSE IF queue # <<>> /\ Head(queue).id = General THEN {Min(left)}
    ELSE left

WriteCell(a) ==
    LET w == Head(queue)
    IN  /\ a \in Current
        /\ IF a = OffsetConfig
           THEN config_size' = Len(w.value) /\ UNCHANGED eeprom
           ELSE /\ eeprom' = [eeprom EXCEPT ![a] = w.value[a - w.dst + 1]]
                /\ UNCHANGED config_size
        /\ IF left # {a} THEN left' = left \ {a} /\ UNCHANGED queue
           ELSE /\ queue' = Tail(queue)
                /\ left' = IF queue' = <<>> THEN {} ELSE Cells(Head(queue'))

PowerLoss ==
    /\ queue # <<>>
    /\ queue' = <<>> /\ left' = {}
    /\ \/ UNCHANGED <<eeprom, config_size>>
       \/ OffsetConfig \in Current /\ config_size' \in Size /\ UNCHANGED eeprom
       \/ /\ \E a \in Current \ {OffsetConfig}, v \in Byte : eeprom' = [eeprom EXCEPT ![a] = v]
          /\ UNCHANGED config_size

StorageNext ==
    \/ \E addr \in 0..OffsetConfig, value \in Value(MaxLength) : StorageWrite(addr, value)
    \/ \E id \in Id, value \in Value(MaxLength) : WriteEnd(id, value)
    \/ ResetEnd \/ PowerLoss
    \/ \E a \in left : WriteCell(a)

StorageSpec == StorageInit /\ [][StorageNext]_storageVars

---------------------------------------------------------------------------
(* Properties.                                                             *)

(* Among them: no call writes outside the EEPROM.                          *)
StorageTypeOK ==
    /\ eeprom \in [Cell -> Byte] /\ config_size \in Size
    /\ left \subseteq Cell \cup {OffsetConfig}
    /\ queue = <<>> <=> left = {}

(* What hal_storage_write has stored is there for hal_storage_read until   *)
(* hal_storage_write is called again or the configuration grows over it.   *)
GeneralKept ==
    [][queue # <<>> /\ Head(queue).id # General =>
          \A a \in 0..OffsetConfig :
             LET before == StorageRead(a, 1)
                 after == StorageRead(a, 1)'
             IN  before # <<>> /\ after # <<>> => after = before]_storageVars

(* What hal_storage_read_end returns of every block, and the blocks of the *)
(* call in progress.                                                       *)
Contents == [i \in Id |-> ReadEnd(i, EepromSize)]
Writing ==
    IF queue # <<>> /\ Head(queue).id = General THEN <<>>
    ELSE [k \in DOMAIN queue |-> [id |-> queue[k].id, value |-> queue[k].value]]

(* The layout implements blocks that are independent of each other and of  *)
(* hal_storage_write: what was written to a block is read back whatever    *)
(* else is written, and a power failure damages the block being written    *)
(* and no other.                                                           *)
Blocks == INSTANCE BlockStore WITH
    InitialContent <- [i \in Id |-> IF i = Config THEN Fault
                                    ELSE [k \in 1..BlockSize[i] |-> Erased]],
    content <- Contents, writing <- Writing

BlockSpec == Blocks!Spec

=============================================================================
