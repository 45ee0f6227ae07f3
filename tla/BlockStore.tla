----------------------------- MODULE BlockStore -----------------------------
(***************************************************************************)
(* What hal/storage.h promises of the blocks with an identifier: each has  *)
(* a content of its own, which only a write of that block changes.  A      *)
(* write that is not cut off leaves what was written; one that is cut off  *)
(* may leave anything, but in that block only.                             *)
(***************************************************************************)
EXTENDS Integers, Sequences

CONSTANTS
    Fixed,              \* identifiers of the blocks of a fixed size
    Config,             \* the block whose size is that of what was written
    Byte,
    MaxLength           \* of what is written

Id == Fixed \cup {Config}

VARIABLES
    content,            \* what every block holds
    writing             \* the blocks being written, one after the other

vars == <<content, writing>>

CONSTANT InitialContent

Init == content = InitialContent /\ writing = <<>>

Begin ==
    /\ writing = <<>> /\ writing' # <<>>
    /\ \A k \in DOMAIN writing' :
          /\ writing'[k].id \in Id /\ Len(writing'[k].value) <= MaxLength
          /\ \A j \in 1..(k - 1) : writing'[j].id # writing'[k].id
    /\ UNCHANGED content

Rest(s, n) == SubSeq(s, n + 1, Len(s))

(* The block being written is in any state, but past the end of what is    *)
(* written a block of a fixed size keeps what it had.                      *)
Unfinished ==
    LET w == Head(writing)
        n == Len(w.value)
    IN  /\ writing # <<>>
        /\ \A i \in Id \ {w.id} : content'[i] = content[i]
        /\ w.id \in Fixed => Rest(content'[w.id], n) = Rest(content[w.id], n)

Progress == Unfinished /\ UNCHANGED writing

CutOff == Unfinished /\ writing' = <<>>

Finish ==
    LET w == Head(writing)
    IN  /\ Unfinished
        /\ content'[w.id] = w.value \o (IF w.id = Config THEN <<>>
                                        ELSE Rest(content[w.id], Len(w.value)))
        /\ writing' = Tail(writing)

Next == Begin \/ Progress \/ CutOff \/ Finish

Spec == Init /\ [][Next]_vars

=============================================================================
