------------------------------ MODULE LossyLog ------------------------------
(***************************************************************************)
(* What the broadcast rings promise a reader: one writer appends records,  *)
(* and each reader moves forward through them at its own pace.  A reader   *)
(* is given records whole and in order; it may be made to skip some, but   *)
(* only records at least Capacity behind the writer, and every one it      *)
(* skips is counted.  Record(i) is the i-th record published, 0 first.     *)
(***************************************************************************)
EXTENDS Naturals, Sequences

CONSTANTS
    Readers,
    Capacity,
    Record(_)

VARIABLES
    published,   \* how many records the writer has published
    position,    \* per reader: the next record it will look at
    skipped,     \* per reader: how many records it was made to skip
    delivered    \* per reader: everything it was handed, oldest first

vars == <<published, position, skipped, delivered>>

Init ==
    /\ published = 0
    /\ position = [r \in Readers |-> 0]
    /\ skipped = [r \in Readers |-> 0]
    /\ delivered = [r \in Readers |-> <<>>]

Publish ==
    /\ published' = published + 1
    /\ UNCHANGED <<position, skipped, delivered>>

\* Reader r passes over skip lost records and is handed the next take ones.
Advance(r, skip, take) ==
    /\ position[r] + skip + take <= published
    /\ skip > 0 => position[r] + skip + Capacity <= published + 1
    /\ position' = [position EXCEPT ![r] = @ + skip + take]
    /\ skipped' = [skipped EXCEPT ![r] = @ + skip]
    /\ delivered' = [delivered EXCEPT ![r] =
                        @ \o [k \in 1..take |-> Record(position[r] + skip + k - 1)]]
    /\ UNCHANGED published

Next ==
    \/ Publish
    \/ \E r \in Readers : \E skip, take \in 0..published : Advance(r, skip, take)

Spec == Init /\ [][Next]_vars
=============================================================================
