--------------------------- MODULE MpmcRingProofs ---------------------------
(***************************************************************************)
(* The multi-producer multi-consumer ring hands every cell from the push   *)
(* that claims it to the pop of the same position and on to the push a lap *)
(* later, for any number of threads on both sides, any number of pushes    *)
(* and every capacity but one: in a ring of a single cell "published" and  *)
(* "free for the next lap" are the same number.                            *)
(***************************************************************************)
EXTENDS MpmcRing, RingLemmas

-----------------------------------------------------------------------------
(* The inductive invariant *)

Writes(t) == pc[t] \in {"copy", "publish"}
Reads(t) == pc[t] \in {"copy", "retire"}

TypeOK ==
    /\ enqueue_pos \in Nat /\ dequeue_pos \in Nat
    /\ sequence \in [Cells -> Nat] /\ data \in [Cells -> Int]
    /\ pc \in [Threads -> {"idle", "loop", "decide", "copy", "publish", "retire"}]
    /\ pos \in [Threads -> Nat] /\ seq \in [Threads -> Nat]
    /\ out \in [Consumers -> Int]
    /\ got \in [0..(MaxPushes - 1) -> Int]
    /\ \A p \in Producers : pc[p] # "retire"
    /\ \A c \in Consumers : pc[c] # "publish"

\* The C positions before enqueue_pos lie in different cells, one in each.
\* The sequence word of position i says how far its cell has come: i while it
\* is written, i + 1 when it may be read, i + Capacity when it is free again.
CellState ==
    \A i \in (enqueue_pos - Capacity)..(enqueue_pos - 1) :
        IF i < dequeue_pos
        THEN sequence[CellOf(i)] \in {i + 1, i + Capacity}
        ELSE sequence[CellOf(i)] \in {i, i + 1} /\ (sequence[CellOf(i)] = i + 1 => data[CellOf(i)] = i)

\* A producer in its cell.
Writing ==
    \A p \in Producers :
        Writes(p) => /\ dequeue_pos <= pos[p] /\ pos[p] < enqueue_pos
                     /\ sequence[CellOf(pos[p])] = pos[p]
                     /\ pc[p] = "publish" => data[CellOf(pos[p])] = pos[p]

\* A consumer in its cell.
Reading ==
    \A c \in Consumers :
        Reads(c) => /\ enqueue_pos - Capacity <= pos[c] /\ pos[c] < dequeue_pos
                    /\ sequence[CellOf(pos[c])] = pos[c] + 1
                    /\ data[CellOf(pos[c])] = pos[c]
                    /\ pc[c] = "retire" => out[c] = pos[c]

\* Claims are unique.
Claims == \A s, t \in Threads : s # t /\ InCell(s) /\ InCell(t) => pos[s] # pos[t]

\* What a thread read of a sequence word may be old, but the words only grow.
Stale == \A t \in Threads : pc[t] = "decide" => seq[t] <= sequence[CellOf(pos[t])]

IInv ==
    /\ TypeOK /\ NeverOverfull /\ CellState /\ Writing /\ Reading /\ Claims /\ Stale
    /\ FaithfulHandOver
-----------------------------------------------------------------------------
(* Cells *)

USE CapacityAssumption, SidesAssumption

(* A position names one of the cells. *)
LEMMA CellInRange ==
    ASSUME NEW i \in Int
    PROVE  CellOf(i) \in Cells
  BY ModRange DEF CellOf, Cells

(* Positions less than one capacity apart are in different cells. *)
LEMMA CellsApart ==
    ASSUME NEW i \in Int, NEW j \in Int, i # j, j < i + Capacity, i < j + Capacity
    PROVE  CellOf(i) # CellOf(j)
<1>1. CASE i < j
  BY <1>1, SlotsDistinct DEF CellOf
<1>2. CASE j < i
  BY <1>2, SlotsDistinct DEF CellOf
<1> QED
  BY <1>1, <1>2

(* The push one lap later gets the same cell. *)
LEMMA CellRecycled ==
    ASSUME NEW i \in Int
    PROVE  CellOf(i + Capacity) = CellOf(i)
  BY SlotRecycled DEF CellOf

(* A thread that is outside every cell before and after its step, changes  *)
(* nothing but its own pc, position and last read, and does not claim to   *)
(* have read more than is there, keeps the invariant.                      *)
LEMMA OutsideStep ==
    ASSUME IInv, NEW t \in Threads, ~InCell(t), pc'[t] \in {"idle", "loop", "decide"},
           UNCHANGED <<cursors, cells, out, got>>,
           pc' \in [Threads -> {"idle", "loop", "decide", "copy", "publish", "retire"}],
           pos' \in [Threads -> Nat], seq' \in [Threads -> Nat],
           \A s \in Threads \ {t} : pc'[s] = pc[s] /\ pos'[s] = pos[s] /\ seq'[s] = seq[s],
           pc'[t] = "decide" => seq'[t] <= sequence[CellOf(pos'[t])]
    PROVE  IInv'
<1> USE DEF IInv, cursors, cells
<1>1. TypeOK'
  <2>1. \A p \in Producers : pc'[p] # "retire"
    BY DEF TypeOK, Threads
  <2>2. \A c \in Consumers : pc'[c] # "publish"
    BY DEF TypeOK, Threads
  <2> QED
    BY <2>1, <2>2 DEF TypeOK
<1>2. NeverOverfull' /\ CellState' /\ FaithfulHandOver'
  BY DEF NeverOverfull, CellState, FaithfulHandOver
<1>3. Writing'
  BY DEF Writing, Writes, Threads
<1>4. Reading'
  BY DEF Reading, Reads, Threads
<1>5. Claims'
  BY DEF Claims, InCell
<1>6. Stale'
  BY DEF Stale
<1> QED
  BY <1>1, <1>2, <1>3, <1>4, <1>5, <1>6

(* A producer whose read of the sequence word and whose exchange agree has *)
(* a cell that is free now, however long ago it read the word.             *)
LEMMA PushClaimsFree ==
    ASSUME IInv, Capacity > 1, NEW p \in Producers, pc[p] = "decide", seq[p] = pos[p], pos[p] = enqueue_pos
    PROVE  sequence[CellOf(enqueue_pos)] = enqueue_pos /\ enqueue_pos - Capacity < dequeue_pos
<1> DEFINE i == enqueue_pos - Capacity
<1>1. enqueue_pos \in Nat /\ dequeue_pos \in Nat /\ i \in Int /\ i + Capacity = enqueue_pos
  BY DEF IInv, TypeOK
<1>2. CellOf(enqueue_pos) = CellOf(i)
  BY <1>1, CellRecycled
<1>3. enqueue_pos <= sequence[CellOf(enqueue_pos)]
  BY DEF IInv, Stale, Threads
<1>4. sequence[CellOf(enqueue_pos)] \in Nat
  BY <1>1, CellInRange DEF IInv, TypeOK
<1>5. IF i < dequeue_pos THEN sequence[CellOf(i)] \in {i + 1, i + Capacity} ELSE sequence[CellOf(i)] \in {i, i + 1}
  <2>1. i \in (enqueue_pos - Capacity)..(enqueue_pos - 1)
    BY <1>1
  <2> QED
    BY <2>1 DEF IInv, CellState
<1> HIDE DEF i
<1> QED
  BY <1>1, <1>2, <1>3, <1>4, <1>5

(* A consumer whose read and whose exchange agree has a published record. *)
LEMMA PopClaimsPublished ==
    ASSUME IInv, NEW c \in Consumers, pc[c] = "decide", seq[c] = pos[c] + 1, pos[c] = dequeue_pos
    PROVE  /\ dequeue_pos < enqueue_pos
           /\ sequence[CellOf(dequeue_pos)] = dequeue_pos + 1 /\ data[CellOf(dequeue_pos)] = dequeue_pos
<1>1. enqueue_pos \in Nat /\ dequeue_pos \in Nat /\ dequeue_pos <= enqueue_pos /\ enqueue_pos - dequeue_pos <= Capacity
  BY DEF IInv, TypeOK, NeverOverfull
<1>2. dequeue_pos + 1 <= sequence[CellOf(dequeue_pos)]
  BY DEF IInv, Stale, Threads
<1>3. sequence[CellOf(dequeue_pos)] \in Nat
  BY <1>1, CellInRange DEF IInv, TypeOK
<1>4. CASE dequeue_pos < enqueue_pos
  <2>1. dequeue_pos \in (enqueue_pos - Capacity)..(enqueue_pos - 1) /\ ~(dequeue_pos < dequeue_pos)
    BY <1>1, <1>4
  <2>2. /\ sequence[CellOf(dequeue_pos)] \in {dequeue_pos, dequeue_pos + 1}
        /\ sequence[CellOf(dequeue_pos)] = dequeue_pos + 1 => data[CellOf(dequeue_pos)] = dequeue_pos
    BY <2>1 DEF IInv, CellState
  <2> QED
    BY <1>1, <1>2, <1>3, <1>4, <2>2
<1>5. CASE dequeue_pos = enqueue_pos
  <2> DEFINE i == enqueue_pos - Capacity
  <2>1. i \in Int /\ i + Capacity = dequeue_pos /\ i < dequeue_pos
    BY <1>1, <1>5
  <2>2. CellOf(dequeue_pos) = CellOf(i)
    BY <2>1, CellRecycled
  <2>3. i \in (enqueue_pos - Capacity)..(enqueue_pos - 1)
    BY <1>1
  <2>4. sequence[CellOf(i)] \in {i + 1, i + Capacity}
    BY <2>1, <2>3 DEF IInv, CellState
  <2> HIDE DEF i
  <2> QED
    BY <1>1, <1>2, <1>3, <2>1, <2>2, <2>4
<1> QED
  BY <1>1, <1>4, <1>5

(* A thread in its cell works on one of the last Capacity claims. *)
LEMMA InWindow ==
    ASSUME IInv, NEW t \in Threads, InCell(t)
    PROVE  /\ pos[t] \in (enqueue_pos - Capacity)..(enqueue_pos - 1)
           /\ pos[t] \in Nat /\ CellOf(pos[t]) \in Cells
<1>1. TypeOK /\ NeverOverfull /\ pos[t] \in Nat
  BY DEF IInv, TypeOK
<1>2. CASE t \in Producers
  <2>1. dequeue_pos <= pos[t] /\ pos[t] < enqueue_pos
    BY <1>1, <1>2 DEF IInv, Writing, Writes, InCell, TypeOK
  <2>2. pos[t] \in (enqueue_pos - Capacity)..(enqueue_pos - 1)
    BY <1>1, <2>1 DEF TypeOK, NeverOverfull
  <2> QED
    BY <1>1, <2>2, CellInRange
<1>3. CASE t \in Consumers
  <2>1. enqueue_pos - Capacity <= pos[t] /\ pos[t] < dequeue_pos
    BY <1>1, <1>3 DEF IInv, Reading, Reads, InCell, TypeOK
  <2>2. pos[t] \in (enqueue_pos - Capacity)..(enqueue_pos - 1)
    BY <1>1, <2>1 DEF TypeOK, NeverOverfull
  <2> QED
    BY <1>1, <2>2, CellInRange
<1> QED
  BY <1>2, <1>3 DEF Threads

(* Within the window, different positions are in different cells. *)
LEMMA WindowApart ==
    ASSUME TypeOK, NEW i \in (enqueue_pos - Capacity)..(enqueue_pos - 1),
           NEW j \in (enqueue_pos - Capacity)..(enqueue_pos - 1), i # j
    PROVE  CellOf(i) # CellOf(j)
<1>1. i \in Int /\ j \in Int /\ j < i + Capacity /\ i < j + Capacity
  BY DEF TypeOK
<1> QED
  BY <1>1, CellsApart

(* The invariant implies the property. *)
LEMMA InvExclusive == IInv => ExclusiveCell
<1> SUFFICES ASSUME IInv, NEW s \in Threads, NEW t \in Threads, s # t, InCell(s), InCell(t)
             PROVE  CellOf(pos[s]) # CellOf(pos[t])
  BY DEF ExclusiveCell
<1>1. pos[s] # pos[t] /\ TypeOK
  BY DEF IInv, Claims
<1> QED
  BY <1>1, InWindow, WindowApart

-----------------------------------------------------------------------------
(* The initial state and the steps *)

(* The empty ring. *)
LEMMA InitInv == Init => IInv
<1> SUFFICES ASSUME Init PROVE IInv
  OBVIOUS
<1>1. TypeOK
  BY DEF Init, TypeOK, Cells, None, Threads
<1>2. NeverOverfull /\ FaithfulHandOver
  BY DEF Init, NeverOverfull, FaithfulHandOver, None
<1>3. CellState
  <2> SUFFICES ASSUME NEW i \in (enqueue_pos - Capacity)..(enqueue_pos - 1)
               PROVE  i < dequeue_pos /\ sequence[CellOf(i)] = i + Capacity
    BY DEF CellState
  <2>1. i + Capacity \in Cells /\ i \in Int /\ i < dequeue_pos
    BY DEF Cells, Init
  <2>2. CellOf(i) = i + Capacity
    <3>1. (i + Capacity) % Capacity = i + Capacity
      BY <2>1 DEF Cells
    <3> QED
      BY <3>1, <2>1, CellRecycled DEF CellOf
  <2> QED
    BY <2>1, <2>2 DEF Init
<1>4. Writing /\ Reading /\ Claims /\ Stale
  BY DEF Init, Writing, Reading, Claims, Stale, Writes, Reads, InCell, Threads
<1> QED
  BY <1>1, <1>2, <1>3, <1>4 DEF IInv

(* The exchange gives the producer the position at enqueue_pos. *)
LEMMA PushClaimStep ==
    ASSUME IInv, Capacity > 1, NEW p \in Producers, PushClaim(p), Exchanges(p, enqueue_pos)
    PROVE  IInv'
<1>1. /\ pc[p] = "decide" /\ seq[p] = pos[p] /\ pos[p] = enqueue_pos
      /\ enqueue_pos' = enqueue_pos + 1 /\ pc' = [pc EXCEPT ![p] = "copy"]
      /\ UNCHANGED <<dequeue_pos, sequence, data, pos, seq, out, got>>
  BY DEF IInv, TypeOK, PushClaim, PushDiff, Exchanges, Goto, cells, Threads
<1>2. sequence[CellOf(enqueue_pos)] = enqueue_pos /\ enqueue_pos - Capacity < dequeue_pos
  BY <1>1, PushClaimsFree
<1>3. TypeOK /\ p \in Threads
  BY DEF IInv, Threads
<1>4. TypeOK'
  BY <1>1, <1>3 DEF TypeOK
<1>5. enqueue_pos \in Nat /\ dequeue_pos \in Nat /\ dequeue_pos <= enqueue_pos
  BY DEF IInv, TypeOK, NeverOverfull
<1>6. NeverOverfull'
  BY <1>1, <1>2, <1>5 DEF NeverOverfull
<1>7. CellState'
  <2> SUFFICES ASSUME NEW i \in (enqueue_pos + 1 - Capacity)..enqueue_pos
               PROVE  IF i < dequeue_pos
                      THEN sequence[CellOf(i)] \in {i + 1, i + Capacity}
                      ELSE sequence[CellOf(i)] \in {i, i + 1} /\ (sequence[CellOf(i)] = i + 1 => data[CellOf(i)] = i)
    BY <1>1, <1>5 DEF CellState
  <2>1. CASE i = enqueue_pos
    BY <1>2, <1>5, <2>1
  <2>2. CASE i # enqueue_pos
    <3>1. i \in (enqueue_pos - Capacity)..(enqueue_pos - 1)
      BY <1>5, <2>2
    <3> QED
      BY <3>1 DEF IInv, CellState
  <2> QED
    BY <2>1, <2>2
<1>8. Writing'
  <2> SUFFICES ASSUME NEW q \in Producers, Writes(q)'
               PROVE  /\ dequeue_pos <= pos[q] /\ pos[q] < enqueue_pos + 1
                      /\ sequence[CellOf(pos[q])] = pos[q]
                      /\ pc'[q] = "publish" => data[CellOf(pos[q])] = pos[q]
    BY <1>1 DEF Writing, CellOf
  <2>1. CASE q = p
    BY <1>1, <1>2, <1>3, <1>5, <2>1 DEF TypeOK
  <2>2. CASE q # p
    <3>1. pc'[q] = pc[q] /\ Writes(q) /\ pos[q] \in Nat
      BY <1>1, <1>3, <2>2 DEF Writes, TypeOK, Threads
    <3>2. /\ dequeue_pos <= pos[q] /\ pos[q] < enqueue_pos
          /\ sequence[CellOf(pos[q])] = pos[q]
          /\ pc[q] = "publish" => data[CellOf(pos[q])] = pos[q]
      BY <3>1 DEF IInv, Writing
    <3> QED
      BY <1>5, <3>1, <3>2
  <2> QED
    BY <2>1, <2>2
<1>9. Reading'
  <2> SUFFICES ASSUME NEW c \in Consumers, Reads(c)'
               PROVE  /\ enqueue_pos' - Capacity <= pos[c] /\ pos[c] < dequeue_pos
                      /\ sequence[CellOf(pos[c])] = pos[c] + 1
                      /\ data[CellOf(pos[c])] = pos[c]
                      /\ pc'[c] = "retire" => out[c] = pos[c]
    BY <1>1 DEF Reading
  <2>1. pc'[c] = pc[c] /\ Reads(c) /\ pos[c] \in Nat
    BY <1>1, <1>3 DEF Reads, TypeOK, Threads
  <2>2. /\ enqueue_pos - Capacity <= pos[c] /\ pos[c] < dequeue_pos
        /\ sequence[CellOf(pos[c])] = pos[c] + 1
        /\ data[CellOf(pos[c])] = pos[c]
        /\ pc[c] = "retire" => out[c] = pos[c]
    BY <2>1 DEF IInv, Reading
  <2>3. pos[c] # enqueue_pos - Capacity
    <3> SUFFICES ASSUME pos[c] = enqueue_pos - Capacity PROVE FALSE
      OBVIOUS
    <3>1. pos[c] + Capacity = enqueue_pos
      BY <1>5
    <3>2. CellOf(enqueue_pos) = CellOf(pos[c])
      BY <2>1, <3>1, CellRecycled
    <3> QED
      BY <1>2, <1>5, <2>1, <2>2, <3>1, <3>2
  <2> QED
    BY <1>1, <1>5, <2>1, <2>2, <2>3
<1>10. Claims'
  <2> SUFFICES ASSUME NEW s \in Threads, NEW t \in Threads, s # t, InCell(s)', InCell(t)'
               PROVE  pos[s] # pos[t]
    BY <1>1 DEF Claims
  <2>1. \A u \in Threads \ {p} : InCell(u)' => InCell(u)
    BY <1>1, <1>3 DEF InCell, TypeOK
  <2>2. \A u \in Threads : InCell(u) => pos[u] < enqueue_pos
    <3> SUFFICES ASSUME NEW u \in Threads, InCell(u) PROVE pos[u] < enqueue_pos
      OBVIOUS
    <3>1. CASE u \in Producers
      BY <3>1, <1>3 DEF IInv, Writing, Writes, InCell, TypeOK
    <3>2. CASE u \in Consumers
      <4>1. pos[u] < dequeue_pos /\ pos[u] \in Nat
        BY <3>2, <1>3 DEF IInv, Reading, Reads, InCell, TypeOK
      <4> QED
        BY <4>1, <1>5
    <3> QED
      BY <3>1, <3>2 DEF Threads
  <2>3. CASE s # p /\ t # p
    BY <2>1, <2>3 DEF IInv, Claims
  <2>4. CASE s = p
    BY <1>1, <1>5, <2>1, <2>2, <2>4
  <2>5. CASE t = p
    BY <1>1, <1>5, <2>1, <2>2, <2>5
  <2> QED
    BY <2>3, <2>4, <2>5
<1>11. Stale'
  BY <1>1, <1>3 DEF IInv, Stale, TypeOK, CellOf
<1>12. FaithfulHandOver'
  BY <1>1 DEF IInv, FaithfulHandOver
<1> QED
  BY <1>4, <1>6, <1>7, <1>8, <1>9, <1>10, <1>11, <1>12 DEF IInv

(* The exchange gives the consumer the position at dequeue_pos. *)
LEMMA PopClaimStep ==
    ASSUME IInv, NEW c \in Consumers, PopClaim(c), Exchanges(c, dequeue_pos)
    PROVE  IInv'
<1>1. /\ pc[c] = "decide" /\ seq[c] = pos[c] + 1 /\ pos[c] = dequeue_pos
      /\ dequeue_pos' = dequeue_pos + 1 /\ pc' = [pc EXCEPT ![c] = "copy"]
      /\ UNCHANGED <<enqueue_pos, sequence, data, pos, seq, out, got>>
  BY DEF IInv, TypeOK, PopClaim, PopDiff, Exchanges, Goto, cells, Threads
<1>2. /\ dequeue_pos < enqueue_pos
      /\ sequence[CellOf(dequeue_pos)] = dequeue_pos + 1 /\ data[CellOf(dequeue_pos)] = dequeue_pos
  BY <1>1, PopClaimsPublished
<1>3. TypeOK /\ c \in Threads /\ c \notin Producers
  BY DEF IInv, Threads
<1>4. TypeOK'
  BY <1>1, <1>3 DEF TypeOK
<1>5. enqueue_pos \in Nat /\ dequeue_pos \in Nat /\ enqueue_pos - dequeue_pos <= Capacity
  BY DEF IInv, TypeOK, NeverOverfull
<1>6. NeverOverfull'
  BY <1>1, <1>2, <1>5 DEF NeverOverfull
<1>7. CellState'
  <2> SUFFICES ASSUME NEW i \in (enqueue_pos - Capacity)..(enqueue_pos - 1)
               PROVE  IF i < dequeue_pos'
                      THEN sequence[CellOf(i)] \in {i + 1, i + Capacity}
                      ELSE sequence[CellOf(i)] \in {i, i + 1} /\ (sequence[CellOf(i)] = i + 1 => data[CellOf(i)] = i)
    BY <1>1 DEF CellState
  <2>1. CASE i = dequeue_pos
    BY <1>1, <1>2, <1>5, <2>1
  <2>2. CASE i # dequeue_pos
    <3>1. i < dequeue_pos' <=> i < dequeue_pos
      BY <1>1, <1>5, <2>2
    <3> QED
      BY <3>1 DEF IInv, CellState
  <2> QED
    BY <2>1, <2>2
<1>8. Writing'
  <2> SUFFICES ASSUME NEW q \in Producers, Writes(q)'
               PROVE  /\ dequeue_pos' <= pos[q] /\ pos[q] < enqueue_pos
                      /\ sequence[CellOf(pos[q])] = pos[q]
                      /\ pc'[q] = "publish" => data[CellOf(pos[q])] = pos[q]
    BY <1>1 DEF Writing
  <2>1. pc'[q] = pc[q] /\ Writes(q) /\ pos[q] \in Nat
    BY <1>1, <1>3 DEF Writes, TypeOK, Threads
  <2>2. /\ dequeue_pos <= pos[q] /\ pos[q] < enqueue_pos
        /\ sequence[CellOf(pos[q])] = pos[q]
        /\ pc[q] = "publish" => data[CellOf(pos[q])] = pos[q]
    BY <2>1 DEF IInv, Writing
  <2>3. pos[q] # dequeue_pos
    BY <1>2, <1>5, <2>2
  <2> QED
    BY <1>1, <1>5, <2>1, <2>2, <2>3
<1>9. Reading'
  <2> SUFFICES ASSUME NEW d \in Consumers, Reads(d)'
               PROVE  /\ enqueue_pos - Capacity <= pos[d] /\ pos[d] < dequeue_pos'
                      /\ sequence[CellOf(pos[d])] = pos[d] + 1
                      /\ data[CellOf(pos[d])] = pos[d]
                      /\ pc'[d] = "retire" => out[d] = pos[d]
    BY <1>1 DEF Reading
  <2>1. CASE d = c
    BY <1>1, <1>2, <1>3, <1>5, <2>1 DEF TypeOK
  <2>2. CASE d # c
    <3>1. pc'[d] = pc[d] /\ Reads(d) /\ pos[d] \in Nat
      BY <1>1, <1>3, <2>2 DEF Reads, TypeOK, Threads
    <3>2. /\ enqueue_pos - Capacity <= pos[d] /\ pos[d] < dequeue_pos
          /\ sequence[CellOf(pos[d])] = pos[d] + 1
          /\ data[CellOf(pos[d])] = pos[d]
          /\ pc[d] = "retire" => out[d] = pos[d]
      BY <3>1 DEF IInv, Reading
    <3> QED
      BY <1>1, <1>5, <3>1, <3>2
  <2> QED
    BY <2>1, <2>2
<1>10. Claims'
  <2> SUFFICES ASSUME NEW s \in Threads, NEW t \in Threads, s # t, InCell(s)', InCell(t)'
               PROVE  pos[s] # pos[t]
    BY <1>1 DEF Claims
  <2>1. \A u \in Threads \ {c} : InCell(u)' => InCell(u)
    BY <1>1, <1>3 DEF InCell, TypeOK
  <2>2. \A u \in Threads : InCell(u) => pos[u] # dequeue_pos
    <3> SUFFICES ASSUME NEW u \in Threads, InCell(u) PROVE pos[u] # dequeue_pos
      OBVIOUS
    <3>1. CASE u \in Producers
      <4>1. sequence[CellOf(pos[u])] = pos[u]
        BY <3>1, <1>3 DEF IInv, Writing, Writes, InCell, TypeOK
      <4> QED
        BY <4>1, <1>2, <1>5
    <3>2. CASE u \in Consumers
      <4>1. pos[u] < dequeue_pos /\ pos[u] \in Nat
        BY <3>2, <1>3 DEF IInv, Reading, Reads, InCell, TypeOK
      <4> QED
        BY <4>1, <1>5
    <3> QED
      BY <3>1, <3>2 DEF Threads
  <2>3. CASE s # c /\ t # c
    BY <2>1, <2>3 DEF IInv, Claims
  <2>4. CASE s = c
    BY <1>1, <2>1, <2>2, <2>4
  <2>5. CASE t = c
    BY <1>1, <2>1, <2>2, <2>5
  <2> QED
    BY <2>3, <2>4, <2>5
<1>11. Stale'
  BY <1>1, <1>3 DEF IInv, Stale, TypeOK, CellOf
<1>12. FaithfulHandOver'
  BY <1>1 DEF IInv, FaithfulHandOver
<1> QED
  BY <1>4, <1>6, <1>7, <1>8, <1>9, <1>10, <1>11, <1>12 DEF IInv

(* The producer fills its cell, which nobody else has or may read. *)
LEMMA PushCopyStep ==
    ASSUME IInv, NEW p \in Producers, PushCopy(p)
    PROVE  IInv'
<1> DEFINE k == CellOf(pos[p])
<1>1. /\ pc[p] = "copy" /\ InCell(p) /\ Writes(p)
      /\ data' = [data EXCEPT ![k] = pos[p]] /\ pc' = [pc EXCEPT ![p] = "publish"]
      /\ UNCHANGED <<enqueue_pos, dequeue_pos, sequence, pos, seq, out, got>>
  BY DEF PushCopy, Goto, cursors, InCell, Writes
<1>2. TypeOK /\ p \in Threads /\ p \notin Consumers
  BY DEF IInv, Threads
<1>3. /\ pos[p] \in (enqueue_pos - Capacity)..(enqueue_pos - 1)
      /\ pos[p] \in Nat /\ k \in Cells
  BY <1>1, <1>2, InWindow
<1>4. sequence[k] = pos[p] /\ dequeue_pos <= pos[p] /\ pos[p] < enqueue_pos
  BY <1>1 DEF IInv, Writing
<1>5. data'[k] = pos[p] /\ \A j \in Cells : j # k => data'[j] = data[j]
  BY <1>1, <1>2, <1>3 DEF TypeOK
<1>6. TypeOK'
  <2>1. data' \in [Cells -> Int]
    BY <1>1, <1>2, <1>3 DEF TypeOK
  <2> QED
    BY <1>1, <1>2, <2>1 DEF TypeOK
<1>7. NeverOverfull' /\ FaithfulHandOver'
  BY <1>1 DEF IInv, NeverOverfull, FaithfulHandOver
<1>8. CellState'
  <2> SUFFICES ASSUME NEW i \in (enqueue_pos - Capacity)..(enqueue_pos - 1)
               PROVE  IF i < dequeue_pos
                      THEN sequence[CellOf(i)] \in {i + 1, i + Capacity}
                      ELSE sequence[CellOf(i)] \in {i, i + 1} /\ (sequence[CellOf(i)] = i + 1 => data'[CellOf(i)] = i)
    BY <1>1 DEF CellState
  <2>1. CASE i = pos[p]
    BY <1>2, <1>4, <1>5, <2>1 DEF TypeOK
  <2>2. CASE i # pos[p]
    <3>1. CellOf(i) # k
      BY <1>2, <1>3, <2>2, WindowApart
    <3>2. CellOf(i) \in Cells
      <4>1. i \in Int
        BY <1>2 DEF TypeOK
      <4> QED
        BY <4>1, CellInRange
    <3>3. data'[CellOf(i)] = data[CellOf(i)]
      BY <1>5, <3>1, <3>2
    <3> QED
      BY <3>3 DEF IInv, CellState
  <2> QED
    BY <2>1, <2>2
<1>9. \A t \in Threads \ {p} : InCell(t) => CellOf(pos[t]) # k /\ data'[CellOf(pos[t])] = data[CellOf(pos[t])]
  <2> SUFFICES ASSUME NEW t \in Threads \ {p}, InCell(t)
               PROVE  CellOf(pos[t]) # k /\ data'[CellOf(pos[t])] = data[CellOf(pos[t])]
    OBVIOUS
  <2>1. CellOf(pos[t]) # k
    BY <1>1, <1>2, InvExclusive DEF ExclusiveCell
  <2> QED
    BY <2>1, <1>5, InWindow
<1>10. Writing'
  <2> SUFFICES ASSUME NEW q \in Producers, Writes(q)'
               PROVE  /\ dequeue_pos <= pos[q] /\ pos[q] < enqueue_pos
                      /\ sequence[CellOf(pos[q])] = pos[q]
                      /\ pc'[q] = "publish" => data'[CellOf(pos[q])] = pos[q]
    BY <1>1 DEF Writing
  <2>1. CASE q = p
    BY <1>4, <1>5, <2>1
  <2>2. CASE q # p
    <3>1. pc'[q] = pc[q] /\ Writes(q) /\ InCell(q) /\ q \in Threads
      BY <1>1, <1>2, <2>2 DEF Writes, InCell, TypeOK, Threads
    <3>2. /\ dequeue_pos <= pos[q] /\ pos[q] < enqueue_pos
          /\ sequence[CellOf(pos[q])] = pos[q]
          /\ pc[q] = "publish" => data[CellOf(pos[q])] = pos[q]
      BY <3>1 DEF IInv, Writing
    <3>3. data'[CellOf(pos[q])] = data[CellOf(pos[q])]
      BY <1>9, <2>2, <3>1
    <3> QED
      BY <3>1, <3>2, <3>3
  <2> QED
    BY <2>1, <2>2
<1>11. Reading'
  <2> SUFFICES ASSUME NEW d \in Consumers, Reads(d)'
               PROVE  /\ enqueue_pos - Capacity <= pos[d] /\ pos[d] < dequeue_pos
                      /\ sequence[CellOf(pos[d])] = pos[d] + 1
                      /\ data'[CellOf(pos[d])] = pos[d]
                      /\ pc'[d] = "retire" => out[d] = pos[d]
    BY <1>1 DEF Reading
  <2>1. pc'[d] = pc[d] /\ Reads(d) /\ InCell(d) /\ d \in Threads \ {p}
    BY <1>1, <1>2 DEF Reads, InCell, TypeOK, Threads
  <2>2. /\ enqueue_pos - Capacity <= pos[d] /\ pos[d] < dequeue_pos
        /\ sequence[CellOf(pos[d])] = pos[d] + 1
        /\ data[CellOf(pos[d])] = pos[d]
        /\ pc[d] = "retire" => out[d] = pos[d]
    BY <2>1 DEF IInv, Reading
  <2>3. data'[CellOf(pos[d])] = data[CellOf(pos[d])]
    BY <1>9, <2>1
  <2> QED
    BY <2>1, <2>2, <2>3
<1>12. Claims'
  BY <1>1, <1>2 DEF IInv, Claims, InCell, TypeOK
<1>13. Stale'
  BY <1>1, <1>2 DEF IInv, Stale, TypeOK
<1> QED
  BY <1>6, <1>7, <1>8, <1>10, <1>11, <1>12, <1>13 DEF IInv

(* The consumer copies the record out of its cell. *)
LEMMA PopCopyStep ==
    ASSUME IInv, NEW c \in Consumers, PopCopy(c)
    PROVE  IInv'
<1>1. /\ pc[c] = "copy" /\ Reads(c)
      /\ out' = [out EXCEPT ![c] = data[CellOf(pos[c])]] /\ pc' = [pc EXCEPT ![c] = "retire"]
      /\ UNCHANGED <<enqueue_pos, dequeue_pos, sequence, data, pos, seq, got>>
  BY DEF PopCopy, Goto, cursors, cells, Reads
<1>2. TypeOK /\ c \in Threads /\ c \notin Producers
  BY DEF IInv, Threads
<1>3. data[CellOf(pos[c])] = pos[c] /\ pos[c] \in Nat
  BY <1>1, <1>2 DEF IInv, Reading, TypeOK
<1>4. TypeOK'
  <2>1. out' \in [Consumers -> Int]
    BY <1>1, <1>2, <1>3 DEF TypeOK
  <2> QED
    BY <1>1, <1>2, <2>1 DEF TypeOK
<1>5. NeverOverfull' /\ FaithfulHandOver' /\ CellState'
  BY <1>1 DEF IInv, NeverOverfull, FaithfulHandOver, CellState
<1>6. Writing'
  BY <1>1, <1>2 DEF IInv, Writing, Writes, TypeOK, Threads
<1>7. Reading'
  <2> SUFFICES ASSUME NEW d \in Consumers, Reads(d)'
               PROVE  /\ enqueue_pos - Capacity <= pos[d] /\ pos[d] < dequeue_pos
                      /\ sequence[CellOf(pos[d])] = pos[d] + 1
                      /\ data[CellOf(pos[d])] = pos[d]
                      /\ pc'[d] = "retire" => out'[d] = pos[d]
    BY <1>1 DEF Reading
  <2>1. Reads(d) /\ (d # c => pc'[d] = pc[d])
    BY <1>1, <1>2 DEF Reads, TypeOK, Threads
  <2>2. /\ enqueue_pos - Capacity <= pos[d] /\ pos[d] < dequeue_pos
        /\ sequence[CellOf(pos[d])] = pos[d] + 1
        /\ data[CellOf(pos[d])] = pos[d]
        /\ pc[d] = "retire" => out[d] = pos[d]
    BY <2>1 DEF IInv, Reading
  <2>3. out'[d] = IF d = c THEN pos[c] ELSE out[d]
    BY <1>1, <1>2, <1>3 DEF TypeOK
  <2> QED
    BY <2>1, <2>2, <2>3
<1>8. Claims'
  BY <1>1, <1>2 DEF IInv, Claims, InCell, TypeOK
<1>9. Stale'
  BY <1>1, <1>2 DEF IInv, Stale, TypeOK
<1> QED
  BY <1>4, <1>5, <1>6, <1>7, <1>8, <1>9 DEF IInv

(* What a thread stores to the sequence word as it leaves its cell: the    *)
(* word grows to v, the cells of the others stay as they were.             *)
LEMMA LeaveCell ==
    ASSUME IInv, NEW t \in Threads, InCell(t), NEW v \in Nat, sequence[CellOf(pos[t])] <= v,
           sequence' = [sequence EXCEPT ![CellOf(pos[t])] = v],
           pc' = [pc EXCEPT ![t] = "idle"],
           UNCHANGED <<enqueue_pos, dequeue_pos, data, pos, seq>>,
           \A d \in Consumers \ {t} : out'[d] = out[d]
    PROVE  /\ sequence' \in [Cells -> Nat] /\ sequence'[CellOf(pos[t])] = v
           /\ \A i \in (enqueue_pos - Capacity)..(enqueue_pos - 1) :
                i # pos[t] => sequence'[CellOf(i)] = sequence[CellOf(i)]
           /\ Writing' /\ Reading' /\ Claims' /\ Stale'
<1> DEFINE k == CellOf(pos[t])
<1>1. TypeOK /\ pos[t] \in Nat /\ k \in Cells /\ pos[t] \in (enqueue_pos - Capacity)..(enqueue_pos - 1)
  BY InWindow DEF IInv
<1>2. sequence' \in [Cells -> Nat] /\ sequence'[k] = v
  BY <1>1 DEF TypeOK
<1>3. \A j \in Cells : j # k => sequence'[j] = sequence[j]
  BY <1>1 DEF TypeOK
<1>4. \A i \in (enqueue_pos - Capacity)..(enqueue_pos - 1) :
        i # pos[t] => sequence'[CellOf(i)] = sequence[CellOf(i)]
  <2> SUFFICES ASSUME NEW i \in (enqueue_pos - Capacity)..(enqueue_pos - 1), i # pos[t]
               PROVE  sequence'[CellOf(i)] = sequence[CellOf(i)]
    OBVIOUS
  <2>1. CellOf(i) # k
    BY <1>1, WindowApart
  <2>2. i \in Int
    BY <1>1 DEF TypeOK
  <2> QED
    BY <1>3, <2>1, <2>2, CellInRange
<1>5. \A s \in Threads \ {t} : InCell(s) => sequence'[CellOf(pos[s])] = sequence[CellOf(pos[s])]
  <2> SUFFICES ASSUME NEW s \in Threads \ {t}, InCell(s)
               PROVE  sequence'[CellOf(pos[s])] = sequence[CellOf(pos[s])]
    OBVIOUS
  <2>1. pos[s] # pos[t]
    BY DEF IInv, Claims
  <2> QED
    BY <1>4, <2>1, InWindow
<1>6. \A s \in Threads : InCell(s)' => InCell(s) /\ s # t /\ pc'[s] = pc[s]
  BY <1>1 DEF InCell, TypeOK
<1>7. Writing'
  <2> SUFFICES ASSUME NEW q \in Producers, Writes(q)'
               PROVE  /\ dequeue_pos <= pos[q] /\ pos[q] < enqueue_pos
                      /\ sequence'[CellOf(pos[q])] = pos[q]
                      /\ pc'[q] = "publish" => data[CellOf(pos[q])] = pos[q]
    BY DEF Writing
  <2>1. InCell(q) /\ q # t /\ pc'[q] = pc[q] /\ Writes(q) /\ q \in Threads
    BY <1>6 DEF Writes, InCell, Threads
  <2>2. /\ dequeue_pos <= pos[q] /\ pos[q] < enqueue_pos
        /\ sequence[CellOf(pos[q])] = pos[q]
        /\ pc[q] = "publish" => data[CellOf(pos[q])] = pos[q]
    BY <2>1 DEF IInv, Writing
  <2> QED
    BY <1>5, <2>1, <2>2
<1>8. Reading'
  <2> SUFFICES ASSUME NEW d \in Consumers, Reads(d)'
               PROVE  /\ enqueue_pos - Capacity <= pos[d] /\ pos[d] < dequeue_pos
                      /\ sequence'[CellOf(pos[d])] = pos[d] + 1
                      /\ data[CellOf(pos[d])] = pos[d]
                      /\ pc'[d] = "retire" => out'[d] = pos[d]
    BY DEF Reading
  <2>1. InCell(d) /\ d # t /\ pc'[d] = pc[d] /\ Reads(d) /\ d \in Threads
    BY <1>6 DEF Reads, InCell, Threads
  <2>2. /\ enqueue_pos - Capacity <= pos[d] /\ pos[d] < dequeue_pos
        /\ sequence[CellOf(pos[d])] = pos[d] + 1
        /\ data[CellOf(pos[d])] = pos[d]
        /\ pc[d] = "retire" => out[d] = pos[d]
    BY <2>1 DEF IInv, Reading
  <2>3. out'[d] = out[d]
    BY <2>1
  <2> QED
    BY <1>5, <2>1, <2>2, <2>3
<1>9. Claims'
  BY <1>6 DEF IInv, Claims
<1>10. Stale'
  <2> SUFFICES ASSUME NEW s \in Threads, pc'[s] = "decide"
               PROVE  seq[s] <= sequence'[CellOf(pos[s])]
    BY DEF Stale
  <2>1. pc[s] = "decide" /\ seq[s] \in Nat /\ pos[s] \in Nat
    BY <1>1 DEF TypeOK
  <2>2. seq[s] <= sequence[CellOf(pos[s])] /\ CellOf(pos[s]) \in Cells
    BY <2>1, CellInRange DEF IInv, Stale
  <2>3. CASE CellOf(pos[s]) = k
    <3>1. sequence[k] \in Nat
      BY <1>1 DEF TypeOK
    <3> QED
      BY <1>2, <2>1, <2>2, <2>3, <3>1
  <2>4. CASE CellOf(pos[s]) # k
    BY <1>3, <2>2, <2>4
  <2> QED
    BY <2>3, <2>4
<1> QED
  BY <1>2, <1>4, <1>7, <1>8, <1>9, <1>10

(* Publishing: position pos[p] may now be read. *)
LEMMA PushPublishStep ==
    ASSUME IInv, NEW p \in Producers, PushPublish(p)
    PROVE  IInv'
<1>1. /\ pc[p] = "publish" /\ InCell(p) /\ Writes(p) /\ p \in Threads
      /\ sequence' = [sequence EXCEPT ![CellOf(pos[p])] = pos[p] + 1] /\ pc' = [pc EXCEPT ![p] = "idle"]
      /\ UNCHANGED <<enqueue_pos, dequeue_pos, data, pos, seq, out, got>>
  BY DEF PushPublish, Published, Goto, cursors, InCell, Writes, Threads
<1>2. TypeOK /\ pos[p] \in Nat
  BY <1>1 DEF IInv, TypeOK
<1>3. sequence[CellOf(pos[p])] = pos[p] /\ data[CellOf(pos[p])] = pos[p] /\ dequeue_pos <= pos[p]
  BY <1>1 DEF IInv, Writing
<1>4. /\ sequence' \in [Cells -> Nat] /\ sequence'[CellOf(pos[p])] = pos[p] + 1
      /\ \A i \in (enqueue_pos - Capacity)..(enqueue_pos - 1) :
           i # pos[p] => sequence'[CellOf(i)] = sequence[CellOf(i)]
      /\ Writing' /\ Reading' /\ Claims' /\ Stale'
  <2>1. pos[p] + 1 \in Nat /\ sequence[CellOf(pos[p])] <= pos[p] + 1
    BY <1>2, <1>3
  <2>2. \A d \in Consumers \ {p} : out'[d] = out[d]
    BY <1>1
  <2>3. UNCHANGED <<enqueue_pos, dequeue_pos, data, pos, seq>>
    BY <1>1
  <2> QED
    BY <1>1, <2>1, <2>2, <2>3, LeaveCell
<1>5. TypeOK'
  BY <1>1, <1>2, <1>4 DEF TypeOK
<1>6. NeverOverfull' /\ FaithfulHandOver'
  BY <1>1 DEF IInv, NeverOverfull, FaithfulHandOver
<1>7. CellState'
  <2> SUFFICES ASSUME NEW i \in (enqueue_pos - Capacity)..(enqueue_pos - 1)
               PROVE  IF i < dequeue_pos
                      THEN sequence'[CellOf(i)] \in {i + 1, i + Capacity}
                      ELSE sequence'[CellOf(i)] \in {i, i + 1} /\ (sequence'[CellOf(i)] = i + 1 => data[CellOf(i)] = i)
    BY <1>1 DEF CellState
  <2>1. CASE i = pos[p]
    BY <1>2, <1>3, <1>4, <2>1 DEF TypeOK
  <2>2. CASE i # pos[p]
    BY <1>4, <2>2 DEF IInv, CellState
  <2> QED
    BY <2>1, <2>2
<1> QED
  BY <1>4, <1>5, <1>6, <1>7 DEF IInv

(* Retiring: the cell is free for the push one lap later, and the pop has  *)
(* returned the record of its position.                                    *)
LEMMA PopRetireStep ==
    ASSUME IInv, NEW c \in Consumers, PopRetire(c)
    PROVE  IInv'
<1>1. /\ pc[c] = "retire" /\ InCell(c) /\ Reads(c) /\ c \in Threads
      /\ sequence' = [sequence EXCEPT ![CellOf(pos[c])] = pos[c] + Capacity] /\ pc' = [pc EXCEPT ![c] = "idle"]
      /\ got' = [got EXCEPT ![pos[c]] = out[c]] /\ out' = [out EXCEPT ![c] = None]
      /\ UNCHANGED <<enqueue_pos, dequeue_pos, data, pos, seq>>
  BY DEF PopRetire, Goto, cursors, InCell, Reads, Threads
<1>2. TypeOK /\ pos[c] \in Nat /\ pos[c] + Capacity \in Nat
  BY <1>1 DEF IInv, TypeOK
<1>3. sequence[CellOf(pos[c])] = pos[c] + 1 /\ out[c] = pos[c] /\ pos[c] < dequeue_pos
  BY <1>1 DEF IInv, Reading
<1>4. \A d \in Consumers \ {c} : out'[d] = out[d]
  BY <1>1, <1>2 DEF TypeOK
<1>5. /\ sequence' \in [Cells -> Nat] /\ sequence'[CellOf(pos[c])] = pos[c] + Capacity
      /\ \A i \in (enqueue_pos - Capacity)..(enqueue_pos - 1) :
           i # pos[c] => sequence'[CellOf(i)] = sequence[CellOf(i)]
      /\ Writing' /\ Reading' /\ Claims' /\ Stale'
  <2>1. sequence[CellOf(pos[c])] <= pos[c] + Capacity
    BY <1>2, <1>3
  <2>2. UNCHANGED <<enqueue_pos, dequeue_pos, data, pos, seq>>
    BY <1>1
  <2> QED
    BY <1>1, <1>2, <1>4, <2>1, <2>2, LeaveCell
<1>6. got' \in [0..(MaxPushes - 1) -> Int] /\ out' \in [Consumers -> Int]
  <2>1. got \in [0..(MaxPushes - 1) -> Int] /\ out[c] \in Int /\ None \in Int /\ out \in [Consumers -> Int]
    BY <1>2, <1>3 DEF TypeOK, None
  <2>2. got' \in [0..(MaxPushes - 1) -> Int]
    BY <1>1, <2>1
  <2>3. out' \in [Consumers -> Int]
    BY <1>1, <2>1
  <2> QED
    BY <2>2, <2>3
<1>7. TypeOK'
  <2>1. pc' \in [Threads -> {"idle", "loop", "decide", "copy", "publish", "retire"}]
    BY <1>1, <1>2 DEF TypeOK
  <2>2. (\A p \in Producers : pc'[p] # "retire") /\ (\A d \in Consumers : pc'[d] # "publish")
    BY <1>1, <1>2 DEF TypeOK, Threads
  <2>3. enqueue_pos' \in Nat /\ dequeue_pos' \in Nat /\ data' \in [Cells -> Int]
    BY <1>1, <1>2 DEF TypeOK
  <2>4. pos' \in [Threads -> Nat] /\ seq' \in [Threads -> Nat]
    BY <1>1, <1>2 DEF TypeOK
  <2> QED
    BY <1>5, <1>6, <2>1, <2>2, <2>3, <2>4 DEF TypeOK
<1>8. NeverOverfull'
  BY <1>1 DEF IInv, NeverOverfull
<1>9. FaithfulHandOver'
  BY <1>1, <1>2, <1>3 DEF IInv, FaithfulHandOver, TypeOK
<1>10. CellState'
  <2> SUFFICES ASSUME NEW i \in (enqueue_pos - Capacity)..(enqueue_pos - 1)
               PROVE  IF i < dequeue_pos
                      THEN sequence'[CellOf(i)] \in {i + 1, i + Capacity}
                      ELSE sequence'[CellOf(i)] \in {i, i + 1} /\ (sequence'[CellOf(i)] = i + 1 => data[CellOf(i)] = i)
    BY <1>1 DEF CellState
  <2>1. CASE i = pos[c]
    BY <1>3, <1>5, <2>1
  <2>2. CASE i # pos[c]
    BY <1>5, <2>2 DEF IInv, CellState
  <2> QED
    BY <2>1, <2>2
<1> QED
  BY <1>5, <1>7, <1>8, <1>9, <1>10 DEF IInv

(* The steps before a claim and after a refusal. *)
LEMMA LoopStep ==
    ASSUME IInv, NEW t \in Threads,
           \/ ReadSequence(t)
           \/ t \in Producers /\ (PushBegin(t) \/ PushFull(t) \/ PushReload(t))
           \/ t \in Producers /\ PushClaim(t) /\ ~Exchanges(t, enqueue_pos)
           \/ t \in Consumers /\ (PopBegin(t) \/ PopEmpty(t) \/ PopReload(t))
           \/ t \in Consumers /\ PopClaim(t) /\ ~Exchanges(t, dequeue_pos)
    PROVE  IInv'
<1>1. TypeOK
  BY DEF IInv
<1>2. CASE ReadSequence(t)
  <2>1. /\ pc[t] = "loop" /\ pc' = [pc EXCEPT ![t] = "decide"]
        /\ seq' = [seq EXCEPT ![t] = sequence[CellOf(pos[t])]]
        /\ UNCHANGED <<cursors, cells, pos, out, got>>
    BY <1>2 DEF ReadSequence, Goto
  <2>2. pos[t] \in Nat /\ sequence[CellOf(pos[t])] \in Nat
    BY <1>1, CellInRange DEF TypeOK
  <2>3. pos' \in [Threads -> Nat] /\ seq' \in [Threads -> Nat]
    BY <1>1, <2>1, <2>2 DEF TypeOK
  <2>4. pc' \in [Threads -> {"idle", "loop", "decide", "copy", "publish", "retire"}]
    BY <1>1, <2>1 DEF TypeOK
  <2>5. \A s \in Threads \ {t} : pc'[s] = pc[s] /\ pos'[s] = pos[s] /\ seq'[s] = seq[s]
    BY <1>1, <2>1 DEF TypeOK
  <2>6. ~InCell(t) /\ pc'[t] = "decide" /\ seq'[t] <= sequence[CellOf(pos'[t])]
    <3>1. ~InCell(t) /\ pc'[t] = "decide"
      BY <1>1, <2>1 DEF InCell, TypeOK
    <3>2. seq'[t] = sequence[CellOf(pos[t])] /\ pos' = pos
      BY <1>1, <2>1 DEF TypeOK
    <3>3. seq'[t] = sequence[CellOf(pos'[t])] /\ seq'[t] \in Nat
      BY <2>2, <3>2
    <3> QED
      BY <3>1, <3>3
  <2> QED
    BY <2>1, <2>3, <2>4, <2>5, <2>6, OutsideStep
<1>3. CASE ~ReadSequence(t)
  <2>1. PICK x \in {"idle", "loop"}, v \in Nat :
          /\ pc[t] \in {"idle", "decide"} /\ pc' = [pc EXCEPT ![t] = x] /\ pos' = [pos EXCEPT ![t] = v]
          /\ UNCHANGED <<cursors, cells, seq, out, got>>
    <3>1. CASE t \in Producers /\ PushBegin(t)
      BY <1>1, <3>1 DEF PushBegin, Goto, SetPos, TypeOK
    <3>2. CASE t \in Producers /\ PushReload(t)
      BY <1>1, <3>2 DEF PushReload, Reload, Goto, SetPos, TypeOK
    <3>3. CASE t \in Producers /\ PushFull(t)
      <4>1. pos' = [pos EXCEPT ![t] = pos[t]] /\ pos[t] \in Nat
        BY <1>1, <3>3 DEF PushFull, TypeOK
      <4> QED
        BY <4>1, <3>3 DEF PushFull, Goto
    <3>4. CASE t \in Producers /\ PushClaim(t) /\ ~Exchanges(t, enqueue_pos)
      BY <1>1, <3>4 DEF PushClaim, Reload, Goto, SetPos, TypeOK, cursors
    <3>5. CASE t \in Consumers /\ PopBegin(t)
      BY <1>1, <3>5 DEF PopBegin, Goto, SetPos, TypeOK
    <3>6. CASE t \in Consumers /\ PopReload(t)
      BY <1>1, <3>6 DEF PopReload, Reload, Goto, SetPos, TypeOK
    <3>7. CASE t \in Consumers /\ PopEmpty(t)
      <4>1. pos' = [pos EXCEPT ![t] = pos[t]] /\ pos[t] \in Nat
        BY <1>1, <3>7 DEF PopEmpty, TypeOK
      <4> QED
        BY <4>1, <3>7 DEF PopEmpty, Goto
    <3>8. CASE t \in Consumers /\ PopClaim(t) /\ ~Exchanges(t, dequeue_pos)
      BY <1>1, <3>8 DEF PopClaim, Reload, Goto, SetPos, TypeOK, cursors
    <3> QED
      BY <1>3, <3>1, <3>2, <3>3, <3>4, <3>5, <3>6, <3>7, <3>8
  <2>2. pos' \in [Threads -> Nat] /\ seq' \in [Threads -> Nat]
    BY <1>1, <2>1 DEF TypeOK
  <2>3. pc' \in [Threads -> {"idle", "loop", "decide", "copy", "publish", "retire"}]
    BY <1>1, <2>1 DEF TypeOK
  <2>4. \A s \in Threads \ {t} : pc'[s] = pc[s] /\ pos'[s] = pos[s] /\ seq'[s] = seq[s]
    BY <1>1, <2>1 DEF TypeOK
  <2>5. ~InCell(t) /\ pc'[t] \in {"idle", "loop"}
    BY <1>1, <2>1 DEF InCell, TypeOK
  <2> QED
    BY <2>1, <2>2, <2>3, <2>4, <2>5, OutsideStep
<1> QED
  BY <1>2, <1>3

(* Every step keeps the invariant. *)
LEMMA NextInv ==
    ASSUME Capacity > 1, IInv, [Next]_vars
    PROVE  IInv'
<1>1. CASE \E t \in Threads : ReadSequence(t)
  BY <1>1, LoopStep
<1>2. ASSUME NEW p \in Producers, Push(p) PROVE IInv'
  <2>1. p \in Threads
    BY DEF Threads
  <2> QED
    BY <1>2, <2>1, LoopStep, PushClaimStep, PushCopyStep, PushPublishStep DEF Push
<1>3. ASSUME NEW c \in Consumers, Pop(c) PROVE IInv'
  <2>1. c \in Threads
    BY DEF Threads
  <2> QED
    BY <1>3, <2>1, LoopStep, PopClaimStep, PopCopyStep, PopRetireStep DEF Pop
<1>4. CASE UNCHANGED vars
  BY <1>4 DEF vars, IInv, TypeOK, NeverOverfull, CellState, Writing, Reading, Claims, Stale,
              FaithfulHandOver, Writes, Reads, InCell
<1> QED
  BY <1>1, <1>2, <1>3, <1>4 DEF Next

-----------------------------------------------------------------------------
(* CellsHandedOver for every set of producers and consumers, every number  *)
(* of pushes and every capacity of at least two: no cell is ever in two    *)
(* hands, a pop returns the record of the position it claimed, and push    *)
(* never runs over records that were not read (LockFreeRingBuffer and      *)
(* ShmRingMpmc, push and pop).                                             *)
THEOREM HandOver ==
    ASSUME Capacity > 1
    PROVE  Spec => []CellsHandedOver
<1>1. Init => IInv
  BY InitInv
<1>2. IInv /\ [Next]_vars => IInv'
  BY NextInv
<1>3. IInv => CellsHandedOver
  BY InvExclusive DEF IInv, CellsHandedOver
<1> QED
  BY <1>1, <1>2, <1>3, PTL DEF Spec
=============================================================================
