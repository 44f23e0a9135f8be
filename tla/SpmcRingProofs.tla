--------------------------- MODULE SpmcRingProofs ---------------------------
(***************************************************************************)
(* SpmcRing implements the lossy log, for any number of readers, any       *)
(* capacity, any record size and any batch.                                *)
(***************************************************************************)
EXTENDS SpmcRing, RingLemmas

-----------------------------------------------------------------------------
(* The inductive invariant *)

\* Records whose write has begun, and records whose words are all stored.
Begun == IF wpc = "idle" THEN head ELSE head + 1
Stored == IF wpc = "publish" THEN head + 1 ELSE head

TypeOK ==
    /\ head \in Nat
    /\ slots \in [0..(Capacity - 1) -> [Words -> Int]]
    /\ wpc \in {"idle", "store", "publish"}
    /\ wtodo \in SUBSET Words
    /\ local_tail \in [Readers -> Nat]
    /\ overrun_count \in [Readers -> Nat]
    /\ rpc \in [Readers -> {"idle", "copy"}]
    /\ n \in [Readers -> 0..MaxBatch]
    /\ todo \in [Readers -> SUBSET (Batch \X Words)]
    /\ out \in [Readers -> [Batch -> [Words -> Int]]]
    /\ delivered \in [Readers -> Seq([Words -> Int])]

\* The counter is odd exactly while the words of a record are stored.
Counter ==
    write_seq = IF wpc = "idle" THEN 2 * head ELSE IF wpc = "store" THEN 2 * head + 1 ELSE 2 * head + 2

\* A record is in its slot, whole, from its last store to the beginning of
\* the write one lap later.
Intact == \A i \in 0..head : i < Stored /\ Begun - Capacity <= i => slots[SlotOf(i)] = Whole(i)

\* The record under way is written but for the words still to do.
Storing == wpc = "store" => \A w \in Words \ wtodo : slots[SlotOf(head)][w] = head

\* No reader is ahead of the producer.
Behind == \A r \in Readers : local_tail[r] + n[r] <= head

\* What a reader has copied is right, unless a later write of the slot has
\* begun by now.
Copied(r) ==
    \A i \in 0..(n[r] - 1), w \in Words :
        <<i, w>> \notin todo[r] /\ Begun - Capacity <= local_tail[r] + i => out[r][i][w] = local_tail[r] + i

\* What a poll hands out when it ends now.
Returned(r) == [k \in 1..(n[r] - Lapped(r)) |-> out[r][Lapped(r) + k - 1]]

IInv ==
    /\ TypeOK /\ Counter /\ Intact /\ Storing /\ Behind
    /\ \A r \in Readers : rpc[r] = "copy" => Copied(r)

-----------------------------------------------------------------------------
(* Lemmas *)

(* A slot index is in the array, and fewer than Capacity records apart two *)
(* records have different slots.                                           *)
LEMMA SlotInRange ==
    ASSUME NEW i \in Nat
    PROVE  SlotOf(i) \in 0..(Capacity - 1)
  BY ModRange, CapacityAssumption DEF SlotOf

LEMMA SlotsApart ==
    ASSUME NEW i \in Nat, NEW j \in Nat, i < j, j < i + Capacity
    PROVE  SlotOf(i) # SlotOf(j)
<1>1. i \in Int /\ j \in Int /\ Capacity \in Nat \ {0}
  BY CapacityAssumption
<1>2. i % Capacity # j % Capacity
  BY <1>1, SlotsDistinct
<1> QED
  BY <1>2 DEF SlotOf

(* What poll computes from the counter is the number of writes begun, less *)
(* one lap: a reader learns of a write no later than its first store.      *)
LEMMA OldestIntact ==
    ASSUME TypeOK, Counter
    PROVE  /\ oldest_intact(write_seq) \in Nat
           /\ oldest_intact(write_seq) = IF Begun > Capacity THEN Begun - Capacity ELSE 0
<1>1. head \in Nat /\ wpc \in {"idle", "store", "publish"} /\ Capacity \in Nat
  BY CapacityAssumption DEF TypeOK
<1>2. (write_seq + 1) \div 2 = Begun
  <2>1. CASE wpc = "idle"
    BY <1>1, <2>1 DEF Counter, Begun
  <2>2. CASE wpc = "store"
    BY <1>1, <2>2 DEF Counter, Begun
  <2>3. CASE wpc = "publish"
    BY <1>1, <2>3 DEF Counter, Begun
  <2> QED
    BY <1>1, <2>1, <2>2, <2>3
<1>3. Begun \in Nat
  BY <1>1 DEF Begun
<1> QED
  BY <1>1, <1>2, <1>3 DEF oldest_intact

(* The part of a batch that was recycled is a prefix of it, and the rest   *)
(* starts no earlier than the oldest intact record.                        *)
LEMMA LappedPrefix ==
    ASSUME TypeOK, Counter, NEW r \in Readers
    PROVE  /\ Lapped(r) \in 0..n[r]
           /\ \A i \in Lapped(r)..(n[r] - 1) : Begun - Capacity <= local_tail[r] + i
           /\ Lapped(r) > 0 => local_tail[r] + Lapped(r) + Capacity <= Begun
<1>1. local_tail[r] \in Nat /\ n[r] \in Nat /\ Capacity \in Nat /\ Begun \in Nat
  BY CapacityAssumption, MaxBatchAssumption DEF TypeOK, Begun
<1>2. PICK old \in Nat : /\ old = oldest_intact(write_seq)
                         /\ old = IF Begun > Capacity THEN Begun - Capacity ELSE 0
  BY OldestIntact
<1>3. Lapped(r) = IF old > local_tail[r] THEN IF old - local_tail[r] < n[r] THEN old - local_tail[r] ELSE n[r] ELSE 0
  BY <1>2 DEF Lapped, Least
<1> HIDE DEF Begun, Lapped
<1> QED
  BY <1>1, <1>2, <1>3

(* What the poll returns is a sequence of records. *)
LEMMA ReturnedIsSeq ==
    ASSUME TypeOK, Counter, NEW r \in Readers
    PROVE  Returned(r) \in Seq([Words -> Int])
<1> DEFINE rest == n[r] - Lapped(r)
<1>1. n[r] \in 0..MaxBatch /\ MaxBatch \in Nat /\ out[r] \in [Batch -> [Words -> Int]]
  BY MaxBatchAssumption DEF TypeOK
<1>2. Lapped(r) \in 0..n[r]
  BY LappedPrefix
<1> HIDE DEF Lapped
<1>3. rest \in Nat
  BY <1>1, <1>2
<1>4. ASSUME NEW k \in 1..rest
      PROVE  out[r][Lapped(r) + k - 1] \in [Words -> Int]
  <2>1. Lapped(r) + k - 1 \in Batch
    BY <1>1, <1>2 DEF Batch
  <2> QED
    BY <1>1, <2>1
<1>5. Returned(r) \in [1..rest -> [Words -> Int]]
  BY <1>4 DEF Returned
<1> QED
  BY <1>3, <1>5, FunctionIsSeq

(* Where a poll starts and how much it takes: never behind the reader, and *)
(* never past the producer; a jump lands one lap behind it.                *)
LEMMA BatchInside ==
    ASSUME TypeOK, Behind, NEW r \in Readers, NEW m \in 0..MaxBatch
    PROVE  /\ First(r) \in Nat /\ local_tail[r] <= First(r) /\ First(r) <= head
           /\ First(r) # local_tail[r] => First(r) + Capacity = head
           /\ Size(r, m) \in 0..MaxBatch /\ First(r) + Size(r, m) <= head
<1>1. local_tail[r] \in Nat /\ head \in Nat /\ Capacity \in Nat /\ MaxBatch \in Nat /\ m \in Nat /\ m <= MaxBatch
  BY CapacityAssumption, MaxBatchAssumption DEF TypeOK
<1>2. local_tail[r] <= head
  BY MaxBatchAssumption DEF Behind, TypeOK
<1>3. /\ First(r) \in Nat /\ local_tail[r] <= First(r) /\ First(r) <= head
      /\ First(r) # local_tail[r] => First(r) + Capacity = head
  BY <1>1, <1>2 DEF First
<1>4. Size(r, m) = IF head - First(r) < m THEN head - First(r) ELSE m
  BY DEF Size, Least
<1> HIDE DEF First, Size
<1> QED
  BY <1>1, <1>3, <1>4

-----------------------------------------------------------------------------
(* The invariant is inductive *)

(* The empty ring and readers that have not polled yet. *)
LEMMA InitInv == Init => IInv
<1> SUFFICES ASSUME Init PROVE IInv
  OBVIOUS
<1>1. TypeOK
  BY MaxBatchAssumption DEF Init, TypeOK, Blank, BlankBatch, NoRecord
<1>2. Counter /\ Storing
  BY DEF Init, Counter, Storing
<1>3. Intact
  BY DEF Init, Intact, Stored
<1>4. Behind
  BY DEF Init, Behind
<1>5. \A r \in Readers : rpc[r] # "copy"
  BY DEF Init
<1> QED
  BY <1>1, <1>2, <1>3, <1>4, <1>5 DEF IInv

(* A step that leaves the readers alone and begins no fewer writes keeps   *)
(* what they have copied.                                                  *)
LEMMA ReadersKept ==
    ASSUME IInv, Begun' \in Nat, Begun <= Begun', head' \in Nat, head <= head', UNCHANGED readerVars
    PROVE  Behind' /\ \A r \in Readers : rpc'[r] = "copy" => Copied(r)'
<1>0. TypeOK /\ Behind
  BY DEF IInv
<1>1. /\ head \in Nat /\ head' \in Nat
      /\ local_tail \in [Readers -> Nat] /\ n \in [Readers -> 0..MaxBatch]
  BY <1>0 DEF TypeOK
<1>a. Begun \in Nat /\ Begun' \in Nat /\ Capacity \in Nat /\ MaxBatch \in Nat
  <2>1. Capacity \in Nat /\ MaxBatch \in Nat
    BY CapacityAssumption, MaxBatchAssumption
  <2>2. Begun \in Nat
    BY <1>1 DEF Begun
  <2> QED
    BY <2>1, <2>2
<1>2. local_tail' = local_tail /\ n' = n /\ rpc' = rpc /\ todo' = todo /\ out' = out
  BY DEF readerVars
<1>3. Behind'
  BY <1>0, <1>1, <1>a, <1>2 DEF Behind
<1>4. ASSUME NEW r \in Readers, rpc'[r] = "copy"
      PROVE  Copied(r)'
  <2>1. Copied(r) /\ local_tail[r] \in Nat /\ n[r] \in Nat
    BY <1>1, <1>a, <1>2, <1>4 DEF IInv
  <2> QED
    BY <1>a, <1>2, <2>1 DEF Copied
<1> QED
  BY <1>3, <1>4

(* broadcast: the counter turns odd, and the oldest record is given up. *)
LEMMA BeginWriteStep ==
    ASSUME IInv, BeginWrite
    PROVE  IInv'
<1>1. /\ wpc = "idle" /\ wpc' = "store" /\ wtodo' = Words /\ head' = head /\ slots' = slots
      /\ write_seq' = 2 * head + 1 /\ UNCHANGED readerVars
  BY DEF BeginWrite, begin_value
<1>2. TypeOK /\ Counter /\ Intact /\ Storing /\ head \in Nat /\ Capacity \in Nat
  BY CapacityAssumption DEF IInv, TypeOK
<1>3. Begun = head /\ Stored = head /\ Begun' = head + 1 /\ Stored' = head
  BY <1>1 DEF Begun, Stored
<1>4. TypeOK'
  BY <1>1, <1>2 DEF TypeOK, readerVars
<1>5. Counter' /\ Storing'
  BY <1>1, <1>2 DEF Counter, Storing
<1>6. Intact'
  BY <1>1, <1>2, <1>3 DEF Intact
<1>7. Begun' \in Nat /\ Begun <= Begun' /\ head' \in Nat /\ head <= head'
  BY <1>1, <1>2, <1>3
<1>8. Behind' /\ \A r \in Readers : rpc'[r] = "copy" => Copied(r)'
  BY <1>1, <1>7, ReadersKept
<1> QED
  BY <1>4, <1>5, <1>6, <1>8 DEF IInv

(* broadcast: one word of the record. *)
LEMMA StoreWordStep ==
    ASSUME IInv, NEW w \in Words, StoreWord(w)
    PROVE  IInv'
<1>1. /\ wpc = "store" /\ wpc' = wpc /\ wtodo' = wtodo \ {w} /\ head' = head
      /\ slots' = [slots EXCEPT ![SlotOf(head)][w] = head]
      /\ write_seq' = write_seq /\ UNCHANGED readerVars
  BY DEF StoreWord
<1>2. TypeOK /\ Counter /\ Intact /\ Storing /\ head \in Nat /\ Capacity \in Nat
  BY CapacityAssumption DEF IInv, TypeOK
<1>3. Begun = head + 1 /\ Stored = head /\ Begun' = head + 1 /\ Stored' = head
  BY <1>1 DEF Begun, Stored
<1>4. SlotOf(head) \in 0..(Capacity - 1) /\ slots \in [0..(Capacity - 1) -> [Words -> Int]] /\ head \in Int
  <2>1. SlotOf(head) \in 0..(Capacity - 1) /\ head \in Int
    BY <1>2, SlotInRange
  <2>2. slots \in [0..(Capacity - 1) -> [Words -> Int]]
    BY <1>2 DEF TypeOK
  <2> QED
    BY <2>1, <2>2
<1>5. /\ slots' \in [0..(Capacity - 1) -> [Words -> Int]]
      /\ slots'[SlotOf(head)] = [slots[SlotOf(head)] EXCEPT ![w] = head]
      /\ \A k \in 0..(Capacity - 1) : k # SlotOf(head) => slots'[k] = slots[k]
  <2>1. slots[SlotOf(head)] \in [Words -> Int]
    BY <1>4
  <2>2. [slots[SlotOf(head)] EXCEPT ![w] = head] \in [Words -> Int]
    BY <1>4, <2>1
  <2>3. slots' = [slots EXCEPT ![SlotOf(head)] = [slots[SlotOf(head)] EXCEPT ![w] = head]]
    BY <1>1
  <2> QED
    BY <1>4, <2>2, <2>3
<1>6. TypeOK'
  BY <1>1, <1>2, <1>5 DEF TypeOK, readerVars
<1>7. Counter'
  BY <1>1, <1>2 DEF Counter
<1>8. Storing'
  <2> SUFFICES ASSUME NEW v \in Words \ wtodo'
               PROVE  slots'[SlotOf(head)][v] = head
    BY <1>1 DEF Storing
  <2>1. slots[SlotOf(head)] \in [Words -> Int]
    BY <1>4
  <2>2. CASE v = w
    BY <1>5, <2>1, <2>2
  <2>3. CASE v # w
    BY <1>1, <1>2, <1>5, <2>1, <2>3 DEF Storing
  <2> QED
    BY <2>2, <2>3
<1>9. Intact'
  <2> SUFFICES ASSUME NEW i \in 0..head', i < Stored', Begun' - Capacity <= i
               PROVE  slots'[SlotOf(i)] = Whole(i)
    BY DEF Intact
  <2>0. i \in 0..head /\ i < head /\ head + 1 - Capacity <= i
    BY <1>1, <1>2, <1>3
  <2>1. SlotOf(i) # SlotOf(head) /\ SlotOf(i) \in 0..(Capacity - 1)
    BY <1>2, <2>0, SlotsApart, SlotInRange
  <2>2. slots[SlotOf(i)] = Whole(i)
    BY <1>2, <1>3, <2>0 DEF Intact
  <2> QED
    BY <1>5, <2>1, <2>2
<1>10. Begun' \in Nat /\ Begun <= Begun' /\ head' \in Nat /\ head <= head'
  BY <1>1, <1>2, <1>3
<1>11. Behind' /\ \A r \in Readers : rpc'[r] = "copy" => Copied(r)'
  BY <1>1, <1>10, ReadersKept
<1> QED
  BY <1>6, <1>7, <1>8, <1>9, <1>11 DEF IInv

(* broadcast: the counter turns even, the record is whole. *)
LEMMA EndWriteStep ==
    ASSUME IInv, EndWrite
    PROVE  IInv'
<1>1. /\ wpc = "store" /\ wpc' = "publish" /\ wtodo = {} /\ wtodo' = wtodo /\ head' = head /\ slots' = slots
      /\ write_seq' = 2 * (head + 1) /\ UNCHANGED readerVars
  BY DEF EndWrite, end_value
<1>2. TypeOK /\ Counter /\ Intact /\ Storing /\ head \in Nat /\ Capacity \in Nat
  BY CapacityAssumption DEF IInv, TypeOK
<1>3. Begun = head + 1 /\ Stored = head /\ Begun' = head + 1 /\ Stored' = head + 1
  BY <1>1 DEF Begun, Stored
<1>4. TypeOK'
  BY <1>1, <1>2 DEF TypeOK, readerVars
<1>5. Counter' /\ Storing'
  BY <1>1, <1>2 DEF Counter, Storing
<1>6. Intact'
  <2> SUFFICES ASSUME NEW i \in 0..head', i < Stored', Begun' - Capacity <= i
               PROVE  slots'[SlotOf(i)] = Whole(i)
    BY DEF Intact
  <2>0. i \in 0..head /\ head + 1 - Capacity <= i
    BY <1>1, <1>2, <1>3
  <2>1. CASE i < head
    BY <1>1, <1>2, <1>3, <2>0, <2>1 DEF Intact
  <2>2. CASE i = head
    <3>1. slots[SlotOf(head)] \in [Words -> Int]
      BY <1>2, SlotInRange DEF TypeOK
    <3>2. \A w \in Words : slots[SlotOf(head)][w] = head
      BY <1>1, <1>2 DEF Storing
    <3> QED
      BY <1>1, <2>2, <3>1, <3>2 DEF Whole
  <2> QED
    BY <1>2, <2>0, <2>1, <2>2
<1>7. Begun' \in Nat /\ Begun <= Begun' /\ head' \in Nat /\ head <= head'
  BY <1>1, <1>2, <1>3
<1>8. Behind' /\ \A r \in Readers : rpc'[r] = "copy" => Copied(r)'
  BY <1>1, <1>7, ReadersKept
<1> QED
  BY <1>4, <1>5, <1>6, <1>8 DEF IInv

(* broadcast: the record is published. *)
LEMMA PublishHeadStep ==
    ASSUME IInv, PublishHead
    PROVE  IInv'
<1>1. /\ wpc = "publish" /\ wpc' = "idle" /\ wtodo' = wtodo /\ head' = head + 1 /\ slots' = slots
      /\ write_seq' = write_seq /\ UNCHANGED readerVars
  BY DEF PublishHead
<1>2. TypeOK /\ Counter /\ Intact /\ Storing /\ head \in Nat /\ Capacity \in Nat
  BY CapacityAssumption DEF IInv, TypeOK
<1>3. Begun = head + 1 /\ Stored = head + 1 /\ Begun' = head + 1 /\ Stored' = head + 1
  BY <1>1 DEF Begun, Stored
<1>4. TypeOK'
  BY <1>1, <1>2 DEF TypeOK, readerVars
<1>5. Counter' /\ Storing'
  BY <1>1, <1>2 DEF Counter, Storing
<1>6. Intact'
  BY <1>1, <1>2, <1>3 DEF Intact
<1>7. Begun' \in Nat /\ Begun <= Begun' /\ head' \in Nat /\ head <= head'
  BY <1>1, <1>2, <1>3
<1>8. Behind' /\ \A r \in Readers : rpc'[r] = "copy" => Copied(r)'
  BY <1>1, <1>7, ReadersKept
<1> QED
  BY <1>4, <1>5, <1>6, <1>8 DEF IInv

(* A step of one reader disturbs neither the ring nor the other readers. *)
LEMMA OneReader ==
    ASSUME IInv, NEW r \in Readers, UNCHANGED writerVars, TypeOK',
           \A s \in Readers \ {r} : /\ local_tail'[s] = local_tail[s] /\ n'[s] = n[s] /\ rpc'[s] = rpc[s]
                                    /\ todo'[s] = todo[s] /\ out'[s] = out[s],
           local_tail'[r] + n'[r] <= head,
           rpc'[r] = "copy" => Copied(r)'
    PROVE  IInv'
<1>1. /\ head' = head /\ write_seq' = write_seq /\ slots' = slots /\ wpc' = wpc /\ wtodo' = wtodo
      /\ Begun' = Begun /\ Stored' = Stored
  BY DEF writerVars, Begun, Stored
<1>2. Counter' /\ Storing'
  BY <1>1 DEF IInv, Counter, Storing
<1>3. Intact'
  BY <1>1 DEF IInv, Intact
<1>4. Behind'
  <2> SUFFICES ASSUME NEW s \in Readers
               PROVE  local_tail'[s] + n'[s] <= head'
    BY DEF Behind
  <2>1. CASE s = r
    BY <1>1, <2>1
  <2>2. CASE s # r
    BY <1>1, <2>2 DEF IInv, Behind
  <2> QED
    BY <2>1, <2>2
<1>5. ASSUME NEW s \in Readers, rpc'[s] = "copy"
      PROVE  Copied(s)'
  <2>1. CASE s = r
    BY <1>5, <2>1
  <2>2. CASE s # r
    <3>1. /\ local_tail'[s] = local_tail[s] /\ n'[s] = n[s] /\ rpc'[s] = rpc[s]
          /\ todo'[s] = todo[s] /\ out'[s] = out[s]
      BY <2>2
    <3>2. Copied(s)
      BY <1>5, <3>1 DEF IInv
    <3> QED
      BY <1>1, <3>1, <3>2 DEF Copied
  <2> QED
    BY <2>1, <2>2
<1> QED
  BY <1>2, <1>3, <1>4, <1>5 DEF IInv

(* poll: the batch is chosen and nothing of it is copied yet. *)
LEMMA PollBeginStep ==
    ASSUME IInv, NEW r \in Readers, NEW m \in 0..MaxBatch, PollBegin(r, m)
    PROVE  IInv'
<1> DEFINE sz == Size(r, m)
<1>1. /\ local_tail' = [local_tail EXCEPT ![r] = First(r)]
      /\ overrun_count' = [overrun_count EXCEPT ![r] = @ + (First(r) - local_tail[r])]
      /\ n' = [n EXCEPT ![r] = sz]
      /\ todo' = [todo EXCEPT ![r] = (0..(sz - 1)) \X Words]
      /\ rpc' = [rpc EXCEPT ![r] = IF sz = 0 THEN "idle" ELSE "copy"]
      /\ out' = out /\ delivered' = delivered /\ UNCHANGED writerVars
  BY DEF PollBegin, CountLost
<1>2. TypeOK /\ Behind
  BY DEF IInv
<1>3. /\ First(r) \in Nat /\ local_tail[r] <= First(r) /\ First(r) <= head
      /\ sz \in 0..MaxBatch /\ First(r) + sz <= head
  BY <1>2, BatchInside
<1> HIDE DEF sz
<1>4. TypeOK'
  <2>1. local_tail' \in [Readers -> Nat] /\ n' \in [Readers -> 0..MaxBatch]
    BY <1>1, <1>2, <1>3 DEF TypeOK
  <2>2. overrun_count' \in [Readers -> Nat]
    <3>1. overrun_count[r] + (First(r) - local_tail[r]) \in Nat
      BY <1>2, <1>3 DEF TypeOK
    <3> QED
      BY <1>1, <1>2, <3>1 DEF TypeOK
  <2>3. rpc' \in [Readers -> {"idle", "copy"}]
    BY <1>1, <1>2 DEF TypeOK
  <2>4. todo' \in [Readers -> SUBSET (Batch \X Words)]
    <3>1. (0..(sz - 1)) \X Words \in SUBSET (Batch \X Words)
      <4>1. 0..(sz - 1) \subseteq Batch
        BY <1>3, MaxBatchAssumption DEF Batch
      <4> QED
        BY <4>1
    <3> QED
      BY <1>1, <1>2, <3>1 DEF TypeOK
  <2> QED
    BY <1>1, <1>2, <2>1, <2>2, <2>3, <2>4 DEF TypeOK, writerVars
<1>5. local_tail'[r] = First(r) /\ n'[r] = sz /\ todo'[r] = (0..(sz - 1)) \X Words
  BY <1>1, <1>2 DEF TypeOK
<1>6. Copied(r)'
  BY <1>5 DEF Copied
<1>7. \A s \in Readers \ {r} : /\ local_tail'[s] = local_tail[s] /\ n'[s] = n[s] /\ rpc'[s] = rpc[s]
                               /\ todo'[s] = todo[s] /\ out'[s] = out[s]
  BY <1>1, <1>2 DEF TypeOK
<1>8. local_tail'[r] + n'[r] <= head
  BY <1>3, <1>5
<1> QED
  BY <1>1, <1>4, <1>6, <1>7, <1>8, OneReader

(* poll: a word read from a slot whose next write has not begun is the     *)
(* record's own.                                                           *)
LEMMA LoadWordStep ==
    ASSUME IInv, NEW r \in Readers, NEW i \in Batch, NEW w \in Words, LoadWord(r, i, w)
    PROVE  IInv'
<1> DEFINE got == slots[SlotOf(local_tail[r] + i)][w]
<1>1. /\ rpc[r] = "copy" /\ <<i, w>> \in todo[r]
      /\ out' = [out EXCEPT ![r][i][w] = got]
      /\ todo' = [todo EXCEPT ![r] = @ \ {<<i, w>>}]
      /\ local_tail' = local_tail /\ overrun_count' = overrun_count /\ rpc' = rpc /\ n' = n
      /\ delivered' = delivered /\ UNCHANGED writerVars
  BY DEF LoadWord
<1>2. TypeOK /\ Behind /\ Intact /\ Copied(r)
  BY <1>1 DEF IInv
<1>3. i \in Nat /\ local_tail[r] \in Nat /\ n[r] \in Nat /\ head \in Nat /\ Begun \in Nat /\ Capacity \in Nat
  BY <1>2, MaxBatchAssumption, CapacityAssumption DEF TypeOK, Batch, Begun
<1>4. SlotOf(local_tail[r] + i) \in 0..(Capacity - 1)
  BY <1>3, SlotInRange
<1>5. got \in Int
  BY <1>2, <1>4 DEF TypeOK
<1>6. i < n[r] /\ Begun - Capacity <= local_tail[r] + i => got = local_tail[r] + i
  <2> SUFFICES ASSUME i < n[r], Begun - Capacity <= local_tail[r] + i
               PROVE  got = local_tail[r] + i
    OBVIOUS
  <2>1. local_tail[r] + i \in 0..head /\ local_tail[r] + i < Stored
    BY <1>2, <1>3 DEF Behind, Stored
  <2>2. slots[SlotOf(local_tail[r] + i)] = Whole(local_tail[r] + i)
    BY <1>2, <2>1 DEF Intact
  <2> QED
    BY <2>2 DEF Whole
<1> HIDE DEF got
<1>7. /\ out[r] \in [Batch -> [Words -> Int]] /\ out[r][i] \in [Words -> Int]
      /\ out' = [out EXCEPT ![r] = [out[r] EXCEPT ![i] = [out[r][i] EXCEPT ![w] = got]]]
  BY <1>1, <1>2 DEF TypeOK
<1>8. [out[r][i] EXCEPT ![w] = got] \in [Words -> Int]
  BY <1>5, <1>7
<1>9. /\ out' \in [Readers -> [Batch -> [Words -> Int]]]
      /\ out'[r] = [out[r] EXCEPT ![i] = [out[r][i] EXCEPT ![w] = got]]
      /\ \A s \in Readers \ {r} : out'[s] = out[s]
  <2>1. [out[r] EXCEPT ![i] = [out[r][i] EXCEPT ![w] = got]] \in [Batch -> [Words -> Int]]
    BY <1>7, <1>8
  <2> QED
    BY <1>2, <1>7, <2>1 DEF TypeOK
<1>10. /\ todo' \in [Readers -> SUBSET (Batch \X Words)] /\ todo'[r] = todo[r] \ {<<i, w>>}
       /\ \A s \in Readers \ {r} : todo'[s] = todo[s]
  BY <1>1, <1>2 DEF TypeOK
<1>11. TypeOK'
  BY <1>1, <1>2, <1>9, <1>10 DEF TypeOK, writerVars
<1>12. Copied(r)'
  <2>0. Begun' = Begun
    BY <1>1 DEF writerVars, Begun
  <2> SUFFICES ASSUME NEW j \in 0..(n[r] - 1), NEW v \in Words,
                      <<j, v>> \notin todo'[r], Begun - Capacity <= local_tail[r] + j
               PROVE  out'[r][j][v] = local_tail[r] + j
    BY <1>1, <2>0 DEF Copied
  <2>1. CASE j = i /\ v = w
    <3>1. out'[r][i][w] = got
      BY <1>7, <1>8, <1>9
    <3> QED
      BY <1>3, <1>6, <2>1, <3>1
  <2>2. CASE j # i \/ v # w
    <3>1. <<j, v>> \notin todo[r]
      BY <1>10, <2>2
    <3>2. out[r][j][v] = local_tail[r] + j
      BY <1>2, <3>1 DEF Copied
    <3>3. j \in Batch
      BY <1>2, MaxBatchAssumption DEF TypeOK, Batch
    <3>4. out'[r][j][v] = out[r][j][v]
      <4>1. CASE j # i
        BY <1>7, <1>9, <3>3, <4>1
      <4>2. CASE j = i /\ v # w
        BY <1>7, <1>8, <1>9, <3>3, <4>2
      <4> QED
        BY <2>2, <4>1, <4>2
    <3> QED
      BY <3>2, <3>4
  <2> QED
    BY <2>1, <2>2
<1>13. \A s \in Readers \ {r} : /\ local_tail'[s] = local_tail[s] /\ n'[s] = n[s] /\ rpc'[s] = rpc[s]
                                /\ todo'[s] = todo[s] /\ out'[s] = out[s]
  BY <1>1, <1>9, <1>10
<1>14. local_tail'[r] + n'[r] <= head
  BY <1>1, <1>2 DEF Behind
<1> QED
  BY <1>1, <1>11, <1>12, <1>13, <1>14, OneReader

(* poll: the batch is returned and the reader moves on. *)
LEMMA PollEndStep ==
    ASSUME IInv, NEW r \in Readers, PollEnd(r)
    PROVE  IInv'
<1>1. /\ local_tail' = [local_tail EXCEPT ![r] = @ + n[r]]
      /\ overrun_count' = [overrun_count EXCEPT ![r] = @ + Lapped(r)]
      /\ rpc' = [rpc EXCEPT ![r] = "idle"] /\ n' = [n EXCEPT ![r] = 0]
      /\ out' = [out EXCEPT ![r] = BlankBatch] /\ todo' = todo
      /\ delivered' = [delivered EXCEPT ![r] = @ \o Returned(r)]
      /\ UNCHANGED writerVars
  BY DEF PollEnd, CountLost, Returned
<1>2. TypeOK /\ Behind /\ Counter
  BY DEF IInv
<1>3. Lapped(r) \in 0..n[r] /\ n[r] \in Nat /\ local_tail[r] \in Nat /\ overrun_count[r] \in Nat /\ head \in Nat
  BY <1>2, LappedPrefix, MaxBatchAssumption DEF TypeOK
<1>4. TypeOK'
  <2>1. local_tail' \in [Readers -> Nat]
    BY <1>1, <1>2, <1>3 DEF TypeOK
  <2>2. overrun_count' \in [Readers -> Nat]
    BY <1>1, <1>2, <1>3 DEF TypeOK
  <2>3. rpc' \in [Readers -> {"idle", "copy"}] /\ n' \in [Readers -> 0..MaxBatch]
    BY <1>1, <1>2, MaxBatchAssumption DEF TypeOK
  <2>4. out' \in [Readers -> [Batch -> [Words -> Int]]]
    <3>1. BlankBatch \in [Batch -> [Words -> Int]]
      BY DEF BlankBatch, Blank, NoRecord
    <3> QED
      BY <1>1, <1>2, <3>1 DEF TypeOK
  <2>5. delivered' \in [Readers -> Seq([Words -> Int])]
    <3>1. Returned(r) \in Seq([Words -> Int])
      BY <1>2, ReturnedIsSeq
    <3>2. delivered[r] \in Seq([Words -> Int])
      BY <1>2 DEF TypeOK
    <3>3. delivered[r] \o Returned(r) \in Seq([Words -> Int])
      BY <3>1, <3>2
    <3> QED
      BY <1>1, <1>2, <3>3 DEF TypeOK
  <2> QED
    BY <1>1, <1>2, <2>1, <2>2, <2>3, <2>4, <2>5 DEF TypeOK, writerVars
<1>5. rpc'[r] = "idle" /\ local_tail'[r] = local_tail[r] + n[r] /\ n'[r] = 0
  BY <1>1, <1>2 DEF TypeOK
<1>6. local_tail'[r] + n'[r] <= head
  BY <1>2, <1>3, <1>5 DEF Behind
<1>7. \A s \in Readers \ {r} : /\ local_tail'[s] = local_tail[s] /\ n'[s] = n[s] /\ rpc'[s] = rpc[s]
                               /\ todo'[s] = todo[s] /\ out'[s] = out[s]
  BY <1>1, <1>2 DEF TypeOK
<1> QED
  BY <1>1, <1>4, <1>5, <1>6, <1>7, OneReader

(* Every step of the producer and of any reader keeps the invariant. *)
LEMMA NextInv == IInv /\ [Next]_vars => IInv'
<1> SUFFICES ASSUME IInv, [Next]_vars PROVE IInv'
  OBVIOUS
<1>1. CASE BeginWrite
  BY <1>1, BeginWriteStep
<1>2. CASE \E w \in Words : StoreWord(w)
  BY <1>2, StoreWordStep
<1>3. CASE EndWrite
  BY <1>3, EndWriteStep
<1>4. CASE PublishHead
  BY <1>4, PublishHeadStep
<1>5. ASSUME NEW r \in Readers, Reader(r)
      PROVE  IInv'
  <2>1. CASE \E m \in 0..MaxBatch : PollBegin(r, m)
    BY <2>1, PollBeginStep
  <2>2. CASE \E i \in Batch, w \in Words : LoadWord(r, i, w)
    BY <2>2, LoadWordStep
  <2>3. CASE PollEnd(r)
    BY <2>3, PollEndStep
  <2> QED
    BY <1>5, <2>1, <2>2, <2>3 DEF Reader
<1>6. CASE UNCHANGED vars
  <2>1. /\ UNCHANGED <<head, write_seq, slots, wpc, wtodo>>
        /\ UNCHANGED <<local_tail, overrun_count, rpc, n, todo, out, delivered>>
    BY <1>6 DEF vars
  <2>2. TypeOK'
    BY <2>1 DEF IInv, TypeOK
  <2>3. Begun' = Begun /\ Stored' = Stored
    BY <2>1 DEF Begun, Stored
  <2>4. Counter' /\ Storing'
    BY <2>1 DEF IInv, Counter, Storing
  <2>5. Intact' /\ Behind'
    BY <2>1, <2>3 DEF IInv, Intact, Behind
  <2>6. \A r \in Readers : rpc'[r] = "copy" => Copied(r)'
    BY <2>1, <2>3 DEF IInv, Copied
  <2> QED
    BY <2>2, <2>4, <2>5, <2>6 DEF IInv
<1> QED
  BY <1>1, <1>2, <1>3, <1>4, <1>5, <1>6 DEF Next, Producer

-----------------------------------------------------------------------------
(* The refinement *)

(* A poll that jumps takes the log's skip, and hands out nothing. *)
LEMMA PollBeginAdvances ==
    ASSUME IInv, NEW r \in Readers, NEW m \in 0..MaxBatch, PollBegin(r, m)
    PROVE  Log!Next
<1> DEFINE skip == First(r) - local_tail[r]
<1>1. TypeOK /\ Behind
  BY DEF IInv
<1>2. /\ First(r) \in Nat /\ local_tail[r] <= First(r) /\ First(r) <= head
      /\ First(r) # local_tail[r] => First(r) + Capacity = head
  BY <1>1, BatchInside
<1>3. local_tail[r] \in Nat /\ head \in Nat /\ Capacity \in Nat
  BY <1>1, CapacityAssumption DEF TypeOK
<1>4. skip \in 0..head /\ 0 \in 0..head /\ local_tail[r] + skip + 0 = First(r)
  BY <1>2, <1>3
<1>5. local_tail[r] + skip + 0 <= head /\ (skip > 0 => local_tail[r] + skip + Capacity <= head + 1)
  BY <1>2, <1>3
<1>6. local_tail' = [local_tail EXCEPT ![r] = @ + skip + 0]
  BY <1>4 DEF PollBegin
<1>7. overrun_count' = [overrun_count EXCEPT ![r] = @ + skip]
  BY DEF PollBegin, CountLost
<1>8. delivered' = [delivered EXCEPT ![r] = @ \o [k \in 1..0 |-> Whole(local_tail[r] + skip + k - 1)]]
  <2> DEFINE none == [k \in 1..0 |-> Whole(local_tail[r] + skip + k - 1)]
  <2>1. none \in Seq({}) /\ Len(none) = 0
    <3>1. none \in [1..0 -> {}]
      OBVIOUS
    <3> QED
      BY <3>1, FunctionIsSeq
  <2>2. delivered \in [Readers -> Seq([Words -> Int])] /\ delivered' = delivered
    BY <1>1 DEF TypeOK, PollBegin
  <2>3. delivered[r] \o none = delivered[r]
    <3>1. none = <<>>
      BY <2>1
    <3> QED
      BY <2>2, <3>1
  <2> QED
    BY <2>2, <2>3
<1>9. head' = head
  BY DEF PollBegin, writerVars
<1> QED
  BY <1>4, <1>5, <1>6, <1>7, <1>8, <1>9 DEF Log!Next, Log!Advance

(* A poll that ends skips the recycled prefix of its batch and hands out   *)
(* the rest, every record whole.                                           *)
LEMMA PollEndAdvances ==
    ASSUME IInv, NEW r \in Readers, PollEnd(r)
    PROVE  Log!Next
<1> DEFINE skip == Lapped(r)
           take == n[r] - Lapped(r)
<1>1. TypeOK /\ Behind /\ Counter /\ Copied(r) /\ todo[r] = {}
  BY DEF IInv, PollEnd
<1>2. /\ n[r] \in Nat /\ local_tail[r] \in Nat /\ head \in Nat /\ Capacity \in Nat
      /\ Begun \in Nat /\ Begun <= head + 1 /\ MaxBatch \in Nat /\ n[r] <= MaxBatch
      /\ local_tail[r] + n[r] <= head
  BY <1>1, CapacityAssumption, MaxBatchAssumption DEF TypeOK, Begun, Behind
<1>3. /\ skip \in 0..n[r]
      /\ \A i \in skip..(n[r] - 1) : Begun - Capacity <= local_tail[r] + i
      /\ skip > 0 => local_tail[r] + skip + Capacity <= Begun
  BY <1>1, LappedPrefix
<1>4. /\ local_tail' = [local_tail EXCEPT ![r] = @ + n[r]]
      /\ overrun_count' = [overrun_count EXCEPT ![r] = @ + skip]
      /\ delivered' = [delivered EXCEPT ![r] = @ \o Returned(r)]
      /\ head' = head
  BY DEF PollEnd, CountLost, Returned, writerVars
<1>5. Returned(r) = [k \in 1..take |-> Whole(local_tail[r] + skip + k - 1)]
  <2> SUFFICES ASSUME NEW k \in 1..take
               PROVE  out[r][skip + k - 1] = Whole(local_tail[r] + skip + k - 1)
    BY DEF Returned
  <2> HIDE DEF skip
  <2>1. /\ skip + k - 1 \in 0..(n[r] - 1) /\ skip + k - 1 \in skip..(n[r] - 1)
        /\ local_tail[r] + (skip + k - 1) = local_tail[r] + skip + k - 1
    BY <1>2, <1>3 DEF skip
  <2>2. out[r][skip + k - 1] \in [Words -> Int]
    <3>1. skip + k - 1 \in Batch
      BY <1>2, <2>1 DEF Batch
    <3> QED
      BY <1>1, <3>1 DEF TypeOK
  <2>3. \A w \in Words : out[r][skip + k - 1][w] = local_tail[r] + (skip + k - 1)
    BY <1>1, <1>3, <2>1 DEF Copied
  <2> QED
    BY <2>1, <2>2, <2>3 DEF Whole
<1> HIDE DEF skip, take
<1>6. take \in Nat /\ skip \in Nat /\ skip + take = n[r] /\ local_tail[r] + skip + take = local_tail[r] + n[r]
  BY <1>2, <1>3 DEF skip, take
<1>7. skip \in 0..head /\ take \in 0..head /\ local_tail[r] + skip + take <= head
  BY <1>2, <1>3, <1>6
<1>8. skip > 0 => local_tail[r] + skip + Capacity <= head + 1
  BY <1>2, <1>3, <1>6
<1>9. local_tail' = [local_tail EXCEPT ![r] = @ + skip + take]
  BY <1>4, <1>6
<1>10. delivered' = [delivered EXCEPT ![r] = @ \o [k \in 1..take |-> Whole(local_tail[r] + skip + k - 1)]]
  BY <1>4, <1>5
<1> QED
  BY <1>4, <1>7, <1>8, <1>9, <1>10 DEF Log!Next, Log!Advance

(* SpmcRing implements the lossy log: whatever the interleaving of a       *)
(* producer that never waits with any number of readers, what poll returns *)
(* are whole records in the order of publication, and every record passed  *)
(* over is counted and was at least a lap old.                             *)
THEOREM Refinement == Spec => ImplementsLog
<1>1. Init => Log!Init
  BY DEF Init, Log!Init
<1>2. IInv /\ [Next]_vars => [Log!Next]_(Log!vars)
  <2> SUFFICES ASSUME IInv, [Next]_vars PROVE [Log!Next]_(Log!vars)
    OBVIOUS
  <2>1. CASE BeginWrite \/ (\E w \in Words : StoreWord(w)) \/ EndWrite
    <3>1. UNCHANGED <<head, local_tail, overrun_count, delivered>>
      BY <2>1 DEF BeginWrite, StoreWord, EndWrite, readerVars
    <3> QED
      BY <3>1 DEF Log!vars
  <2>2. CASE PublishHead
    <3>1. head' = head + 1 /\ UNCHANGED <<local_tail, overrun_count, delivered>>
      BY <2>2 DEF PublishHead, readerVars
    <3> QED
      BY <3>1 DEF Log!Next, Log!Publish
  <2>3. ASSUME NEW r \in Readers, Reader(r)
        PROVE  [Log!Next]_(Log!vars)
    <3>1. CASE \E m \in 0..MaxBatch : PollBegin(r, m)
      BY <3>1, PollBeginAdvances
    <3>2. CASE \E i \in Batch, w \in Words : LoadWord(r, i, w)
      <4>1. UNCHANGED <<head, local_tail, overrun_count, delivered>>
        BY <3>2 DEF LoadWord, writerVars
      <4> QED
        BY <4>1 DEF Log!vars
    <3>3. CASE PollEnd(r)
      BY <3>3, PollEndAdvances
    <3> QED
      BY <2>3, <3>1, <3>2, <3>3 DEF Reader
  <2>4. CASE UNCHANGED vars
    <3>1. UNCHANGED <<head, local_tail, overrun_count, delivered>>
      BY <2>4 DEF vars
    <3> QED
      BY <3>1 DEF Log!vars
  <2> QED
    BY <2>1, <2>2, <2>3, <2>4 DEF Next, Producer
<1> QED
  BY <1>1, <1>2, InitInv, NextInv, PTL DEF Spec, ImplementsLog, Log!Spec
=============================================================================
