------------------------- MODULE BroadcastRingProofs -------------------------
(***************************************************************************)
(* BroadcastRing implements the lossy log although a write under way is    *)
(* invisible to its readers, and broadcast_poll comes back empty only to a *)
(* reader that has caught up or was lapped at every attempt: for any       *)
(* number of readers, any capacity from two up, any record size and any    *)
(* batch.                                                                  *)
(***************************************************************************)
EXTENDS BroadcastRing, RingLemmas

-----------------------------------------------------------------------------
(* The inductive invariant *)

TypeOK ==
    /\ cursor \in Nat
    /\ slots \in [0..(Capacity - 1) -> [Words -> Int]]
    /\ wpc \in {"idle", "store"}
    /\ wtodo \in SUBSET Words
    /\ read \in [Readers -> Nat]
    /\ dropped \in [Readers -> Nat]
    /\ rpc \in [Readers -> {"idle", "copy", "attempt", "check"}]
    /\ n \in [Readers -> 0..MaxBatch]
    /\ todo \in [Readers -> SUBSET (Batch \X Words)]
    /\ out \in [Readers -> [Batch -> [Words -> Int]]]
    /\ call \in [Readers -> 0..kMaxPollAttempts]
    /\ limit \in [Readers -> 0..MaxBatch]
    /\ delivered \in [Readers -> Seq([Words -> Int])]
    /\ before \in [Readers -> Nat]

\* The newest Capacity - 1 records are in their slots, whole, whether or not
\* the next write has begun.
Intact == \A i \in 0..cursor : i < cursor /\ cursor + 1 - Capacity <= i => slots[SlotOf(i)] = Whole(i)

\* The record under way is written but for the words still to do.
Storing == wpc = "store" => \A w \in Words \ wtodo : slots[SlotOf(cursor)][w] = cursor

\* No reader is ahead of the writer.
Behind == \A r \in Readers : read[r] + n[r] <= cursor

\* What a reader has copied is right, unless a later write of the slot may
\* have begun by now.
Copied(r) ==
    \A i \in 0..(n[r] - 1), w \in Words :
        <<i, w>> \notin todo[r] /\ cursor + 1 - Capacity <= read[r] + i => out[r][i][w] = read[r] + i

\* Each attempt of broadcast_poll after the first starts behind the writer,
\* and each one that came to nothing has cost at least one record, the first
\* perhaps excepted.
Attempts(r) ==
    /\ rpc[r] \in {"attempt", "check"} => call[r] > 0
    /\ rpc[r] = "idle" => call[r] = 0
    /\ rpc[r] = "copy" => n[r] > 0
    /\ call[r] > 0 => limit[r] > 0 /\ before[r] <= dropped[r]
    /\ call[r] > 1 /\ rpc[r] \in {"attempt", "copy"} => before[r] + call[r] <= dropped[r] + 2
    /\ call[r] > 1 /\ rpc[r] = "attempt" => read[r] < cursor
    /\ rpc[r] = "check" => before[r] + call[r] <= dropped[r] + 1

\* What a poll hands out when it ends now.
Returned(r) == [k \in 1..(n[r] - Lost(r)) |-> out[r][Lost(r) + k - 1]]

IInv ==
    /\ TypeOK /\ Intact /\ Storing /\ Behind
    /\ \A r \in Readers : (rpc[r] = "copy" => Copied(r)) /\ Attempts(r)

-----------------------------------------------------------------------------
(* Lemmas *)

(* A slot index is in the array, and fewer than Capacity records apart two *)
(* records have different slots.                                           *)
LEMMA SlotInRange ==
    ASSUME NEW i \in Nat
    PROVE  SlotOf(i) \in 0..(Capacity - 1)
<1>1. i \in Int /\ Capacity \in Nat \ {0}
  BY CapacityAssumption
<1> QED
  BY <1>1, ModRange DEF SlotOf

LEMMA SlotsApart ==
    ASSUME NEW i \in Nat, NEW j \in Nat, i < j, j < i + Capacity
    PROVE  SlotOf(i) # SlotOf(j)
<1>1. i \in Int /\ j \in Int /\ Capacity \in Nat \ {0}
  BY CapacityAssumption
<1>2. i % Capacity # j % Capacity
  BY <1>1, SlotsDistinct
<1> QED
  BY <1>2 DEF SlotOf

(* The part of a batch that may have been recycled is a prefix of it, and  *)
(* the rest starts no earlier than the oldest record no write has reached. *)
LEMMA LostPrefix ==
    ASSUME TypeOK, NEW r \in Readers
    PROVE  /\ Lost(r) \in 0..n[r]
           /\ \A i \in Lost(r)..(n[r] - 1) : cursor + 1 - Capacity <= read[r] + i
           /\ Lost(r) > 0 => read[r] + Lost(r) + Capacity <= cursor + 1
<1>1. read[r] \in Nat /\ n[r] \in Nat /\ Capacity \in Nat /\ cursor \in Nat
  BY CapacityAssumption, MaxBatchAssumption DEF TypeOK
<1>2. PICK old \in Nat : /\ old = OldestIntact
                         /\ old = IF cursor >= Capacity THEN cursor - Capacity + 1 ELSE 0
  <2>1. OldestIntact = IF cursor >= Capacity THEN cursor - Capacity + 1 ELSE 0
    BY DEF OldestIntact
  <2>2. OldestIntact \in Nat
    BY <1>1, <2>1
  <2> QED
    BY <2>1, <2>2
<1>3. Lost(r) = IF old > read[r] THEN IF old - read[r] < n[r] THEN old - read[r] ELSE n[r] ELSE 0
  BY <1>2 DEF Lost, Least
<1> HIDE DEF Lost
<1> QED
  BY <1>1, <1>2, <1>3

(* What the poll returns is a sequence of records. *)
LEMMA ReturnedIsSeq ==
    ASSUME TypeOK, NEW r \in Readers
    PROVE  Returned(r) \in Seq([Words -> Int])
<1> DEFINE rest == n[r] - Lost(r)
<1>1. n[r] \in 0..MaxBatch /\ MaxBatch \in Nat /\ out[r] \in [Batch -> [Words -> Int]]
  BY MaxBatchAssumption DEF TypeOK
<1>2. Lost(r) \in 0..n[r]
  BY LostPrefix
<1> HIDE DEF Lost
<1>3. rest \in Nat
  BY <1>1, <1>2
<1>4. ASSUME NEW k \in 1..rest
      PROVE  out[r][Lost(r) + k - 1] \in [Words -> Int]
  <2>1. Lost(r) + k - 1 \in Batch
    BY <1>1, <1>2 DEF Batch
  <2> QED
    BY <1>1, <2>1
<1>5. Returned(r) \in [1..rest -> [Words -> Int]]
  BY <1>4 DEF Returned
<1> QED
  BY <1>3, <1>5, FunctionIsSeq

(* Where a poll starts and how much it takes: never behind the reader and  *)
(* never past the writer; a snap lands on the oldest readable record; and  *)
(* a reader behind the writer with room for a record gets a batch.         *)
LEMMA BatchInside ==
    ASSUME TypeOK, Behind, NEW r \in Readers, NEW m \in 0..MaxBatch
    PROVE  /\ Start(r) \in Nat /\ read[r] <= Start(r) /\ Start(r) <= cursor
           /\ Start(r) # read[r] => Start(r) + Capacity = cursor + 1
           /\ Size(r, m) \in 0..MaxBatch /\ Start(r) + Size(r, m) <= cursor
           /\ m > 0 /\ read[r] < cursor => Size(r, m) > 0
<1>1. /\ read[r] \in Nat /\ cursor \in Nat /\ Capacity \in Nat /\ Capacity > 1
      /\ MaxBatch \in Nat /\ m \in Nat /\ m <= MaxBatch
  BY CapacityAssumption, MaxBatchAssumption DEF TypeOK
<1>2. read[r] <= cursor
  BY MaxBatchAssumption DEF Behind, TypeOK
<1>3. /\ Start(r) \in Nat /\ read[r] <= Start(r) /\ Start(r) <= cursor
      /\ Start(r) # read[r] => Start(r) + Capacity = cursor + 1
  BY <1>1, <1>2 DEF Start
<1>4. Size(r, m) = IF cursor - Start(r) < m THEN cursor - Start(r) ELSE m
  BY DEF Size, Least
<1> HIDE DEF Start, Size
<1> QED
  BY <1>1, <1>3, <1>4

-----------------------------------------------------------------------------
(* The invariant is inductive *)

(* The empty ring and readers that have not polled yet. *)
LEMMA InitInv == Init => IInv
<1> SUFFICES ASSUME Init PROVE IInv
  OBVIOUS
<1>1. TypeOK
  BY MaxBatchAssumption DEF Init, TypeOK, Blank, BlankBatch, NoRecord, kMaxPollAttempts
<1>2. Storing /\ Intact
  BY DEF Init, Storing, Intact
<1>3. \A r \in Readers : read[r] = 0 /\ n[r] = 0 /\ rpc[r] = "idle" /\ call[r] = 0
  BY DEF Init
<1>4. Behind
  <2> SUFFICES ASSUME NEW r \in Readers PROVE read[r] + n[r] <= cursor
    BY DEF Behind
  <2>1. read[r] = 0 /\ n[r] = 0 /\ cursor = 0
    BY <1>3 DEF Init
  <2> QED
    BY <2>1
<1>5. \A r \in Readers : Attempts(r)
  <2> SUFFICES ASSUME NEW r \in Readers PROVE Attempts(r)
    OBVIOUS
  <2>1. rpc[r] = "idle" /\ call[r] = 0
    BY <1>3
  <2>2. ~(call[r] > 0) /\ ~(call[r] > 1)
    BY <2>1
  <2> QED
    BY <2>1, <2>2 DEF Attempts
<1> QED
  BY <1>1, <1>2, <1>3, <1>4, <1>5 DEF IInv

(* A step that leaves the readers alone and takes the cursor no further    *)
(* back keeps what they have copied and what their attempts have met.      *)
LEMMA ReadersKept ==
    ASSUME IInv, cursor' \in Nat, cursor <= cursor', UNCHANGED readerVars
    PROVE  Behind' /\ \A r \in Readers : (rpc'[r] = "copy" => Copied(r)') /\ Attempts(r)'
<1>0. TypeOK /\ Behind
  BY DEF IInv
<1>1. /\ cursor \in Nat /\ Capacity \in Nat /\ MaxBatch \in Nat
      /\ read \in [Readers -> Nat] /\ n \in [Readers -> 0..MaxBatch]
  BY <1>0, CapacityAssumption, MaxBatchAssumption DEF TypeOK
<1>2. /\ read' = read /\ n' = n /\ rpc' = rpc /\ todo' = todo /\ out' = out
      /\ call' = call /\ limit' = limit /\ before' = before /\ dropped' = dropped
  BY DEF readerVars
<1>3. Behind'
  BY <1>0, <1>1, <1>2 DEF Behind
<1>4. ASSUME NEW r \in Readers, rpc'[r] = "copy"
      PROVE  Copied(r)'
  <2>1. Copied(r) /\ read[r] \in Nat /\ n[r] \in Nat
    BY <1>1, <1>2, <1>4 DEF IInv
  <2> QED
    BY <1>1, <1>2, <2>1 DEF Copied
<1>5. ASSUME NEW r \in Readers
      PROVE  Attempts(r)'
  <2>1. Attempts(r) /\ read[r] \in Nat
    BY <1>1 DEF IInv
  <2>2. read[r] < cursor => read[r] < cursor'
    BY <1>1, <2>1
  <2> QED
    BY <1>2, <2>1, <2>2 DEF Attempts
<1> QED
  BY <1>3, <1>4, <1>5

(* publish: the write begins, unseen. *)
LEMMA PublishBeginStep ==
    ASSUME IInv, PublishBegin
    PROVE  IInv'
<1>1. /\ wpc = "idle" /\ wpc' = "store" /\ wtodo' = Words /\ cursor' = cursor /\ slots' = slots
      /\ UNCHANGED readerVars
  BY DEF PublishBegin
<1>2. TypeOK /\ Intact /\ cursor \in Nat
  BY DEF IInv, TypeOK
<1>3. TypeOK'
  BY <1>1, <1>2 DEF TypeOK, readerVars
<1>4. Storing' /\ Intact'
  BY <1>1, <1>2 DEF Storing, Intact
<1>5. cursor' \in Nat /\ cursor <= cursor'
  BY <1>1, <1>2
<1>6. Behind' /\ \A r \in Readers : (rpc'[r] = "copy" => Copied(r)') /\ Attempts(r)'
  BY <1>1, <1>5, ReadersKept
<1> QED
  BY <1>3, <1>4, <1>6 DEF IInv

(* publish: one word of the record, in the slot of the record a lap older. *)
LEMMA StoreWordStep ==
    ASSUME IInv, NEW w \in Words, StoreWord(w)
    PROVE  IInv'
<1>1. /\ wpc = "store" /\ wpc' = wpc /\ wtodo' = wtodo \ {w} /\ cursor' = cursor
      /\ slots' = [slots EXCEPT ![SlotOf(cursor)][w] = cursor] /\ UNCHANGED readerVars
  BY DEF StoreWord
<1>2. TypeOK /\ Intact /\ Storing /\ cursor \in Nat /\ Capacity \in Nat
  BY CapacityAssumption DEF IInv, TypeOK
<1>3. SlotOf(cursor) \in 0..(Capacity - 1) /\ cursor \in Int
  BY <1>2, SlotInRange
<1>4. slots \in [0..(Capacity - 1) -> [Words -> Int]] /\ slots[SlotOf(cursor)] \in [Words -> Int]
  BY <1>2, <1>3 DEF TypeOK
<1>5. /\ slots' \in [0..(Capacity - 1) -> [Words -> Int]]
      /\ slots'[SlotOf(cursor)] = [slots[SlotOf(cursor)] EXCEPT ![w] = cursor]
      /\ \A k \in 0..(Capacity - 1) : k # SlotOf(cursor) => slots'[k] = slots[k]
  <2>1. [slots[SlotOf(cursor)] EXCEPT ![w] = cursor] \in [Words -> Int]
    BY <1>3, <1>4
  <2>2. slots' = [slots EXCEPT ![SlotOf(cursor)] = [slots[SlotOf(cursor)] EXCEPT ![w] = cursor]]
    BY <1>1
  <2> QED
    BY <1>3, <1>4, <2>1, <2>2
<1>6. TypeOK'
  BY <1>1, <1>2, <1>5 DEF TypeOK, readerVars
<1>7. Storing'
  <2> SUFFICES ASSUME NEW v \in Words \ wtodo'
               PROVE  slots'[SlotOf(cursor)][v] = cursor
    BY <1>1 DEF Storing
  <2>1. CASE v = w
    BY <1>4, <1>5, <2>1
  <2>2. CASE v # w
    BY <1>1, <1>2, <1>4, <1>5, <2>2 DEF Storing
  <2> QED
    BY <2>1, <2>2
<1>8. Intact'
  <2> SUFFICES ASSUME NEW i \in 0..cursor', i < cursor', cursor' + 1 - Capacity <= i
               PROVE  slots'[SlotOf(i)] = Whole(i)
    BY DEF Intact
  <2>1. i \in 0..cursor /\ i < cursor /\ cursor + 1 - Capacity <= i
    BY <1>1
  <2>2. SlotOf(i) # SlotOf(cursor) /\ SlotOf(i) \in 0..(Capacity - 1)
    BY <1>2, <2>1, SlotsApart, SlotInRange
  <2>3. slots[SlotOf(i)] = Whole(i)
    BY <1>2, <2>1 DEF Intact
  <2> QED
    BY <1>5, <2>2, <2>3
<1>9. cursor' \in Nat /\ cursor <= cursor'
  BY <1>1, <1>2
<1>10. Behind' /\ \A r \in Readers : (rpc'[r] = "copy" => Copied(r)') /\ Attempts(r)'
  BY <1>1, <1>9, ReadersKept
<1> QED
  BY <1>6, <1>7, <1>8, <1>10 DEF IInv

(* publish: the record joins the readable ones and the oldest leaves them. *)
LEMMA PublishCursorStep ==
    ASSUME IInv, PublishCursor
    PROVE  IInv'
<1>1. /\ wpc = "store" /\ wpc' = "idle" /\ wtodo = {} /\ wtodo' = wtodo /\ cursor' = cursor + 1 /\ slots' = slots
      /\ UNCHANGED readerVars
  BY DEF PublishCursor
<1>2. TypeOK /\ Intact /\ Storing /\ cursor \in Nat /\ Capacity \in Nat
  BY CapacityAssumption DEF IInv, TypeOK
<1>3. TypeOK'
  BY <1>1, <1>2 DEF TypeOK, readerVars
<1>4. Storing'
  BY <1>1 DEF Storing
<1>5. Intact'
  <2> SUFFICES ASSUME NEW i \in 0..cursor', i < cursor', cursor' + 1 - Capacity <= i
               PROVE  slots'[SlotOf(i)] = Whole(i)
    BY DEF Intact
  <2>1. i \in 0..cursor /\ cursor + 1 - Capacity <= i
    BY <1>1, <1>2
  <2>2. CASE i < cursor
    BY <1>1, <1>2, <2>1, <2>2 DEF Intact
  <2>3. CASE i = cursor
    <3>1. slots[SlotOf(cursor)] \in [Words -> Int]
      BY <1>2, SlotInRange DEF TypeOK
    <3>2. \A w \in Words : slots[SlotOf(cursor)][w] = cursor
      BY <1>1, <1>2 DEF Storing
    <3> QED
      BY <1>1, <2>3, <3>1, <3>2 DEF Whole
  <2> QED
    BY <1>2, <2>1, <2>2, <2>3
<1>6. cursor' \in Nat /\ cursor <= cursor'
  BY <1>1, <1>2
<1>7. Behind' /\ \A r \in Readers : (rpc'[r] = "copy" => Copied(r)') /\ Attempts(r)'
  BY <1>1, <1>6, ReadersKept
<1> QED
  BY <1>3, <1>4, <1>5, <1>7 DEF IInv

(* A step of one reader disturbs neither the ring nor the other readers. *)
LEMMA OneReader ==
    ASSUME IInv, NEW r \in Readers, UNCHANGED writerVars, TypeOK',
           \A s \in Readers \ {r} : /\ read'[s] = read[s] /\ n'[s] = n[s] /\ rpc'[s] = rpc[s]
                                    /\ todo'[s] = todo[s] /\ out'[s] = out[s] /\ call'[s] = call[s]
                                    /\ limit'[s] = limit[s] /\ before'[s] = before[s] /\ dropped'[s] = dropped[s],
           read'[r] + n'[r] <= cursor,
           rpc'[r] = "copy" => Copied(r)',
           Attempts(r)'
    PROVE  IInv'
<1>1. cursor' = cursor /\ slots' = slots /\ wpc' = wpc /\ wtodo' = wtodo
  BY DEF writerVars
<1>2. Intact' /\ Storing'
  BY <1>1 DEF IInv, Intact, Storing
<1>3. Behind'
  <2> SUFFICES ASSUME NEW s \in Readers
               PROVE  read'[s] + n'[s] <= cursor'
    BY DEF Behind
  <2>1. CASE s = r
    BY <1>1, <2>1
  <2>2. CASE s # r
    BY <1>1, <2>2 DEF IInv, Behind
  <2> QED
    BY <2>1, <2>2
<1>4. ASSUME NEW s \in Readers, s # r
      PROVE  (rpc'[s] = "copy" => Copied(s)') /\ Attempts(s)'
  <2>1. /\ read'[s] = read[s] /\ n'[s] = n[s] /\ rpc'[s] = rpc[s]
        /\ todo'[s] = todo[s] /\ out'[s] = out[s] /\ call'[s] = call[s]
        /\ limit'[s] = limit[s] /\ before'[s] = before[s] /\ dropped'[s] = dropped[s]
    BY <1>4
  <2>2. (rpc[s] = "copy" => Copied(s)) /\ Attempts(s)
    BY DEF IInv
  <2>3. Attempts(s)'
    BY <1>1, <2>1, <2>2 DEF Attempts
  <2>4. ASSUME rpc'[s] = "copy"
        PROVE  Copied(s)'
    <3>1. Copied(s)
      BY <2>1, <2>2, <2>4
    <3>2. cursor' = cursor /\ read'[s] = read[s] /\ n'[s] = n[s] /\ todo'[s] = todo[s] /\ out'[s] = out[s]
      BY <1>1, <2>1
    <3> QED
      BY <3>1, <3>2 DEF Copied
  <2> QED
    BY <2>3, <2>4
<1> QED
  BY <1>2, <1>3, <1>4 DEF IInv

(* poll, alone or inside broadcast_poll: the batch is chosen and nothing   *)
(* of it is copied yet; an attempt after the first always finds one.       *)
LEMMA SnapshotStep ==
    ASSUME IInv, NEW r \in Readers, NEW m \in 0..MaxBatch, NEW empty, Snapshot(r, m, empty),
           \/ rpc[r] = "idle" /\ empty = "idle"
           \/ rpc[r] = "attempt" /\ empty = "check" /\ m = limit[r]
    PROVE  IInv'
<1> DEFINE sz == Size(r, m)
<1>1. /\ read' = [read EXCEPT ![r] = Start(r)]
      /\ dropped' = [dropped EXCEPT ![r] = @ + (Start(r) - read[r])]
      /\ n' = [n EXCEPT ![r] = sz]
      /\ todo' = [todo EXCEPT ![r] = (0..(sz - 1)) \X Words]
      /\ rpc' = [rpc EXCEPT ![r] = IF sz = 0 THEN empty ELSE "copy"]
      /\ out' = out /\ call' = call /\ limit' = limit /\ delivered' = delivered /\ before' = before
      /\ UNCHANGED writerVars
  BY DEF Snapshot, Snapped
<1>2. TypeOK /\ Behind /\ Attempts(r)
  BY DEF IInv
<1>3. /\ Start(r) \in Nat /\ read[r] <= Start(r) /\ Start(r) <= cursor
      /\ sz \in 0..MaxBatch /\ Start(r) + sz <= cursor
      /\ m > 0 /\ read[r] < cursor => sz > 0
  BY <1>2, BatchInside
<1> HIDE DEF sz
<1>4. dropped[r] \in Nat /\ read[r] \in Nat /\ dropped[r] + (Start(r) - read[r]) \in Nat
  <2>1. dropped[r] \in Nat /\ read[r] \in Nat
    BY <1>2 DEF TypeOK
  <2> QED
    BY <1>3, <2>1
<1>5. TypeOK'
  <2>1. read' \in [Readers -> Nat] /\ n' \in [Readers -> 0..MaxBatch]
    BY <1>1, <1>2, <1>3 DEF TypeOK
  <2>2. dropped' \in [Readers -> Nat]
    BY <1>1, <1>2, <1>4 DEF TypeOK
  <2>3. rpc' \in [Readers -> {"idle", "copy", "attempt", "check"}]
    BY <1>1, <1>2 DEF TypeOK
  <2>4. todo' \in [Readers -> SUBSET (Batch \X Words)]
    <3>1. (0..(sz - 1)) \X Words \in SUBSET (Batch \X Words)
      <4>1. 0..(sz - 1) \subseteq Batch
        BY <1>3, MaxBatchAssumption DEF Batch
      <4> QED
        BY <4>1
    <3> QED
      BY <1>1, <1>2, <3>1 DEF TypeOK
  <2> QED
    BY <1>1, <1>2, <2>1, <2>2, <2>3, <2>4 DEF TypeOK, writerVars
<1>6. /\ read'[r] = Start(r) /\ n'[r] = sz /\ todo'[r] = (0..(sz - 1)) \X Words
      /\ rpc'[r] = (IF sz = 0 THEN empty ELSE "copy")
      /\ dropped'[r] = dropped[r] + (Start(r) - read[r])
  BY <1>1, <1>2 DEF TypeOK
<1>7. Copied(r)'
  BY <1>6 DEF Copied
<1>8. Attempts(r)'
  <2>1. /\ call[r] \in Nat /\ before[r] \in Nat /\ dropped'[r] \in Nat /\ dropped[r] <= dropped'[r]
        /\ sz \in Nat /\ cursor \in Nat
    <3>1. call[r] \in Nat /\ before[r] \in Nat /\ cursor \in Nat
      <4>1. call[r] \in 0..kMaxPollAttempts /\ before[r] \in Nat /\ cursor \in Nat
        BY <1>2 DEF TypeOK
      <4> QED
        BY <4>1 DEF kMaxPollAttempts
    <3>2. dropped'[r] \in Nat /\ dropped[r] <= dropped'[r]
      BY <1>3, <1>4, <1>6
    <3>3. sz \in Nat
      BY <1>3, MaxBatchAssumption
    <3> QED
      BY <3>1, <3>2, <3>3
  <2>2. call'[r] = call[r] /\ limit'[r] = limit[r] /\ before'[r] = before[r]
    BY <1>1
  <2>3. CASE rpc[r] = "idle" /\ empty = "idle"
    <3>1. call[r] = 0 /\ rpc'[r] \in {"idle", "copy"} /\ (rpc'[r] = "copy" => n'[r] > 0)
      BY <1>2, <1>6, <2>1, <2>3 DEF Attempts
    <3>2. call'[r] = 0 /\ ~(call'[r] > 0) /\ ~(call'[r] > 1)
      BY <2>2, <3>1
    <3> QED
      BY <3>1, <3>2 DEF Attempts
  <2>4. CASE rpc[r] = "attempt" /\ empty = "check" /\ m = limit[r]
    <3>1. /\ call[r] > 0 /\ limit[r] > 0 /\ before[r] <= dropped[r]
          /\ call[r] > 1 => before[r] + call[r] <= dropped[r] + 2
          /\ call[r] > 1 => read[r] < cursor
      BY <1>2, <2>4 DEF Attempts
    <3>2. CASE sz = 0
      <4>1. rpc'[r] = "check" /\ ~(call[r] > 1)
        BY <1>3, <1>6, <2>4, <3>1, <3>2
      <4>2. before[r] + call[r] <= dropped'[r] + 1 /\ before[r] <= dropped'[r]
        BY <1>4, <2>1, <3>1, <4>1
      <4>3. /\ call'[r] > 0 /\ limit'[r] > 0 /\ ~(call'[r] > 1) /\ before'[r] <= dropped'[r]
            /\ before'[r] + call'[r] <= dropped'[r] + 1
        BY <2>2, <3>1, <4>1, <4>2
      <4> QED
        BY <4>1, <4>3 DEF Attempts
    <3>3. CASE sz # 0
      <4>1. rpc'[r] = "copy" /\ n'[r] > 0
        BY <1>6, <2>1, <3>3
      <4>2. before[r] <= dropped'[r] /\ (call[r] > 1 => before[r] + call[r] <= dropped'[r] + 2)
        BY <1>4, <2>1, <3>1
      <4>3. limit'[r] > 0 /\ before'[r] <= dropped'[r] /\ (call'[r] > 1 => before'[r] + call'[r] <= dropped'[r] + 2)
        BY <2>2, <3>1, <4>2
      <4> QED
        BY <4>1, <4>3 DEF Attempts
    <3> QED
      BY <3>2, <3>3
  <2> QED
    BY <2>3, <2>4
<1>9. \A s \in Readers \ {r} : /\ read'[s] = read[s] /\ n'[s] = n[s] /\ rpc'[s] = rpc[s]
                               /\ todo'[s] = todo[s] /\ out'[s] = out[s] /\ call'[s] = call[s]
                               /\ limit'[s] = limit[s] /\ before'[s] = before[s] /\ dropped'[s] = dropped[s]
  BY <1>1, <1>2 DEF TypeOK
<1>10. read'[r] + n'[r] <= cursor
  BY <1>3, <1>6
<1> QED
  BY <1>1, <1>5, <1>7, <1>8, <1>9, <1>10, OneReader

(* poll: a word read from a slot the writer cannot have reached again is   *)
(* the record's own.                                                       *)
LEMMA LoadWordStep ==
    ASSUME IInv, NEW r \in Readers, NEW i \in Batch, NEW w \in Words, LoadWord(r, i, w)
    PROVE  IInv'
<1> DEFINE got == slots[SlotOf(read[r] + i)][w]
<1>1. /\ rpc[r] = "copy" /\ <<i, w>> \in todo[r]
      /\ out' = [out EXCEPT ![r][i][w] = got]
      /\ todo' = [todo EXCEPT ![r] = @ \ {<<i, w>>}]
      /\ read' = read /\ dropped' = dropped /\ rpc' = rpc /\ n' = n /\ call' = call /\ limit' = limit
      /\ delivered' = delivered /\ before' = before /\ UNCHANGED writerVars
  BY DEF LoadWord
<1>2. TypeOK /\ Behind /\ Intact /\ Copied(r)
  BY <1>1 DEF IInv
<1>3. i \in Nat /\ read[r] \in Nat /\ n[r] \in Nat /\ cursor \in Nat /\ Capacity \in Nat
  BY <1>2, MaxBatchAssumption, CapacityAssumption DEF TypeOK, Batch
<1>4. SlotOf(read[r] + i) \in 0..(Capacity - 1)
  BY <1>3, SlotInRange
<1>5. got \in Int
  BY <1>2, <1>4 DEF TypeOK
<1>6. i < n[r] /\ cursor + 1 - Capacity <= read[r] + i => got = read[r] + i
  <2> SUFFICES ASSUME i < n[r], cursor + 1 - Capacity <= read[r] + i
               PROVE  got = read[r] + i
    OBVIOUS
  <2>1. read[r] + i \in 0..cursor /\ read[r] + i < cursor
    BY <1>2, <1>3 DEF Behind
  <2>2. slots[SlotOf(read[r] + i)] = Whole(read[r] + i)
    BY <1>2, <2>1 DEF Intact
  <2> QED
    BY <2>2 DEF Whole
<1> HIDE DEF got
<1>7. /\ out[r] \in [Batch -> [Words -> Int]] /\ out[r][i] \in [Words -> Int]
      /\ out' = [out EXCEPT ![r] = [out[r] EXCEPT ![i] = [out[r][i] EXCEPT ![w] = got]]]
  BY <1>1, <1>2 DEF TypeOK
<1>8. [out[r][i] EXCEPT ![w] = got] \in [Words -> Int]
  BY <1>5, <1>7
<1>9. /\ out' \in [Readers -> [Batch -> [Words -> Int]]]
      /\ out'[r] = [out[r] EXCEPT ![i] = [out[r][i] EXCEPT ![w] = got]]
      /\ \A s \in Readers \ {r} : out'[s] = out[s]
  <2>1. [out[r] EXCEPT ![i] = [out[r][i] EXCEPT ![w] = got]] \in [Batch -> [Words -> Int]]
    BY <1>7, <1>8
  <2> QED
    BY <1>2, <1>7, <2>1 DEF TypeOK
<1>10. /\ todo' \in [Readers -> SUBSET (Batch \X Words)] /\ todo'[r] = todo[r] \ {<<i, w>>}
       /\ \A s \in Readers \ {r} : todo'[s] = todo[s]
  BY <1>1, <1>2 DEF TypeOK
<1>11. TypeOK'
  BY <1>1, <1>2, <1>9, <1>10 DEF TypeOK, writerVars
<1>12. Copied(r)'
  <2>0. cursor' = cursor
    BY <1>1 DEF writerVars
  <2> SUFFICES ASSUME NEW j \in 0..(n[r] - 1), NEW v \in Words,
                      <<j, v>> \notin todo'[r], cursor + 1 - Capacity <= read[r] + j
               PROVE  out'[r][j][v] = read[r] + j
    BY <1>1, <2>0 DEF Copied
  <2>1. CASE j = i /\ v = w
    <3>1. out'[r][i][w] = got
      BY <1>7, <1>8, <1>9
    <3> QED
      BY <1>3, <1>6, <2>1, <3>1
  <2>2. CASE j # i \/ v # w
    <3>1. <<j, v>> \notin todo[r]
      BY <1>10, <2>2
    <3>2. out[r][j][v] = read[r] + j
      BY <1>2, <3>1 DEF Copied
    <3>3. j \in Batch
      BY <1>2, MaxBatchAssumption DEF TypeOK, Batch
    <3>4. out'[r][j][v] = out[r][j][v]
      <4>1. CASE j # i
        BY <1>7, <1>9, <3>3, <4>1
      <4>2. CASE j = i /\ v # w
        BY <1>7, <1>8, <1>9, <3>3, <4>2
      <4> QED
        BY <2>2, <4>1, <4>2
    <3> QED
      BY <3>2, <3>4
  <2> QED
    BY <2>1, <2>2
<1>13. Attempts(r)'
  <2>1. Attempts(r) /\ cursor' = cursor
    BY <1>1 DEF IInv, writerVars
  <2> QED
    BY <1>1, <2>1 DEF Attempts
<1>14. \A s \in Readers \ {r} : /\ read'[s] = read[s] /\ n'[s] = n[s] /\ rpc'[s] = rpc[s]
                                /\ todo'[s] = todo[s] /\ out'[s] = out[s] /\ call'[s] = call[s]
                                /\ limit'[s] = limit[s] /\ before'[s] = before[s] /\ dropped'[s] = dropped[s]
  BY <1>1, <1>9, <1>10
<1>15. read'[r] + n'[r] <= cursor
  BY <1>1, <1>2 DEF Behind
<1> QED
  BY <1>1, <1>11, <1>12, <1>13, <1>14, <1>15, OneReader

(* poll: the batch is returned and the reader moves on.  An attempt of     *)
(* broadcast_poll that is left with nothing has lost its whole batch.      *)
LEMMA PollEndStep ==
    ASSUME IInv, NEW r \in Readers, PollEnd(r)
    PROVE  IInv'
<1> DEFINE got == n[r] - Lost(r)
<1>1. /\ rpc[r] = "copy"
      /\ read' = [read EXCEPT ![r] = @ + n[r]]
      /\ dropped' = [dropped EXCEPT ![r] = @ + Lost(r)]
      /\ delivered' = [delivered EXCEPT ![r] = @ \o Returned(r)]
      /\ rpc' = [rpc EXCEPT ![r] = IF call[r] > 0 /\ got = 0 THEN "check" ELSE "idle"]
      /\ call' = [call EXCEPT ![r] = IF got = 0 THEN @ ELSE 0]
      /\ n' = [n EXCEPT ![r] = 0] /\ out' = [out EXCEPT ![r] = BlankBatch]
      /\ todo' = todo /\ limit' = limit /\ before' = before /\ UNCHANGED writerVars
  BY DEF PollEnd, Returned
<1>2. TypeOK /\ Behind /\ Attempts(r)
  BY DEF IInv
<1>3. Lost(r) \in 0..n[r]
  BY <1>2, LostPrefix
<1>4. n[r] \in Nat /\ read[r] \in Nat /\ dropped[r] \in Nat /\ before[r] \in Nat /\ cursor \in Nat
  BY <1>2, MaxBatchAssumption DEF TypeOK
<1>5. call[r] \in 0..kMaxPollAttempts
  BY <1>2 DEF TypeOK
<1> HIDE DEF Lost, got
<1>6. got \in Nat /\ (got = 0 => Lost(r) = n[r]) /\ Lost(r) \in Nat
  BY <1>3, <1>4 DEF got
<1>7. TypeOK'
  <2>1. read' \in [Readers -> Nat]
    BY <1>1, <1>2, <1>4 DEF TypeOK
  <2>2. dropped' \in [Readers -> Nat]
    BY <1>1, <1>2, <1>4, <1>6 DEF TypeOK
  <2>3. rpc' \in [Readers -> {"idle", "copy", "attempt", "check"}]
    BY <1>1, <1>2 DEF TypeOK
  <2>4. n' \in [Readers -> 0..MaxBatch]
    BY <1>1, <1>2, MaxBatchAssumption DEF TypeOK
  <2>5. call' \in [Readers -> 0..kMaxPollAttempts]
    BY <1>1, <1>2 DEF TypeOK, kMaxPollAttempts
  <2>6. out' \in [Readers -> [Batch -> [Words -> Int]]]
    <3>1. BlankBatch \in [Batch -> [Words -> Int]]
      BY DEF BlankBatch, Blank, NoRecord
    <3> QED
      BY <1>1, <1>2, <3>1 DEF TypeOK
  <2>7. delivered' \in [Readers -> Seq([Words -> Int])]
    <3>1. Returned(r) \in Seq([Words -> Int])
      BY <1>2, ReturnedIsSeq
    <3>2. delivered[r] \in Seq([Words -> Int])
      BY <1>2 DEF TypeOK
    <3>3. delivered[r] \o Returned(r) \in Seq([Words -> Int])
      BY <3>1, <3>2
    <3> QED
      BY <1>1, <1>2, <3>3 DEF TypeOK
  <2> QED
    BY <1>1, <1>2, <2>1, <2>2, <2>3, <2>4, <2>5, <2>6, <2>7 DEF TypeOK, writerVars
<1>8. /\ read'[r] = read[r] + n[r] /\ n'[r] = 0 /\ dropped'[r] = dropped[r] + Lost(r)
      /\ rpc'[r] = (IF call[r] > 0 /\ got = 0 THEN "check" ELSE "idle")
      /\ call'[r] = (IF got = 0 THEN call[r] ELSE 0)
      /\ limit'[r] = limit[r] /\ before'[r] = before[r]
  BY <1>1, <1>2 DEF TypeOK
<1>9. rpc'[r] # "copy"
  BY <1>8
<1>10. Attempts(r)'
  <2>1. CASE call[r] > 0 /\ got = 0
    <3>1. /\ n[r] > 0 /\ limit[r] > 0 /\ before[r] <= dropped[r]
          /\ call[r] > 1 => before[r] + call[r] <= dropped[r] + 2
      BY <1>1, <1>2, <2>1 DEF Attempts
    <3>2. before[r] <= dropped'[r] /\ before[r] + call[r] <= dropped'[r] + 1
      BY <1>4, <1>5, <1>6, <1>8, <2>1, <3>1 DEF kMaxPollAttempts
    <3>3. rpc'[r] = "check" /\ call'[r] = call[r]
      BY <1>8, <2>1
    <3>4. /\ call'[r] > 0 /\ limit'[r] > 0 /\ before'[r] <= dropped'[r]
          /\ before'[r] + call'[r] <= dropped'[r] + 1
      BY <1>8, <2>1, <3>1, <3>2, <3>3
    <3> QED
      BY <3>3, <3>4 DEF Attempts
  <2>2. CASE ~(call[r] > 0 /\ got = 0)
    <3>1. rpc'[r] = "idle" /\ call'[r] = 0
      <4>1. call[r] \in Nat
        BY <1>5 DEF kMaxPollAttempts
      <4>2. got = 0 => call[r] = 0
        BY <2>2, <4>1
      <4> QED
        BY <1>8, <2>2, <4>2
    <3>2. ~(call'[r] > 0) /\ ~(call'[r] > 1)
      BY <3>1
    <3> QED
      BY <3>1, <3>2 DEF Attempts
  <2> QED
    BY <2>1, <2>2
<1>11. \A s \in Readers \ {r} : /\ read'[s] = read[s] /\ n'[s] = n[s] /\ rpc'[s] = rpc[s]
                                /\ todo'[s] = todo[s] /\ out'[s] = out[s] /\ call'[s] = call[s]
                                /\ limit'[s] = limit[s] /\ before'[s] = before[s] /\ dropped'[s] = dropped[s]
  BY <1>1, <1>2 DEF TypeOK
<1>12. read'[r] + n'[r] <= cursor
  BY <1>2, <1>4, <1>8 DEF Behind
<1> QED
  BY <1>1, <1>7, <1>9, <1>10, <1>11, <1>12, OneReader

(* broadcast_poll is called. *)
LEMMA BroadcastPollStep ==
    ASSUME IInv, NEW r \in Readers, NEW m \in 0..MaxBatch, broadcast_poll(r, m)
    PROVE  IInv'
<1>1. /\ rpc[r] = "idle" /\ m > 0
      /\ rpc' = [rpc EXCEPT ![r] = "attempt"] /\ call' = [call EXCEPT ![r] = 1]
      /\ limit' = [limit EXCEPT ![r] = m] /\ before' = [before EXCEPT ![r] = dropped[r]]
      /\ read' = read /\ dropped' = dropped /\ n' = n /\ todo' = todo /\ out' = out /\ delivered' = delivered
      /\ UNCHANGED writerVars
  BY DEF broadcast_poll
<1>2. TypeOK /\ Behind
  BY DEF IInv
<1>3. TypeOK'
  <2>1. rpc' \in [Readers -> {"idle", "copy", "attempt", "check"}]
    BY <1>1, <1>2 DEF TypeOK
  <2>2. call' \in [Readers -> 0..kMaxPollAttempts]
    <3>1. 1 \in 0..kMaxPollAttempts /\ call \in [Readers -> 0..kMaxPollAttempts]
      BY <1>2 DEF TypeOK, kMaxPollAttempts
    <3> QED
      BY <1>1, <3>1
  <2>3. limit' \in [Readers -> 0..MaxBatch] /\ before' \in [Readers -> Nat]
    BY <1>1, <1>2 DEF TypeOK
  <2> QED
    BY <1>1, <1>2, <2>1, <2>2, <2>3 DEF TypeOK, writerVars
<1>4. rpc'[r] = "attempt" /\ call'[r] = 1 /\ limit'[r] = m /\ before'[r] = dropped[r] /\ dropped'[r] = dropped[r]
  BY <1>1, <1>2 DEF TypeOK
<1>5. Attempts(r)'
  <2>1. dropped[r] \in Nat
    BY <1>2 DEF TypeOK
  <2>2. call'[r] > 0 /\ limit'[r] > 0 /\ before'[r] <= dropped'[r] /\ ~(call'[r] > 1)
    BY <1>1, <1>4, <2>1
  <2> QED
    BY <1>4, <2>2 DEF Attempts
<1>6. \A s \in Readers \ {r} : /\ read'[s] = read[s] /\ n'[s] = n[s] /\ rpc'[s] = rpc[s]
                               /\ todo'[s] = todo[s] /\ out'[s] = out[s] /\ call'[s] = call[s]
                               /\ limit'[s] = limit[s] /\ before'[s] = before[s] /\ dropped'[s] = dropped[s]
  BY <1>1, <1>2 DEF TypeOK
<1>7. read'[r] + n'[r] <= cursor /\ rpc'[r] # "copy"
  BY <1>1, <1>2, <1>4 DEF Behind
<1> QED
  BY <1>1, <1>3, <1>5, <1>6, <1>7, OneReader

(* broadcast_poll gives up, or tries again behind the writer. *)
LEMMA CheckCaughtUpStep ==
    ASSUME IInv, NEW r \in Readers, CheckCaughtUp(r)
    PROVE  IInv'
<1>1. /\ rpc[r] = "check"
      /\ read' = read /\ dropped' = dropped /\ n' = n /\ todo' = todo /\ out' = out /\ delivered' = delivered
      /\ limit' = limit /\ before' = before /\ UNCHANGED writerVars
  BY DEF CheckCaughtUp
<1>2. TypeOK /\ Behind /\ Attempts(r)
  BY DEF IInv
<1>3. /\ read[r] \in Nat /\ dropped[r] \in Nat /\ before[r] \in Nat /\ cursor \in Nat
      /\ call[r] \in 0..kMaxPollAttempts
  BY <1>2 DEF TypeOK
<1>4. /\ call[r] > 0 /\ limit[r] > 0 /\ before[r] <= dropped[r] /\ before[r] + call[r] <= dropped[r] + 1
  BY <1>1, <1>2 DEF Attempts
<1>5. PICK pc \in {"idle", "attempt"}, c \in 0..kMaxPollAttempts :
        /\ rpc' = [rpc EXCEPT ![r] = pc] /\ call' = [call EXCEPT ![r] = c]
        /\ \/ pc = "idle" /\ c = 0
           \/ pc = "attempt" /\ c = call[r] + 1 /\ read[r] < cursor
  <2>1. CASE read[r] >= cursor \/ LastAttempt(r)
    <3>1. rpc' = [rpc EXCEPT ![r] = "idle"] /\ call' = [call EXCEPT ![r] = 0] /\ 0 \in 0..kMaxPollAttempts
      BY <2>1 DEF CheckCaughtUp, kMaxPollAttempts
    <3> QED
      BY <3>1
  <2>2. CASE ~(read[r] >= cursor \/ LastAttempt(r))
    <3>1. rpc' = [rpc EXCEPT ![r] = "attempt"] /\ call' = [call EXCEPT ![r] = call[r] + 1]
      BY <2>2 DEF CheckCaughtUp
    <3>2. call[r] + 1 \in 0..kMaxPollAttempts
      BY <1>3, <2>2 DEF LastAttempt, kMaxPollAttempts
    <3>3. read[r] < cursor
      BY <1>3, <2>2
    <3> QED
      BY <3>1, <3>2, <3>3
  <2> QED
    BY <2>1, <2>2
<1>6. TypeOK'
  <2>1. rpc' \in [Readers -> {"idle", "copy", "attempt", "check"}]
    BY <1>2, <1>5 DEF TypeOK
  <2>2. call' \in [Readers -> 0..kMaxPollAttempts]
    BY <1>2, <1>5 DEF TypeOK
  <2> QED
    BY <1>1, <1>2, <2>1, <2>2 DEF TypeOK, writerVars
<1>7. rpc'[r] = pc /\ call'[r] = c
  BY <1>2, <1>5 DEF TypeOK
<1>8. Attempts(r)'
  <2>0. cursor' = cursor /\ read'[r] = read[r] /\ dropped'[r] = dropped[r] /\ limit'[r] = limit[r] /\ before'[r] = before[r]
    BY <1>1 DEF writerVars
  <2>1. CASE pc = "idle" /\ c = 0
    <3>1. rpc'[r] = "idle" /\ call'[r] = 0 /\ ~(call'[r] > 0) /\ ~(call'[r] > 1)
      BY <1>7, <2>1
    <3> QED
      BY <3>1 DEF Attempts
  <2>2. CASE pc = "attempt" /\ c = call[r] + 1 /\ read[r] < cursor
    <3>0. call[r] \in Nat /\ call'[r] = call[r] + 1
      BY <1>3, <1>7, <2>2 DEF kMaxPollAttempts
    <3>1. rpc'[r] = "attempt" /\ call'[r] > 0 /\ limit'[r] > 0 /\ before'[r] <= dropped'[r]
      <4>1. rpc'[r] = "attempt" /\ limit'[r] > 0 /\ before'[r] <= dropped'[r]
        BY <1>4, <1>7, <2>0, <2>2
      <4>2. call'[r] > 0
        BY <3>0
      <4> QED
        BY <4>1, <4>2
    <3>2. before'[r] + call'[r] <= dropped'[r] + 2 /\ read'[r] < cursor'
      <4>0. before[r] \in Nat /\ dropped[r] \in Nat /\ call[r] \in Nat /\ before[r] + call[r] <= dropped[r] + 1
        BY <1>3, <1>4, <3>0
      <4>1. before[r] + (call[r] + 1) <= dropped[r] + 2
        BY <4>0
      <4>2. before'[r] + call'[r] <= dropped'[r] + 2
        BY <2>0, <3>0, <4>1
      <4>3. read'[r] < cursor'
        BY <2>0, <2>2
      <4> QED
        BY <4>2, <4>3
    <3> QED
      BY <3>1, <3>2 DEF Attempts
  <2> QED
    BY <1>5, <2>1, <2>2
<1>9. \A s \in Readers \ {r} : /\ read'[s] = read[s] /\ n'[s] = n[s] /\ rpc'[s] = rpc[s]
                               /\ todo'[s] = todo[s] /\ out'[s] = out[s] /\ call'[s] = call[s]
                               /\ limit'[s] = limit[s] /\ before'[s] = before[s] /\ dropped'[s] = dropped[s]
  BY <1>1, <1>2, <1>5 DEF TypeOK
<1>10. read'[r] + n'[r] <= cursor /\ rpc'[r] # "copy"
  BY <1>1, <1>2, <1>5, <1>7 DEF Behind
<1> QED
  BY <1>1, <1>6, <1>8, <1>9, <1>10, OneReader

(* The two places poll starts from. *)
LEMMA PollStarts ==
    ASSUME IInv, NEW r \in Readers,
           (\E m \in 0..MaxBatch : PollBegin(r, m)) \/ Attempt(r)
    PROVE  \E m \in 0..MaxBatch, empty \in {"idle", "check"} :
             /\ Snapshot(r, m, empty)
             /\ \/ rpc[r] = "idle" /\ empty = "idle"
                \/ rpc[r] = "attempt" /\ empty = "check" /\ m = limit[r]
<1>1. CASE \E m \in 0..MaxBatch : PollBegin(r, m)
  BY <1>1 DEF PollBegin
<1>2. CASE Attempt(r)
  <2>1. limit[r] \in 0..MaxBatch
    BY DEF IInv, TypeOK
  <2> QED
    BY <1>2, <2>1 DEF Attempt
<1> QED
  BY <1>1, <1>2

(* Every step of the writer and of any reader keeps the invariant. *)
LEMMA NextInv == IInv /\ [Next]_vars => IInv'
<1> SUFFICES ASSUME IInv, [Next]_vars PROVE IInv'
  OBVIOUS
<1>1. CASE PublishBegin
  BY <1>1, PublishBeginStep
<1>2. CASE \E w \in Words : StoreWord(w)
  BY <1>2, StoreWordStep
<1>3. CASE PublishCursor
  BY <1>3, PublishCursorStep
<1>4. ASSUME NEW r \in Readers, Reader(r)
      PROVE  IInv'
  <2>1. CASE (\E m \in 0..MaxBatch : PollBegin(r, m)) \/ Attempt(r)
    BY <2>1, PollStarts, SnapshotStep
  <2>2. CASE \E m \in 0..MaxBatch : broadcast_poll(r, m)
    BY <2>2, BroadcastPollStep
  <2>3. CASE \E i \in Batch, w \in Words : LoadWord(r, i, w)
    BY <2>3, LoadWordStep
  <2>4. CASE PollEnd(r)
    BY <2>4, PollEndStep
  <2>5. CASE CheckCaughtUp(r)
    BY <2>5, CheckCaughtUpStep
  <2> QED
    BY <1>4, <2>1, <2>2, <2>3, <2>4, <2>5 DEF Reader
<1>5. CASE UNCHANGED vars
  <2>1. UNCHANGED writerVars /\ UNCHANGED readerVars /\ cursor' = cursor
    BY <1>5 DEF vars, writerVars, readerVars
  <2>2. TypeOK'
    BY <2>1 DEF IInv, TypeOK, writerVars, readerVars
  <2>3. Storing' /\ Intact'
    BY <2>1 DEF IInv, Storing, Intact, writerVars
  <2>4. cursor' \in Nat /\ cursor <= cursor'
    BY <2>1 DEF IInv, TypeOK
  <2>5. Behind' /\ \A r \in Readers : (rpc'[r] = "copy" => Copied(r)') /\ Attempts(r)'
    BY <2>1, <2>4, ReadersKept
  <2> QED
    BY <2>2, <2>3, <2>5 DEF IInv
<1> QED
  BY <1>1, <1>2, <1>3, <1>4, <1>5 DEF Next, Writer

-----------------------------------------------------------------------------
(* The refinement *)

(* A poll that snaps takes the log's skip, and hands out nothing. *)
LEMMA SnapshotAdvances ==
    ASSUME IInv, NEW r \in Readers, NEW m \in 0..MaxBatch, NEW empty, Snapshot(r, m, empty)
    PROVE  Log!Next
<1> DEFINE skip == Start(r) - read[r]
<1>1. TypeOK /\ Behind
  BY DEF IInv
<1>2. /\ Start(r) \in Nat /\ read[r] <= Start(r) /\ Start(r) <= cursor
      /\ Start(r) # read[r] => Start(r) + Capacity = cursor + 1
  BY <1>1, BatchInside
<1>3. read[r] \in Nat /\ cursor \in Nat /\ Capacity \in Nat
  BY <1>1, CapacityAssumption DEF TypeOK
<1>4. skip \in 0..cursor /\ 0 \in 0..cursor /\ read[r] + skip + 0 = Start(r)
  BY <1>2, <1>3
<1>5. read[r] + skip + 0 <= cursor /\ (skip > 0 => read[r] + skip + Capacity <= cursor + 1)
  BY <1>2, <1>3
<1>6. read' = [read EXCEPT ![r] = @ + skip + 0]
  BY <1>4 DEF Snapshot
<1>7. dropped' = [dropped EXCEPT ![r] = @ + skip]
  BY DEF Snapshot, Snapped
<1>8. delivered' = [delivered EXCEPT ![r] = @ \o [k \in 1..0 |-> Whole(read[r] + skip + k - 1)]]
  <2> DEFINE none == [k \in 1..0 |-> Whole(read[r] + skip + k - 1)]
  <2>1. none \in Seq({}) /\ Len(none) = 0
    <3>1. none \in [1..0 -> {}]
      OBVIOUS
    <3> QED
      BY <3>1, FunctionIsSeq
  <2>2. delivered \in [Readers -> Seq([Words -> Int])] /\ delivered' = delivered
    BY <1>1 DEF TypeOK, Snapshot
  <2>3. delivered[r] \o none = delivered[r]
    <3>1. none = <<>>
      BY <2>1
    <3> QED
      BY <2>2, <3>1
  <2> QED
    BY <2>2, <2>3
<1>9. cursor' = cursor
  BY DEF Snapshot, writerVars
<1> QED
  BY <1>4, <1>5, <1>6, <1>7, <1>8, <1>9 DEF Log!Next, Log!Advance

(* A poll that ends skips the part of its batch that may have been         *)
(* recycled and hands out the rest, every record whole.                    *)
LEMMA PollEndAdvances ==
    ASSUME IInv, NEW r \in Readers, PollEnd(r)
    PROVE  Log!Next
<1> DEFINE skip == Lost(r)
           take == n[r] - Lost(r)
<1>1. TypeOK /\ Behind /\ Copied(r) /\ todo[r] = {}
  BY DEF IInv, PollEnd
<1>2. /\ n[r] \in Nat /\ read[r] \in Nat /\ cursor \in Nat /\ Capacity \in Nat
      /\ MaxBatch \in Nat /\ n[r] <= MaxBatch /\ read[r] + n[r] <= cursor
  BY <1>1, CapacityAssumption, MaxBatchAssumption DEF TypeOK, Behind
<1>3. /\ skip \in 0..n[r]
      /\ \A i \in skip..(n[r] - 1) : cursor + 1 - Capacity <= read[r] + i
      /\ skip > 0 => read[r] + skip + Capacity <= cursor + 1
  BY <1>1, LostPrefix
<1>4. /\ read' = [read EXCEPT ![r] = @ + n[r]]
      /\ dropped' = [dropped EXCEPT ![r] = @ + skip]
      /\ delivered' = [delivered EXCEPT ![r] = @ \o Returned(r)]
      /\ cursor' = cursor
  BY DEF PollEnd, Returned, writerVars
<1>5. Returned(r) = [k \in 1..take |-> Whole(read[r] + skip + k - 1)]
  <2> SUFFICES ASSUME NEW k \in 1..take
               PROVE  out[r][skip + k - 1] = Whole(read[r] + skip + k - 1)
    BY DEF Returned
  <2> HIDE DEF skip
  <2>1. /\ skip + k - 1 \in 0..(n[r] - 1) /\ skip + k - 1 \in skip..(n[r] - 1)
        /\ read[r] + (skip + k - 1) = read[r] + skip + k - 1
        /\ skip + k - 1 \in 0..(MaxBatch - 1)
    BY <1>2, <1>3 DEF skip
  <2>2. out[r][skip + k - 1] \in [Words -> Int]
    <3>1. skip + k - 1 \in Batch
      BY <2>1 DEF Batch
    <3> QED
      BY <1>1, <3>1 DEF TypeOK
  <2>3. \A w \in Words : out[r][skip + k - 1][w] = read[r] + (skip + k - 1)
    BY <1>1, <1>3, <2>1 DEF Copied
  <2> QED
    BY <2>1, <2>2, <2>3 DEF Whole
<1> HIDE DEF skip, take
<1>6. take \in Nat /\ skip \in Nat /\ skip + take = n[r] /\ read[r] + skip + take = read[r] + n[r]
  <2>1. take = n[r] - skip
    BY DEF skip, take
  <2>2. take \in Nat /\ skip \in Nat /\ skip + take = n[r]
    BY <1>2, <1>3, <2>1
  <2> QED
    BY <1>2, <2>2
<1>7. skip \in 0..cursor /\ take \in 0..cursor /\ read[r] + skip + take <= cursor
  BY <1>2, <1>3, <1>6
<1>8. read' = [read EXCEPT ![r] = @ + skip + take]
  BY <1>4, <1>6
<1>9. delivered' = [delivered EXCEPT ![r] = @ \o [k \in 1..take |-> Whole(read[r] + skip + k - 1)]]
  BY <1>4, <1>5
<1> QED
  BY <1>3, <1>4, <1>7, <1>8, <1>9 DEF Log!Next, Log!Advance

(* BroadcastRing implements the lossy log: although nothing tells a reader *)
(* that a write is under way, what poll returns are whole records in the   *)
(* order of publication, and every record passed over is counted and was   *)
(* out of the newest Capacity - 1.                                         *)
THEOREM Refinement == Spec => ImplementsLog
<1>1. Init => Log!Init
  BY DEF Init, Log!Init
<1>2. IInv /\ [Next]_vars => [Log!Next]_(Log!vars)
  <2> SUFFICES ASSUME IInv, [Next]_vars PROVE [Log!Next]_(Log!vars)
    OBVIOUS
  <2>1. CASE PublishBegin \/ (\E w \in Words : StoreWord(w))
    <3>1. UNCHANGED <<cursor, read, dropped, delivered>>
      BY <2>1 DEF PublishBegin, StoreWord, readerVars
    <3> QED
      BY <3>1 DEF Log!vars
  <2>2. CASE PublishCursor
    <3>1. cursor' = cursor + 1 /\ UNCHANGED <<read, dropped, delivered>>
      BY <2>2 DEF PublishCursor, readerVars
    <3> QED
      BY <3>1 DEF Log!Next, Log!Publish
  <2>3. ASSUME NEW r \in Readers, Reader(r)
        PROVE  [Log!Next]_(Log!vars)
    <3>1. CASE (\E m \in 0..MaxBatch : PollBegin(r, m)) \/ Attempt(r)
      BY <3>1, PollStarts, SnapshotAdvances
    <3>2. CASE (\E m \in 0..MaxBatch : broadcast_poll(r, m)) \/ CheckCaughtUp(r)
      <4>1. UNCHANGED <<cursor, read, dropped, delivered>>
        BY <3>2 DEF broadcast_poll, CheckCaughtUp, writerVars
      <4> QED
        BY <4>1 DEF Log!vars
    <3>3. CASE \E i \in Batch, w \in Words : LoadWord(r, i, w)
      <4>1. UNCHANGED <<cursor, read, dropped, delivered>>
        BY <3>3 DEF LoadWord, writerVars
      <4> QED
        BY <4>1 DEF Log!vars
    <3>4. CASE PollEnd(r)
      BY <3>4, PollEndAdvances
    <3> QED
      BY <2>3, <3>1, <3>2, <3>3, <3>4 DEF Reader
  <2>4. CASE UNCHANGED vars
    <3>1. UNCHANGED <<cursor, read, dropped, delivered>>
      BY <2>4 DEF vars
    <3> QED
      BY <3>1 DEF Log!vars
  <2> QED
    BY <2>1, <2>2, <2>3, <2>4 DEF Next, Writer
<1> QED
  BY <1>1, <1>2, InitInv, NextInv, PTL DEF Spec, ImplementsLog, Log!Spec

-----------------------------------------------------------------------------
(* broadcast_poll *)

(* Only the check ends a broadcast_poll that stands at its check. *)
LEMMA OnlyTheCheck ==
    ASSUME IInv, Next, NEW r \in Readers, rpc[r] = "check", rpc'[r] = "idle"
    PROVE  CheckCaughtUp(r)
<1>1. rpc \in [Readers -> {"idle", "copy", "attempt", "check"}]
  BY DEF IInv, TypeOK
<1>2. CASE Writer
  BY <1>2 DEF Writer, PublishBegin, StoreWord, PublishCursor, readerVars
<1>3. ASSUME NEW s \in Readers, Reader(s)
      PROVE  CheckCaughtUp(r)
  <2>1. CASE s = r
    <3>1. ~Attempt(r) /\ ~PollEnd(r)
      BY DEF Attempt, PollEnd
    <3>2. \A m \in 0..MaxBatch : ~PollBegin(r, m) /\ ~broadcast_poll(r, m)
      BY DEF PollBegin, broadcast_poll
    <3>3. \A i \in Batch, w \in Words : ~LoadWord(r, i, w)
      BY DEF LoadWord
    <3> QED
      BY <1>3, <2>1, <3>1, <3>2, <3>3 DEF Reader
  <2>2. CASE s # r
    <3>1. CASE (\E m \in 0..MaxBatch : PollBegin(s, m)) \/ Attempt(s)
      BY <1>1, <2>2, <3>1 DEF PollBegin, Attempt, Snapshot
    <3>2. CASE \E m \in 0..MaxBatch : broadcast_poll(s, m)
      BY <1>1, <2>2, <3>2 DEF broadcast_poll
    <3>3. CASE \E i \in Batch, w \in Words : LoadWord(s, i, w)
      BY <3>3 DEF LoadWord
    <3>4. CASE PollEnd(s)
      BY <1>1, <2>2, <3>4 DEF PollEnd
    <3>5. CASE CheckCaughtUp(s)
      BY <1>1, <2>2, <3>5 DEF CheckCaughtUp
    <3> QED
      BY <1>3, <3>1, <3>2, <3>3, <3>4, <3>5 DEF Reader
  <2> QED
    BY <2>1, <2>2
<1> QED
  BY <1>2, <1>3 DEF Next

(* A broadcast_poll that returns nothing has caught up with the writer, or *)
(* every attempt but the first has cost it a record.                       *)
THEOREM EmptyPoll == Spec => NothingMeansCaughtUp
<1> DEFINE Empty(r) == rpc[r] = "check" /\ rpc'[r] = "idle"
           Excused(r) == read[r] >= cursor \/ dropped[r] - before[r] >= kMaxPollAttempts - 1
<1>1. IInv /\ [Next]_vars => [\A r \in Readers : Empty(r) => Excused(r)]_vars
  <2> SUFFICES ASSUME IInv, Next, NEW r \in Readers, Empty(r)
               PROVE  Excused(r)
    OBVIOUS
  <2>1. CheckCaughtUp(r)
    BY OnlyTheCheck
  <2>2. TypeOK /\ Attempts(r)
    BY DEF IInv
  <2>3. dropped[r] \in Nat /\ before[r] \in Nat /\ call[r] \in 0..kMaxPollAttempts
    BY <2>2 DEF TypeOK
  <2>4. before[r] + call[r] <= dropped[r] + 1
    BY <2>2 DEF Attempts
  <2>5. read[r] >= cursor \/ LastAttempt(r)
    <3> SUFFICES ASSUME ~(read[r] >= cursor \/ LastAttempt(r)) PROVE FALSE
      OBVIOUS
    <3>1. rpc' = [rpc EXCEPT ![r] = "attempt"] /\ rpc \in [Readers -> {"idle", "copy", "attempt", "check"}]
      BY <2>1, <2>2 DEF CheckCaughtUp, TypeOK
    <3> QED
      BY <3>1
  <2> QED
    BY <2>3, <2>4, <2>5 DEF LastAttempt, kMaxPollAttempts
<1> QED
  BY <1>1, InitInv, NextInv, PTL DEF Spec, NothingMeansCaughtUp
=============================================================================
