------------------------------- MODULE ShmRing -------------------------------
(***************************************************************************)
(* animus::sys::ipc::ShmRing<T> (include/animus/shm_ipc.hpp): one producer *)
(* and one consumer process over a mapped ring.  try_push refuses when the *)
(* ring is full; push_overwrite reclaims the oldest record instead, by a   *)
(* compare-exchange on the tail the consumer also writes, inside a write   *)
(* section of the index-coded seqlock.  try_pop validates its copy by its  *)
(* own tail until the first reclaim, and by write_seq from then on.        *)
(*                                                                         *)
(* One step is one access to shared memory; dropped_count, which only the  *)
(* producer writes, goes with the exchange that precedes it.  The build is *)
(* the shipping one, ANIMUS_SEQLOCK_STRICT = 0.                            *)
(***************************************************************************)
EXTENDS Integers, Sequences, FiniteSets

CONSTANTS
    Capacity,              \* slots in the ring
    Words,                 \* word positions of one record
    SpuriousFailure,       \* whether compare_exchange_weak can fail spuriously
    kMaxReclaimAttempts,
    kMaxSeqlockAttempts,
    MaxRecords             \* bound: records pushed

ASSUME CapacityAssumption == Capacity \in Nat \ {0}
ASSUME FlagAssumption == SpuriousFailure \in BOOLEAN
ASSUME AttemptsAssumption == kMaxReclaimAttempts \in Nat /\ kMaxSeqlockAttempts \in Nat
ASSUME MaxRecordsAssumption == MaxRecords \in Nat

VARIABLES
    head, tail, write_seq, overwrite_active, dropped_count,   \* shared header
    slots,                     \* shared: the payload array
    ppc, ptail, ptries, ptodo, \* producer: step, tail as it knows it, exchanges tried, words to write
    cpc, ctail, chead,         \* consumer: step, the tail and head it works with
    attempt, ctodo, out,       \* consumer: seqlock attempts, words to read, snapshot
    popped,                    \* history: the records try_pop has returned
    rescued                    \* history: how many of them were reclaimed before tail was stored

header == <<head, tail, write_seq, overwrite_active, dropped_count>>
producerVars == <<ppc, ptail, ptries, ptodo>>
consumerVars == <<cpc, ctail, chead, attempt, ctodo, out, popped, rescued>>
vars == <<head, tail, write_seq, overwrite_active, dropped_count, slots, ppc, ptail,
          ptries, ptodo, cpc, ctail, chead, attempt, ctodo, out, popped, rescued>>

NoRecord == -1      \* the zero-filled memory of a fresh segment
SlotOf(i) == i % Capacity
Blank == [w \in Words |-> NoRecord]

begin_value(w) == 2 * w + 1
end_value(w) == 2 * (w + 1)

oldest_intact(seq) ==
    LET begun == (seq + 1) \div 2
    IN  IF begun > Capacity THEN begun - Capacity ELSE 0

lapped(seq, i) == i < oldest_intact(seq)

Init ==
    /\ head = 0 /\ tail = 0
    /\ write_seq = 0
    /\ overwrite_active = 0
    /\ dropped_count = 0
    /\ slots = [k \in 0..(Capacity - 1) |-> Blank]
    /\ ppc = "idle" /\ ptail = 0 /\ ptries = 0 /\ ptodo = {}
    /\ cpc = "idle" /\ ctail = 0 /\ chead = 0 /\ attempt = 0 /\ ctodo = {} /\ out = Blank
    /\ popped = <<>> /\ rescued = 0

-----------------------------------------------------------------------------
(* Producer *)

\* Mutant: off by one in the check for a free slot.
HasRoom_OneTooMany == head - tail <= Capacity

HasRoom == head - tail < Capacity

\* A push that sees a free slot: try_push, or push_overwrite's first branch.
\* try_push on a full ring returns false and changes nothing.
PushFree ==
    /\ ppc = "idle"
    /\ head < MaxRecords
    /\ HasRoom
    /\ ppc' = "free"
    /\ ptodo' = Words
    /\ UNCHANGED <<header, slots, ptail, ptries, consumerVars>>

PublishFree ==
    /\ ppc = "free"
    /\ ptodo = {}
    /\ head' = head + 1
    /\ ppc' = "idle"
    /\ UNCHANGED <<tail, write_seq, overwrite_active, dropped_count, slots, ptail, ptries, ptodo, consumerVars>>

\* push_overwrite on a full ring.
PushFull ==
    /\ ppc = "idle"
    /\ head < MaxRecords
    /\ ~HasRoom
    /\ ptail' = tail
    /\ ppc' = IF write_seq = 0 THEN "activate" ELSE "announce"
    /\ UNCHANGED <<header, slots, ptries, ptodo, consumerVars>>

Activate ==
    /\ ppc = "activate"
    /\ overwrite_active' = 1
    /\ ppc' = "announce"
    /\ UNCHANGED <<head, tail, write_seq, dropped_count, slots, ptail, ptries, ptodo, consumerVars>>

Announce ==
    /\ ppc = "announce"
    /\ write_seq' = begin_value(head)
    /\ ppc' = "reclaim"
    /\ UNCHANGED <<head, tail, overwrite_active, dropped_count, slots, ptail, ptries, ptodo, consumerVars>>

floor == head - Capacity + 1

BeginStore ==
    /\ ppc' = "store"
    /\ ptodo' = Words
    /\ ptail' = 0
    /\ ptries' = 0

ReclaimSucceeds ==
    /\ ppc = "reclaim"
    /\ ptail < floor /\ ptries < kMaxReclaimAttempts
    /\ tail = ptail
    /\ tail' = floor
    /\ dropped_count' = dropped_count + 1
    /\ BeginStore
    /\ UNCHANGED <<head, write_seq, overwrite_active, slots, consumerVars>>

ReclaimFails ==
    /\ ppc = "reclaim"
    /\ ptail < floor /\ ptries < kMaxReclaimAttempts
    /\ tail # ptail \/ SpuriousFailure
    /\ ptail' = tail
    /\ ptries' = ptries + 1
    /\ UNCHANGED <<header, slots, ppc, ptodo, consumerVars>>

\* Mutant: counts a drop although the consumer freed the slot itself.
ReclaimOver_Counts ==
    /\ ppc = "reclaim"
    /\ ptail >= floor \/ ptries = kMaxReclaimAttempts
    /\ BeginStore
    /\ dropped_count' = dropped_count + 1
    /\ UNCHANGED <<head, tail, write_seq, overwrite_active, slots, consumerVars>>

ReclaimOver ==
    /\ ppc = "reclaim"
    /\ ptail >= floor \/ ptries = kMaxReclaimAttempts
    /\ BeginStore
    /\ UNCHANGED <<header, slots, consumerVars>>

\* One word of the slot copy, of either branch.
StoreWord(w) ==
    /\ ppc \in {"free", "store"}
    /\ w \in ptodo
    /\ slots' = [slots EXCEPT ![SlotOf(head)][w] = head]
    /\ ptodo' = ptodo \ {w}
    /\ UNCHANGED <<header, ppc, ptail, ptries, consumerVars>>

EndWrite ==
    /\ ppc = "store"
    /\ ptodo = {}
    /\ write_seq' = end_value(head)
    /\ ppc' = "publish"
    /\ UNCHANGED <<head, tail, overwrite_active, dropped_count, slots, ptail, ptries, ptodo, consumerVars>>

PublishHead ==
    /\ ppc = "publish"
    /\ head' = head + 1
    /\ ppc' = "idle"
    /\ UNCHANGED <<tail, write_seq, overwrite_active, dropped_count, slots, ptail, ptries, ptodo, consumerVars>>

-----------------------------------------------------------------------------
(* Consumer: try_pop, then try_pop_seqlock *)

\* The end of a call: what it worked with goes out of scope.
Return ==
    /\ cpc' = "idle"
    /\ ctail' = 0 /\ chead' = 0 /\ attempt' = 0 /\ ctodo' = {} /\ out' = Blank

PopBegin ==
    /\ cpc = "idle"
    /\ ctail' = tail
    /\ cpc' = "head"
    /\ UNCHANGED <<header, slots, chead, attempt, ctodo, out, popped, rescued, producerVars>>

PopReadHead ==
    /\ cpc = "head"
    /\ chead' = head
    /\ cpc' = "route"
    /\ UNCHANGED <<header, slots, ctail, attempt, ctodo, out, popped, rescued, producerVars>>

PopEmpty ==
    /\ cpc = "route"
    /\ overwrite_active = 0
    /\ ctail = chead
    /\ Return
    /\ UNCHANGED <<header, slots, popped, rescued, producerVars>>

PopFast ==
    /\ cpc = "route"
    /\ overwrite_active = 0
    /\ ctail # chead
    /\ cpc' = "fast"
    /\ ctodo' = Words
    /\ UNCHANGED <<header, slots, ctail, chead, attempt, out, popped, rescued, producerVars>>

\* Mutant: trusts the copy without reading tail again.
TailUnmoved_NoRecheck == TRUE

TailUnmoved == tail = ctail

\* The re-read of tail after the copy.
FastValidate ==
    /\ cpc = "fast"
    /\ ctodo = {}
    /\ cpc' = IF TailUnmoved THEN "retire" ELSE "seqlock"
    /\ UNCHANGED <<header, slots, ctail, chead, attempt, ctodo, out, popped, rescued, producerVars>>

\* try_pop_seqlock reads the tail afresh.
SeqlockBegin ==
    /\ cpc = "seqlock" \/ (cpc = "route" /\ overwrite_active # 0)
    /\ ctail' = tail
    /\ chead' = 0
    /\ cpc' = "loop"
    /\ UNCHANGED <<header, slots, attempt, ctodo, out, popped, rescued, producerVars>>

\* Mutant: a stale tail is walked forward one record at a time.
Clamped_Never == ctail

\* Mutant: the correction passes over a live record.
Clamped_OneTooFar == IF head - ctail > Capacity THEN head - Capacity + 1 ELSE ctail

\* The tail corrected by the head just read: a stale store left it behind.
Clamped == IF head - ctail > Capacity THEN head - Capacity ELSE ctail

SeqlockAttempt ==
    /\ cpc = "loop"
    /\ attempt < kMaxSeqlockAttempts
    /\ Clamped # head
    /\ ctail' = Clamped
    /\ cpc' = "copy"
    /\ ctodo' = Words
    /\ UNCHANGED <<header, slots, chead, attempt, out, popped, rescued, producerVars>>

\* Nothing to read, or too many records reclaimed under this call.
SeqlockGivesUp ==
    /\ cpc = "loop"
    /\ attempt = kMaxSeqlockAttempts \/ Clamped = head
    /\ Return
    /\ UNCHANGED <<header, slots, popped, rescued, producerVars>>

\* One word of the snapshot, on either route.
LoadWord(w) ==
    /\ cpc \in {"fast", "copy"}
    /\ w \in ctodo
    /\ out' = [out EXCEPT ![w] = slots[SlotOf(ctail)][w]]
    /\ ctodo' = ctodo \ {w}
    /\ UNCHANGED <<header, slots, cpc, ctail, chead, attempt, popped, rescued, producerVars>>

SeqlockValidate ==
    /\ cpc = "copy"
    /\ ctodo = {}
    /\ IF lapped(write_seq, ctail)
       THEN cpc' = "loop" /\ ctail' = ctail + 1 /\ attempt' = attempt + 1
       ELSE cpc' = "retire" /\ UNCHANGED <<ctail, attempt>>
    /\ UNCHANGED <<header, slots, chead, ctodo, out, popped, rescued, producerVars>>

\* The validated record is handed over, and tail + 1 stored unconditionally.
Retire ==
    /\ cpc = "retire"
    /\ tail' = ctail + 1
    /\ popped' = Append(popped, out)
    /\ rescued' = IF tail > ctail THEN rescued + 1 ELSE rescued
    /\ Return
    /\ UNCHANGED <<head, write_seq, overwrite_active, dropped_count, slots, producerVars>>

-----------------------------------------------------------------------------
Producer ==
    \/ PushFree \/ PublishFree
    \/ PushFull \/ Activate \/ Announce
    \/ ReclaimSucceeds \/ ReclaimFails \/ ReclaimOver
    \/ \E w \in Words : StoreWord(w)
    \/ EndWrite \/ PublishHead

Consumer ==
    \/ PopBegin \/ PopReadHead \/ PopEmpty \/ PopFast \/ FastValidate
    \/ SeqlockBegin \/ SeqlockAttempt \/ SeqlockGivesUp \/ SeqlockValidate
    \/ \E w \in Words : LoadWord(w)
    \/ Retire

Next == Producer \/ Consumer

Spec == Init /\ [][Next]_vars

(* The consumer keeps calling try_pop, and no step of it waits.  Nothing   *)
(* is assumed of the producer: it may stop, or be killed, anywhere.        *)
FairSpec == Spec /\ WF_vars(Consumer)

-----------------------------------------------------------------------------
(* Properties *)

Whole(i) == [w \in Words |-> i]

\* Each record try_pop returns is one push, whole, and later than every record returned before.
IntactInOrder ==
    /\ \A k \in DOMAIN popped : \E i \in 0..(head - 1) : popped[k] = Whole(i)
    /\ \A j, k \in DOMAIN popped, w \in Words : j < k => popped[j][w] < popped[k][w]

\* A push that takes the free-slot branch writes with plain stores, outside
\* the seqlock, so the slot it fills is not one the consumer is copying.
FreeSlotUnread ==
    ppc = "free" /\ cpc \in {"fast", "copy"} => SlotOf(head) # SlotOf(ctail)

Delivered == {i \in 0..(MaxRecords - 1) : \E k \in DOMAIN popped : popped[k] = Whole(i)}

\* A record below the tail that was not returned was overwritten: the write
\* that recycles its slot has been announced.  Nothing else loses a record.
OnlyOverwrittenLost ==
    \A i \in 0..(tail - 1) :
        \/ i \in Delivered
        \/ cpc = "retire" /\ ctail = i
        \/ lapped(write_seq, i)

\* dropped_count exceeds the records really lost only by records returned in
\* the same instant they were reclaimed: a slot the consumer freed itself, or
\* a tail that a stale store moved back, is never counted as a drop.
OvercountExplained ==
    dropped_count <= Cardinality({i \in 0..(head - 1) : lapped(write_seq, i)} \ Delivered) + rescued

\* "A consumer never observes a torn record, only a gap", whichever branch a
\* push takes and whichever path a pop: what is returned is whole and in
\* order, a free slot is filled unread, only overwritten records are missing,
\* and dropped_count is explained by them.
OnlyGaps == tail <= head /\ IntactInOrder /\ FreeSlotUnread /\ OnlyOverwrittenLost /\ OvercountExplained

\* What the source says of dropped_count, "It never undercounts", and what
\* does not hold when a stale store moves the tail back: between calls of either side, the records the
\* consumer was made to skip are at most those counted in dropped_count.
NeverUndercounts ==
    ppc = "idle" /\ cpc = "idle" => tail - Len(popped) <= dropped_count

(* Until the first reclaim the ring is a bounded queue. *)
Contents == [k \in 1..(head - tail) |-> slots[SlotOf(tail + k - 1)]]

Fifo == INSTANCE BoundedFifo WITH
            Record <- Whole,
            queue <- Contents,
            accepted <- head,
            delivered <- popped

\* As long as no push has switched overwrite mode on, and so in every program
\* that calls only try_push and try_pop, the ring loses, duplicates and
\* reorders nothing, and accepts at most Capacity unread records.
FifoUntilReclaim ==
    Fifo!Init /\ [][overwrite_active' = 0 => [Fifo!Next]_(Fifo!vars)]_vars

\* A consumer that keeps calling try_pop gets past every record pushed, even
\* if the producer is killed inside a write and leaves write_seq odd.
CatchesUp == \A i \in 1..MaxRecords : head >= i ~> tail >= i
=============================================================================
