------------------------------ MODULE SpscQueue ------------------------------
(***************************************************************************)
(* animus::sys::ipc::SpscQueue<T> (include/animus/spsc_queue.hpp): one     *)
(* producer and one consumer over a shared header {head, tail} and an      *)
(* array of slots, each side keeping a private copy of the index it last   *)
(* saw on the other side (cached_tail_, cached_head_).                     *)
(*                                                                         *)
(* One step is one access to shared memory.  A slot is copied word by word *)
(* in any order, so a copy that overlaps a write is torn.  Every word of   *)
(* the i-th pushed record (from 0) holds i, so a record is intact exactly  *)
(* when all its words agree.                                               *)
(***************************************************************************)
EXTENDS Integers, Sequences

CONSTANTS
    Capacity,     \* slots in the ring, h_->capacity
    Words,        \* word positions of one record
    MaxRecords    \* bound: pushes that are attempted

ASSUME CapacityAssumption == Capacity \in Nat \ {0}
ASSUME MaxRecordsAssumption == MaxRecords \in Nat
ASSUME WordsAssumption == Words # {}

VARIABLES
    head,          \* shared: records ever pushed
    tail,          \* shared: records ever popped
    slots,         \* shared: slots_[k] for k = index & mask
    cached_tail,   \* producer view: last tail observed
    cached_head,   \* consumer view: last head observed
    ppc, ptodo,    \* producer: inside the slot copy or not, words still to write
    cpc, ctodo,    \* consumer: inside the slot copy or not, words still to read
    out,           \* consumer: the copy being assembled
    popped         \* history: the copies try_pop has returned

producerVars == <<head, cached_tail, ppc, ptodo>>
consumerVars == <<tail, cached_head, cpc, ctodo, out, popped>>
vars == <<head, tail, slots, cached_tail, cached_head, ppc, ptodo, cpc, ctodo, out, popped>>

NoRecord == -1      \* the zero-filled memory of a fresh segment
SlotOf(i) == i % Capacity
Blank == [w \in Words |-> NoRecord]

Init ==
    /\ head = 0
    /\ tail = 0
    /\ slots = [k \in 0..(Capacity - 1) |-> Blank]
    /\ cached_tail = 0
    /\ cached_head = 0
    /\ ppc = "idle" /\ ptodo = {}
    /\ cpc = "idle" /\ ctodo = {}
    /\ out = Blank
    /\ popped = <<>>

-----------------------------------------------------------------------------
(* Producer: try_push *)

\* Mutant: off by one in the check against the cached tail.
TryPushCached_OneTooMany ==
    /\ ppc = "idle"
    /\ head < MaxRecords
    /\ head - cached_tail <= Capacity
    /\ ppc' = "store"
    /\ ptodo' = Words
    /\ UNCHANGED <<head, cached_tail, slots, consumerVars>>

\* The cached tail already shows room: no shared access before the slot.
TryPushCached ==
    /\ ppc = "idle"
    /\ head < MaxRecords
    /\ head - cached_tail < Capacity
    /\ ppc' = "store"
    /\ ptodo' = Words
    /\ UNCHANGED <<head, cached_tail, slots, consumerVars>>

\* Mutant: off by one in the check after the reload.
TryPushReload_OneTooMany ==
    /\ ppc = "idle"
    /\ head < MaxRecords
    /\ head - cached_tail >= Capacity
    /\ cached_tail' = tail
    /\ IF head - tail > Capacity
       THEN UNCHANGED <<ppc, ptodo>>
       ELSE ppc' = "store" /\ ptodo' = Words
    /\ UNCHANGED <<head, slots, consumerVars>>

\* The cached tail shows a full ring: reload it, and return false if the
\* ring is still full.
TryPushReload ==
    /\ ppc = "idle"
    /\ head < MaxRecords
    /\ head - cached_tail >= Capacity
    /\ cached_tail' = tail
    /\ IF head - tail >= Capacity
       THEN UNCHANGED <<ppc, ptodo>>
       ELSE ppc' = "store" /\ ptodo' = Words
    /\ UNCHANGED <<head, slots, consumerVars>>

\* slots_[head & mask] = value, one word.
StoreWord(w) ==
    /\ ppc = "store"
    /\ w \in ptodo
    /\ slots' = [slots EXCEPT ![SlotOf(head)][w] = head]
    /\ ptodo' = ptodo \ {w}
    /\ UNCHANGED <<ppc, head, cached_tail, consumerVars>>

\* head.store(head + 1, release), once every word is written.
PublishHead ==
    /\ ppc = "store"
    /\ ptodo = {}
    /\ head' = head + 1
    /\ ppc' = "idle"
    /\ UNCHANGED <<ptodo, cached_tail, slots, consumerVars>>

-----------------------------------------------------------------------------
(* Consumer: try_pop *)

TryPopCached ==
    /\ cpc = "idle"
    /\ tail # cached_head
    /\ cpc' = "load"
    /\ ctodo' = Words
    /\ UNCHANGED <<tail, cached_head, out, popped, slots, producerVars>>

\* Mutant: the reloaded head is used once and not kept.
TryPopReload_KeepsCache ==
    /\ cpc = "idle"
    /\ tail = cached_head
    /\ UNCHANGED <<cpc, ctodo, cached_head>>
    /\ UNCHANGED <<tail, out, popped, slots, producerVars>>

TryPopReload ==
    /\ cpc = "idle"
    /\ tail = cached_head
    /\ cached_head' = head
    /\ IF tail = head
       THEN UNCHANGED <<cpc, ctodo>>
       ELSE cpc' = "load" /\ ctodo' = Words
    /\ UNCHANGED <<tail, out, popped, slots, producerVars>>

\* out = slots_[tail & mask], one word.
LoadWord(w) ==
    /\ cpc = "load"
    /\ w \in ctodo
    /\ out' = [out EXCEPT ![w] = slots[SlotOf(tail)][w]]
    /\ ctodo' = ctodo \ {w}
    /\ UNCHANGED <<cpc, tail, cached_head, popped, slots, producerVars>>

\* tail.store(tail + 1, release) retires the slot; the caller has the copy.
RetireTail ==
    /\ cpc = "load"
    /\ ctodo = {}
    /\ tail' = tail + 1
    /\ popped' = Append(popped, out)
    /\ cpc' = "idle"
    /\ UNCHANGED <<ctodo, cached_head, out, slots, producerVars>>

-----------------------------------------------------------------------------
Producer == TryPushCached \/ TryPushReload \/ (\E w \in Words : StoreWord(w)) \/ PublishHead

Consumer == TryPopCached \/ TryPopReload \/ (\E w \in Words : LoadWord(w)) \/ RetireTail

Next == Producer \/ Consumer

Spec == Init /\ [][Next]_vars

(* The consumer keeps calling try_pop, and no step of it waits.  Nothing   *)
(* is assumed of the producer: it may stop anywhere.                       *)
FairSpec == Spec /\ WF_vars(Consumer)

-----------------------------------------------------------------------------
Whole(i) == [w \in Words |-> i]

(* Every variable stays in its type: the indices count records that exist, *)
(* and a slot or a copy holds one number per word.                         *)
TypeOK ==
    /\ head \in 0..MaxRecords
    /\ tail \in 0..MaxRecords
    /\ slots \in [0..(Capacity - 1) -> [Words -> Int]]
    /\ cached_tail \in 0..MaxRecords
    /\ cached_head \in 0..MaxRecords
    /\ ppc \in {"idle", "store"} /\ ptodo \in SUBSET Words
    /\ cpc \in {"idle", "load"} /\ ctodo \in SUBSET Words
    /\ out \in [Words -> Int]
    /\ popped \in Seq([Words -> Int])

(* Each plain slot copy of try_push and try_pop has the slot to itself:    *)
(* the producer is never inside the slot the consumer is copying, although *)
(* both decide from indices that may be stale.                             *)
NoSlotRace == ppc = "store" /\ cpc = "load" => SlotOf(head) # SlotOf(tail)

(* try_pop returns every pushed record exactly once, in order and whole.   *)
InOrderIntact == \A k \in 1..Len(popped) : popped[k] = Whole(k - 1)

(* The records between the two indices, oldest first. *)
Contents == [k \in 1..(head - tail) |-> slots[SlotOf(tail + k - 1)]]

(* The refinement mapping: head.store is the point where a record enters   *)
(* the abstract queue and tail.store the point where it leaves.            *)
Fifo == INSTANCE BoundedFifo WITH
    Record <- Whole,
    queue <- Contents,
    accepted <- head,
    delivered <- popped

(* try_push and try_pop together are a bounded FIFO queue: no record is    *)
(* lost, duplicated, reordered or accepted beyond Capacity.                *)
ImplementsFifo == Fifo!Spec

(* A record whose push returned true is eventually popped: a stale cached  *)
(* index can delay either side by one reload, never make it miss a record. *)
EveryRecordDelivered == \A i \in 0..(MaxRecords - 1) : head > i ~> Len(popped) > i
=============================================================================
