------------------------------ MODULE SpmcRing ------------------------------
(***************************************************************************)
(* animus::sys::ipc::SpmcRing<T> (include/animus/shm_ipc.hpp): one         *)
(* producer broadcasts into a shared ring and never waits; any number of   *)
(* readers poll with cursors of their own and discard, by the index-coded  *)
(* seqlock write_seq, what was recycled under them.                        *)
(*                                                                         *)
(* One step is one access to shared memory.  The words of a slot are       *)
(* relaxed atomics, so they are written and read in any order.  Every word *)
(* of the i-th broadcast record (from 0) holds i.                          *)
(***************************************************************************)
EXTENDS Integers, Sequences, FiniteSets

CONSTANTS
    Readers,      \* attached consumers
    Capacity,     \* slots in the ring
    Words,        \* word positions of one record
    MaxBatch,     \* bound: largest max_count passed to poll
    MaxRecords    \* bound: broadcasts

ASSUME CapacityAssumption == Capacity \in Nat \ {0}
ASSUME MaxBatchAssumption == MaxBatch \in Nat
ASSUME MaxRecordsAssumption == MaxRecords \in Nat

VARIABLES
    head,            \* shared: records published
    write_seq,       \* shared: 2w+1 while record w is written, 2w+2 after
    slots,           \* shared: the payload array
    wpc, wtodo,      \* producer: where it is in broadcast, words still to write
    local_tail,      \* reader: next record to look at
    overrun_count,   \* reader: records it was forced to skip
    last_poll_overran,
    rpc, n, todo,    \* reader: copying or not, batch size, words still to copy
    out,             \* reader: the caller's buffer
    delivered        \* history: the records poll has returned

writerVars == <<head, write_seq, slots, wpc, wtodo>>
readerVars == <<local_tail, overrun_count, last_poll_overran, rpc, n, todo, out, delivered>>
vars == <<head, write_seq, slots, wpc, wtodo, local_tail, overrun_count,
          last_poll_overran, rpc, n, todo, out, delivered>>

NoRecord == -1      \* the zero-filled memory of a fresh segment
SlotOf(i) == i % Capacity
Blank == [w \in Words |-> NoRecord]
Batch == 0..(MaxBatch - 1)
BlankBatch == [i \in Batch |-> Blank]

begin_value(w) == 2 * w + 1
end_value(w) == 2 * (w + 1)

\* Mutant: only finished writes count, so the one in progress goes unnoticed.
oldest_intact_FinishedOnly(seq) ==
    LET done == seq \div 2
    IN  IF done > Capacity THEN done - Capacity ELSE 0

\* Records below this index are gone, or being recycled, at counter value seq.
oldest_intact(seq) ==
    LET begun == (seq + 1) \div 2
    IN  IF begun > Capacity THEN begun - Capacity ELSE 0

Init ==
    /\ head = 0
    /\ write_seq = 0
    /\ slots = [k \in 0..(Capacity - 1) |-> Blank]
    /\ wpc = "idle" /\ wtodo = {}
    /\ local_tail = [r \in Readers |-> 0]
    /\ overrun_count = [r \in Readers |-> 0]
    /\ last_poll_overran = [r \in Readers |-> FALSE]
    /\ rpc = [r \in Readers |-> "idle"]
    /\ n = [r \in Readers |-> 0]
    /\ todo = [r \in Readers |-> {}]
    /\ out = [r \in Readers |-> BlankBatch]
    /\ delivered = [r \in Readers |-> <<>>]

-----------------------------------------------------------------------------
(* Producer: broadcast *)

BeginWrite ==
    /\ wpc = "idle"
    /\ head < MaxRecords
    /\ write_seq' = begin_value(head)
    /\ wpc' = "store"
    /\ wtodo' = Words
    /\ UNCHANGED <<head, slots, readerVars>>

StoreWord(w) ==
    /\ wpc = "store"
    /\ w \in wtodo
    /\ slots' = [slots EXCEPT ![SlotOf(head)][w] = head]
    /\ wtodo' = wtodo \ {w}
    /\ UNCHANGED <<head, write_seq, wpc, readerVars>>

EndWrite ==
    /\ wpc = "store"
    /\ wtodo = {}
    /\ write_seq' = end_value(head)
    /\ wpc' = "publish"
    /\ UNCHANGED <<head, slots, wtodo, readerVars>>

PublishHead ==
    /\ wpc = "publish"
    /\ head' = head + 1
    /\ wpc' = "idle"
    /\ UNCHANGED <<write_seq, slots, wtodo, readerVars>>

-----------------------------------------------------------------------------
(* Reader: poll *)

Least(a, b) == IF a < b THEN a ELSE b

\* Where the batch starts: at head - capacity if the reader fell out of the ring.
First(r) == IF head - local_tail[r] > Capacity THEN head - Capacity ELSE local_tail[r]

\* Mutant: the newest record is left for a next time that never comes.
Size_KeepsNewest(r, max_count) == IF head = First(r) THEN 0 ELSE Least(head - First(r) - 1, max_count)

Size(r, max_count) == Least(head - First(r), max_count)

\* The counter and the flag, which a poll clears first and may set twice.
CountLost(r, flag, lost) ==
    /\ overrun_count' = [overrun_count EXCEPT ![r] = @ + lost]
    /\ last_poll_overran' = [last_poll_overran EXCEPT ![r] = flag \/ lost > 0]

\* The head snapshot, the jump, and the size of the batch.
PollBegin(r, max_count) ==
    /\ rpc[r] = "idle"
    /\ local_tail' = [local_tail EXCEPT ![r] = First(r)]
    /\ CountLost(r, FALSE, First(r) - local_tail[r])
    /\ n' = [n EXCEPT ![r] = Size(r, max_count)]
    /\ todo' = [todo EXCEPT ![r] = (0..(Size(r, max_count) - 1)) \X Words]
    /\ rpc' = [rpc EXCEPT ![r] = IF Size(r, max_count) = 0 THEN "idle" ELSE "copy"]
    /\ UNCHANGED <<out, delivered, writerVars>>

\* One word of out[i] = slots_[(first + i) & mask].
LoadWord(r, i, w) ==
    /\ rpc[r] = "copy"
    /\ <<i, w>> \in todo[r]
    /\ out' = [out EXCEPT ![r][i][w] = slots[SlotOf(local_tail[r] + i)][w]]
    /\ todo' = [todo EXCEPT ![r] = @ \ {<<i, w>>}]
    /\ UNCHANGED <<local_tail, overrun_count, last_poll_overran, rpc, n, delivered, writerVars>>

\* How many records of the batch were recycled, by the counter read now.
Lapped(r) ==
    IF oldest_intact(write_seq) > local_tail[r]
    THEN Least(oldest_intact(write_seq) - local_tail[r], n[r])
    ELSE 0

\* Validate the whole batch with one read of write_seq and return the rest.
PollEnd(r) ==
    /\ rpc[r] = "copy"
    /\ todo[r] = {}
    /\ local_tail' = [local_tail EXCEPT ![r] = @ + n[r]]
    /\ CountLost(r, last_poll_overran[r], Lapped(r))
    /\ delivered' = [delivered EXCEPT ![r] =
                        @ \o [k \in 1..(n[r] - Lapped(r)) |-> out[r][Lapped(r) + k - 1]]]
    /\ rpc' = [rpc EXCEPT ![r] = "idle"]
    /\ n' = [n EXCEPT ![r] = 0]
    /\ out' = [out EXCEPT ![r] = BlankBatch]
    /\ UNCHANGED <<todo, writerVars>>

-----------------------------------------------------------------------------
Producer == BeginWrite \/ (\E w \in Words : StoreWord(w)) \/ EndWrite \/ PublishHead

Reader(r) ==
    \/ \E m \in 0..MaxBatch : PollBegin(r, m)
    \/ \E i \in Batch, w \in Words : LoadWord(r, i, w)
    \/ PollEnd(r)

Next == Producer \/ \E r \in Readers : Reader(r)

Spec == Init /\ [][Next]_vars

(* A reader that keeps calling poll with a non-empty buffer, and finishes  *)
(* each call: nothing in poll waits, so the scheduler provides this.       *)
ReaderStep(r) ==
    \/ \E m \in 1..MaxBatch : PollBegin(r, m)
    \/ \E i \in Batch, w \in Words : LoadWord(r, i, w)
    \/ PollEnd(r)

FairSpec == Spec /\ \A r \in Readers : WF_vars(ReaderStep(r))

-----------------------------------------------------------------------------
(* Properties *)

Whole(i) == [w \in Words |-> i]

(* Each reader sees a lossy log. *)
Log == INSTANCE LossyLog WITH
           published <- head,
           position <- local_tail,
           skipped <- overrun_count,
           Record <- Whole

\* Broadcast and poll implement the lossy log: whole records, in order, each
\* one taken or counted, and none lost that is not a lap behind.
ImplementsLog == Log!Spec

\* A reader that keeps polling catches up with everything broadcast: it reads
\* past every record, however often it is lapped.
CatchesUp ==
    \A r \in Readers, i \in 1..MaxRecords : head >= i ~> local_tail[r] >= i
=============================================================================
