---------------------------- MODULE BroadcastRing ----------------------------
(***************************************************************************)
(* animus::sys::ipc::BroadcastRing<T> (include/animus/broadcast_ring.hpp): *)
(* a lossy one-writer ring with a single atomic, the cursor, and no        *)
(* sequence counter.  A write that is under way is invisible, so readers   *)
(* trust only the newest Capacity - 1 records.                             *)
(*                                                                         *)
(* Slots are copied with memcpy while the other side may be writing them:  *)
(* the words of a record are stored and loaded in any order.  Every word   *)
(* of the i-th published record (from 0) holds i.                          *)
(*                                                                         *)
(* Readers use poll itself, or the loop around it that the C interface     *)
(* (broadcast_poll, animus_engine.cpp) and the Python binding (poll_some,  *)
(* animus_shm_py.cpp) offer.                                               *)
(***************************************************************************)
EXTENDS Integers, Sequences

CONSTANTS
    Readers,      \* attached readers, each with a view of its own
    Capacity,     \* slots in the ring
    Words,        \* word positions of one record
    MaxBatch,     \* bound: largest max_count passed to poll
    MaxRecords    \* bound: records published

\* init() and attach() refuse a capacity below two.
ASSUME CapacityAssumption == Capacity \in Nat \ {0, 1}
ASSUME MaxBatchAssumption == MaxBatch \in Nat
ASSUME MaxRecordsAssumption == MaxRecords \in Nat

VARIABLES
    cursor,         \* shared: records published
    slots,          \* shared: the payload array
    wpc, wtodo,     \* writer: inside the slot copy or not, words still to write
    read, dropped,  \* reader: next record to look at, records missed
    rpc, n, todo,   \* reader: copying or not, batch size, words still to copy
    out,            \* reader: the caller's buffer
    call, limit,    \* reader: attempt of broadcast_poll (0 outside), its max_count
    delivered,      \* history: the records poll has returned
    before          \* history: dropped when broadcast_poll was called

writerVars == <<cursor, slots, wpc, wtodo>>
readerVars == <<read, dropped, rpc, n, todo, out, call, limit, delivered, before>>
vars == <<cursor, slots, wpc, wtodo, read, dropped, rpc, n, todo, out, call, limit, delivered, before>>

NoRecord == -1      \* the content of a slot never written
SlotOf(i) == i % Capacity
Blank == [w \in Words |-> NoRecord]
Batch == 0..(MaxBatch - 1)
BlankBatch == [i \in Batch |-> Blank]
Least(a, b) == IF a < b THEN a ELSE b

Init ==
    /\ cursor = 0
    /\ slots = [k \in 0..(Capacity - 1) |-> Blank]
    /\ wpc = "idle" /\ wtodo = {}
    /\ read = [r \in Readers |-> 0]
    /\ dropped = [r \in Readers |-> 0]
    /\ rpc = [r \in Readers |-> "idle"]
    /\ n = [r \in Readers |-> 0]
    /\ todo = [r \in Readers |-> {}]
    /\ out = [r \in Readers |-> BlankBatch]
    /\ call = [r \in Readers |-> 0]
    /\ limit = [r \in Readers |-> 0]
    /\ delivered = [r \in Readers |-> <<>>]
    /\ before = [r \in Readers |-> 0]

-----------------------------------------------------------------------------
(* Writer: publish *)

PublishBegin ==
    /\ wpc = "idle"
    /\ cursor < MaxRecords
    /\ wpc' = "store"
    /\ wtodo' = Words
    /\ UNCHANGED <<cursor, slots, readerVars>>

StoreWord(w) ==
    /\ wpc = "store"
    /\ w \in wtodo
    /\ slots' = [slots EXCEPT ![SlotOf(cursor)][w] = cursor]
    /\ wtodo' = wtodo \ {w}
    /\ UNCHANGED <<cursor, wpc, readerVars>>

PublishCursor ==
    /\ wpc = "store"
    /\ wtodo = {}
    /\ cursor' = cursor + 1
    /\ wpc' = "idle"
    /\ UNCHANGED <<slots, wtodo, readerVars>>

-----------------------------------------------------------------------------
(* Reader: poll *)

\* Where the batch starts: at the readable window if the reader fell behind it.
Start(r) == IF cursor - read[r] > Capacity - 1 THEN cursor - (Capacity - 1) ELSE read[r]

\* Mutant: never reaches the newest record.
Size_KeepsNewest(r, max_count) == IF cursor = Start(r) THEN 0 ELSE Least(cursor - Start(r) - 1, max_count)

Size(r, max_count) == Least(cursor - Start(r), max_count)

Snapped(r) == Start(r) - read[r]

\* The cursor snapshot, the snap to the readable window, the batch size; with
\* nothing to copy the call is over and goes to `empty`.
Snapshot(r, max_count, empty) ==
    /\ read' = [read EXCEPT ![r] = Start(r)]
    /\ dropped' = [dropped EXCEPT ![r] = @ + Snapped(r)]
    /\ n' = [n EXCEPT ![r] = Size(r, max_count)]
    /\ todo' = [todo EXCEPT ![r] = (0..(Size(r, max_count) - 1)) \X Words]
    /\ rpc' = [rpc EXCEPT ![r] = IF Size(r, max_count) = 0 THEN empty ELSE "copy"]
    /\ UNCHANGED <<out, call, limit, delivered, before, writerVars>>

PollBegin(r, max_count) == rpc[r] = "idle" /\ Snapshot(r, max_count, "idle")

LoadWord(r, i, w) ==
    /\ rpc[r] = "copy"
    /\ <<i, w>> \in todo[r]
    /\ out' = [out EXCEPT ![r][i][w] = slots[SlotOf(read[r] + i)][w]]
    /\ todo' = [todo EXCEPT ![r] = @ \ {<<i, w>>}]
    /\ UNCHANGED <<read, dropped, rpc, n, call, limit, delivered, before, writerVars>>

\* Mutant: forgets that the next write may have begun.
OldestIntact_WholeRing == IF cursor >= Capacity THEN cursor - Capacity ELSE 0

\* By the second read of the cursor, the oldest record no write had reached.
OldestIntact == IF cursor >= Capacity THEN cursor - Capacity + 1 ELSE 0

Lost(r) == IF OldestIntact > read[r] THEN Least(OldestIntact - read[r], n[r]) ELSE 0

\* Drop the recycled prefix of the batch, count it, and return the rest.
\* broadcast_poll looks again when nothing is left.
PollEnd(r) ==
    LET got == n[r] - Lost(r)
    IN  /\ rpc[r] = "copy"
        /\ todo[r] = {}
        /\ read' = [read EXCEPT ![r] = @ + n[r]]
        /\ dropped' = [dropped EXCEPT ![r] = @ + Lost(r)]
        /\ delivered' = [delivered EXCEPT ![r] = @ \o [k \in 1..got |-> out[r][Lost(r) + k - 1]]]
        /\ rpc' = [rpc EXCEPT ![r] = IF call[r] > 0 /\ got = 0 THEN "check" ELSE "idle"]
        /\ call' = [call EXCEPT ![r] = IF got = 0 THEN @ ELSE 0]
        /\ n' = [n EXCEPT ![r] = 0]
        /\ out' = [out EXCEPT ![r] = BlankBatch]
        /\ UNCHANGED <<todo, limit, before, writerVars>>

-----------------------------------------------------------------------------
(* Reader: broadcast_poll *)

kMaxPollAttempts == 4

broadcast_poll(r, max_count) ==
    /\ rpc[r] = "idle" /\ max_count > 0
    /\ rpc' = [rpc EXCEPT ![r] = "attempt"]
    /\ call' = [call EXCEPT ![r] = 1]
    /\ limit' = [limit EXCEPT ![r] = max_count]
    /\ before' = [before EXCEPT ![r] = dropped[r]]
    /\ UNCHANGED <<read, dropped, n, todo, out, delivered, writerVars>>

Attempt(r) == rpc[r] = "attempt" /\ Snapshot(r, limit[r], "check")

\* Mutant: the loop gives up after its first empty poll.
LastAttempt_First(r) == TRUE

LastAttempt(r) == call[r] = kMaxPollAttempts

\* The poll came back empty: over when the reader has caught up with the
\* writer or has used its attempts.
CheckCaughtUp(r) ==
    /\ rpc[r] = "check"
    /\ IF read[r] >= cursor \/ LastAttempt(r)
       THEN rpc' = [rpc EXCEPT ![r] = "idle"] /\ call' = [call EXCEPT ![r] = 0]
       ELSE rpc' = [rpc EXCEPT ![r] = "attempt"] /\ call' = [call EXCEPT ![r] = @ + 1]
    /\ UNCHANGED <<read, dropped, n, todo, out, limit, delivered, before, writerVars>>

-----------------------------------------------------------------------------
Writer == PublishBegin \/ (\E w \in Words : StoreWord(w)) \/ PublishCursor

Reader(r) ==
    \/ \E m \in 0..MaxBatch : PollBegin(r, m) \/ broadcast_poll(r, m)
    \/ \E i \in Batch, w \in Words : LoadWord(r, i, w)
    \/ PollEnd(r) \/ Attempt(r) \/ CheckCaughtUp(r)

Next == Writer \/ \E r \in Readers : Reader(r)

Spec == Init /\ [][Next]_vars

(* A reader that keeps calling poll with room for at least one record. *)
ReaderStep(r) ==
    \/ \E m \in 1..MaxBatch : PollBegin(r, m) \/ broadcast_poll(r, m)
    \/ \E i \in Batch, w \in Words : LoadWord(r, i, w)
    \/ PollEnd(r) \/ Attempt(r) \/ CheckCaughtUp(r)

FairSpec == Spec /\ \A r \in Readers : WF_vars(ReaderStep(r))

-----------------------------------------------------------------------------
(* Properties *)

Whole(i) == [w \in Words |-> i]

(* Each reader sees a lossy log. *)
Log == INSTANCE LossyLog WITH
           published <- cursor,
           position <- read,
           skipped <- dropped,
           Record <- Whole

\* publish and poll implement the lossy log: the newest Capacity - 1 records
\* are never denied to a reader, older ones are returned whole or counted.
ImplementsLog == Log!Spec

\* A broadcast_poll that returns nothing has caught up with the writer; the
\* only other way out is a writer that recycled what each of its attempts
\* copied, the first perhaps excepted, which may have found nothing to copy.
NothingMeansCaughtUp ==
    [][\A r \in Readers : rpc[r] = "check" /\ rpc'[r] = "idle" =>
           read[r] >= cursor \/ dropped[r] - before[r] >= kMaxPollAttempts - 1]_vars

\* A reader that keeps polling gets past every record published.
CatchesUp ==
    \A r \in Readers, i \in 1..MaxRecords : cursor >= i ~> read[r] >= i
=============================================================================
