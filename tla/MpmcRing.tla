------------------------------ MODULE MpmcRing ------------------------------
(***************************************************************************)
(* The bounded multi-producer multi-consumer ring: ShmRingMpmc<T> of       *)
(* include/animus/shm_ipc.hpp, and LockFreeRingBuffer<T> of                *)
(* AnimusCore_v1/animus.hpp, which runs the same protocol in one process   *)
(* and is what the engine's event ring and the market data feed use.       *)
(*                                                                         *)
(* One step is one access to shared memory.  The value of a push is named  *)
(* by the position it claims: claims are unique, so this names each pushed *)
(* record once.  A compare-exchange that fails spuriously goes back to a   *)
(* loop head with nothing changed, so only real failures are steps here.   *)
(***************************************************************************)
EXTENDS Integers

CONSTANTS
    Producers, Consumers,   \* threads or processes on each side
    Capacity,               \* cells in the ring, mask_ + 1
    MaxPushes               \* bound: calls of push

ASSUME CapacityAssumption == Capacity \in Nat \ {0}
ASSUME MaxPushesAssumption == MaxPushes \in Nat
ASSUME SidesAssumption == Producers \cap Consumers = {}

VARIABLES
    enqueue_pos, dequeue_pos,   \* shared cursors
    sequence, data,             \* shared: the two halves of each cell
    pc, pos, seq,               \* per thread: step, position worked on, sequence read
    out,                        \* per consumer: the record copied out of its cell
    calls,                      \* calls of push begun
    got                         \* history: what the pop that claimed a position returned

cursors == <<enqueue_pos, dequeue_pos>>
cells == <<sequence, data>>
vars == <<enqueue_pos, dequeue_pos, sequence, data, pc, pos, seq, out, calls, got>>

Threads == Producers \cup Consumers
None == -1
CellOf(p) == p % Capacity
Cells == 0..(Capacity - 1)

Init ==
    /\ enqueue_pos = 0 /\ dequeue_pos = 0
    /\ sequence = [k \in Cells |-> k]
    /\ data = [k \in Cells |-> None]
    /\ pc = [t \in Threads |-> "idle"]
    /\ pos = [t \in Threads |-> 0]
    /\ seq = [t \in Threads |-> 0]
    /\ out = [c \in Consumers |-> None]
    /\ calls = 0
    /\ got = [i \in 0..(MaxPushes - 1) |-> None]

-----------------------------------------------------------------------------
(* What both loops share *)

Goto(t, step) == pc' = [pc EXCEPT ![t] = step]
SetPos(t, p) == pos' = [pos EXCEPT ![t] = p]

\* cell->sequence.load at the head of the loop.
ReadSequence(t) ==
    /\ pc[t] = "loop"
    /\ seq' = [seq EXCEPT ![t] = sequence[CellOf(pos[t])]]
    /\ Goto(t, "decide")
    /\ UNCHANGED <<cursors, cells, pos, out, calls, got>>

\* Mutant: a plain store of the cursor instead of a compare-exchange.
Exchanges_Always(t, cursor) == TRUE

\* compare_exchange of the cursor with the position the thread works on.
Exchanges(t, cursor) == cursor = pos[t]

\* The cursor is loaded again: someone else got to this position first.
Reload(t, cursor) ==
    /\ SetPos(t, cursor)
    /\ Goto(t, "loop")

-----------------------------------------------------------------------------
(* push *)

PushBegin(p) ==
    /\ pc[p] = "idle"
    /\ calls < MaxPushes
    /\ calls' = calls + 1
    /\ SetPos(p, enqueue_pos)
    /\ Goto(p, "loop")
    /\ UNCHANGED <<cursors, cells, seq, out, got>>

\* Mutant: a cell that still holds an unread record counts as free.
PushDiff_IgnoresFull(p) == IF seq[p] < pos[p] THEN 0 ELSE seq[p] - pos[p]

PushDiff(p) == seq[p] - pos[p]

\* diff == 0: the exchange claims the position, or reloads it.
PushClaim(p) ==
    /\ pc[p] = "decide"
    /\ PushDiff(p) = 0
    /\ IF Exchanges(p, enqueue_pos)
       THEN enqueue_pos' = pos[p] + 1 /\ Goto(p, "copy") /\ UNCHANGED pos
       ELSE Reload(p, enqueue_pos) /\ UNCHANGED enqueue_pos
    /\ UNCHANGED <<dequeue_pos, cells, seq, out, calls, got>>

\* diff < 0: full.
PushFull(p) ==
    /\ pc[p] = "decide"
    /\ PushDiff(p) < 0
    /\ Goto(p, "idle")
    /\ UNCHANGED <<cursors, cells, pos, seq, out, calls, got>>

PushReload(p) ==
    /\ pc[p] = "decide"
    /\ PushDiff(p) > 0
    /\ Reload(p, enqueue_pos)
    /\ UNCHANGED <<cursors, cells, seq, out, calls, got>>

PushCopy(p) ==
    /\ pc[p] = "copy"
    /\ data' = [data EXCEPT ![CellOf(pos[p])] = pos[p]]
    /\ Goto(p, "publish")
    /\ UNCHANGED <<cursors, sequence, pos, seq, out, calls, got>>

\* Mutant: the sequence word is left at the claimed position.
Published_Pos(p) == pos[p]

Published(p) == pos[p] + 1

PushPublish(p) ==
    /\ pc[p] = "publish"
    /\ sequence' = [sequence EXCEPT ![CellOf(pos[p])] = Published(p)]
    /\ Goto(p, "idle")
    /\ UNCHANGED <<cursors, data, pos, seq, out, calls, got>>

-----------------------------------------------------------------------------
(* pop *)

PopBegin(c) ==
    /\ pc[c] = "idle"
    /\ SetPos(c, dequeue_pos)
    /\ Goto(c, "loop")
    /\ UNCHANGED <<cursors, cells, seq, out, calls, got>>

\* Mutant: a cell that is claimed but not published counts as readable.
PopDiff_Unpublished(c) == IF seq[c] = pos[c] THEN 0 ELSE seq[c] - (pos[c] + 1)

PopDiff(c) == seq[c] - (pos[c] + 1)

PopClaim(c) ==
    /\ pc[c] = "decide"
    /\ PopDiff(c) = 0
    /\ IF Exchanges(c, dequeue_pos)
       THEN dequeue_pos' = pos[c] + 1 /\ Goto(c, "copy") /\ UNCHANGED pos
       ELSE Reload(c, dequeue_pos) /\ UNCHANGED dequeue_pos
    /\ UNCHANGED <<enqueue_pos, cells, seq, out, calls, got>>

\* diff < 0: empty, or the producer of this position has not published.
PopEmpty(c) ==
    /\ pc[c] = "decide"
    /\ PopDiff(c) < 0
    /\ Goto(c, "idle")
    /\ UNCHANGED <<cursors, cells, pos, seq, out, calls, got>>

PopReload(c) ==
    /\ pc[c] = "decide"
    /\ PopDiff(c) > 0
    /\ Reload(c, dequeue_pos)
    /\ UNCHANGED <<cursors, cells, seq, out, calls, got>>

PopCopy(c) ==
    /\ pc[c] = "copy"
    /\ out' = [out EXCEPT ![c] = data[CellOf(pos[c])]]
    /\ Goto(c, "retire")
    /\ UNCHANGED <<cursors, cells, pos, seq, calls, got>>

PopRetire(c) ==
    /\ pc[c] = "retire"
    /\ sequence' = [sequence EXCEPT ![CellOf(pos[c])] = pos[c] + Capacity]
    /\ got' = [got EXCEPT ![pos[c]] = out[c]]
    /\ out' = [out EXCEPT ![c] = None]
    /\ Goto(c, "idle")
    /\ UNCHANGED <<cursors, data, pos, seq, calls>>

-----------------------------------------------------------------------------
Push(p) ==
    \/ PushBegin(p) \/ PushClaim(p) \/ PushFull(p) \/ PushReload(p)
    \/ PushCopy(p) \/ PushPublish(p)

Pop(c) ==
    \/ PopBegin(c) \/ PopClaim(c) \/ PopEmpty(c) \/ PopReload(c)
    \/ PopCopy(c) \/ PopRetire(c)

Next ==
    \/ \E t \in Threads : ReadSequence(t)
    \/ \E p \in Producers : Push(p)
    \/ \E c \in Consumers : Pop(c)

Spec == Init /\ [][Next]_vars

(* Every thread inside a call keeps being scheduled; consumers keep        *)
(* calling.  No one is obliged to push.                                    *)
FairSpec ==
    /\ Spec
    /\ \A p \in Producers : WF_vars(pc[p] # "idle" /\ (ReadSequence(p) \/ Push(p)))
    /\ \A c \in Consumers : WF_vars(ReadSequence(c) \/ Pop(c))

-----------------------------------------------------------------------------
(* Properties *)

InCell(t) == pc[t] \in {"copy", "publish", "retire"}

\* The payload of a cell is a plain copy: a thread between its claim and its
\* store to the sequence word has the cell to itself, on either side.
ExclusiveCell ==
    \A s, t \in Threads : s # t /\ InCell(s) /\ InCell(t) => CellOf(pos[s]) # CellOf(pos[t])

\* The pop that claims a position returns the record pushed at that position:
\* nothing is lost, duplicated, or handed over before it is written.
FaithfulHandOver == \A i \in DOMAIN got : got[i] \in {None, i}

\* push reports a full ring rather than run over unread records.
NeverOverfull == dequeue_pos <= enqueue_pos /\ enqueue_pos - dequeue_pos <= Capacity

\* A cell passes from the push that claims it to the pop of the same position
\* and on to the push a lap later, to one thread at a time: its payload is
\* never shared, never handed over early, and never overrun while unread.
CellsHandedOver == ExclusiveCell /\ FaithfulHandOver /\ NeverOverfull

\* Every claimed position is published and popped, if no thread dies inside
\* a call, and "push()/pop() never block": a pop that has begun returns, once
\* no one else keeps moving the cursor under it.
EveryPushPopped ==
    /\ \A i \in 0..(MaxPushes - 1) : enqueue_pos > i ~> got[i] = i
    /\ \A c \in Consumers : pc[c] = "loop" ~> pc[c] = "idle"
=============================================================================
