------------------------------ MODULE AuditLog ------------------------------
(***************************************************************************)
(* BoundedAuditLog (AnimusCore_v1/animus_security.hpp): a ring of the      *)
(* newest kCapacity audit entries.  Every operation runs under the log's   *)
(* mutex, so each is one function from the log to the log.                 *)
(***************************************************************************)
EXTENDS Integers, Sequences

CONSTANT kCapacity

ASSUME CapacityAssumption == kCapacity \in Nat \ {0}

\* Storage is zeroed by the constructor; NoEntry stands for a zeroed entry.
NoEntry == [who |-> 0, permission |-> "RecordEvent", outcome |-> "Allowed"]
BoundedAuditLog == [write_ |-> 0, read_ |-> 0, dropped_ |-> 0, entries_ |-> [i \in 0..(kCapacity - 1) |-> NoEntry]]

\* Mutant: the oldest entry is overwritten without moving the read index.
append_KeepsRead(log, entry) ==
    [log EXCEPT !.write_ = @ + 1, !.entries_[log.write_ % kCapacity] = entry]

append(log, entry) ==
    LET full == log.write_ + 1 - log.read_ > kCapacity
    IN  [write_ |-> log.write_ + 1,
         read_ |-> IF full THEN log.read_ + 1 ELSE log.read_,
         dropped_ |-> IF full THEN log.dropped_ + 1 ELSE log.dropped_,
         entries_ |-> [log.entries_ EXCEPT ![log.write_ % kCapacity] = entry]]

\* size, and what drain hands out and leaves behind.
size(log) == log.write_ - log.read_
DrainCount(log, max_count) == IF size(log) < max_count THEN size(log) ELSE max_count
Drained(log, max_count) == [i \in 1..DrainCount(log, max_count) |-> log.entries_[(log.read_ + i - 1) % kCapacity]]
drain(log, max_count) == [log EXCEPT !.read_ = @ + DrainCount(log, max_count)]
=============================================================================
