----------------------------- MODULE BoundedFifo -----------------------------
(***************************************************************************)
(* What every lossless ring of AnimusCore promises its two sides: a queue  *)
(* of at most Capacity records that hands out, in order and exactly once,  *)
(* what was put in.  Record(i) is the i-th record accepted, 0 first.       *)
(***************************************************************************)
EXTENDS Naturals, Sequences

CONSTANTS
    Capacity,
    Record(_)

VARIABLES
    queue,       \* accepted and not yet delivered
    accepted,    \* how many pushes have succeeded
    delivered    \* everything handed to the consumer, oldest first

vars == <<queue, accepted, delivered>>

Init ==
    /\ queue = <<>>
    /\ accepted = 0
    /\ delivered = <<>>

Push ==
    /\ Len(queue) < Capacity
    /\ queue' = Append(queue, Record(accepted))
    /\ accepted' = accepted + 1
    /\ UNCHANGED delivered

Pop ==
    /\ queue # <<>>
    /\ delivered' = Append(delivered, Head(queue))
    /\ queue' = Tail(queue)
    /\ UNCHANGED accepted

Next == Push \/ Pop

Spec == Init /\ [][Next]_vars
=============================================================================
