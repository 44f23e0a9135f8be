----------------------------- MODULE MCSpscQueue -----------------------------
(* Model-checking instance of SpscQueue: four slots wrap several times.    *)
EXTENDS SpscQueue
=============================================================================
