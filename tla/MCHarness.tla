------------------------------ MODULE MCHarness ------------------------------
(* The programs around the rings, small enough for every interleaving, and, *)
(* where no thread runs, the algorithms on one input each.                  *)
EXTENDS Harness, Algorithms

MCRingSizes == {<<7, 1>>, <<8, 3>>, <<5, 8>>, <<31, 2>>}

MCInit == Init /\ (IF prog = "none" THEN SomeInput ELSE input = NoInput)

MCSpec ==
    /\ MCInit /\ [][Next /\ UNCHANGED input]_<<vars, input>>
    /\ \A t \in AllThreads : WF_vars(t \in Threads /\ Step(t))
=============================================================================
