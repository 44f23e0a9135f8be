---------------------------- MODULE PointerChase ----------------------------
(***************************************************************************)
(* The cache benchmark of AnimusCore_v1/animus_benchmark_suite.cpp: a      *)
(* chain of nodes built from a random permutation, walked a fixed number   *)
(* of steps.                                                               *)
(***************************************************************************)
EXTENDS Integers, FiniteSets, Folds, SequencesExt

CONSTANT MaxNodes       \* bound: nodes of a chain
ASSUME MaxNodesAssumption == MaxNodes \in Nat \ {0, 1}

\* Mutant: the draw includes i itself.
Draw_FisherYates(i) == 0..i

\* What uniform_int_distribution(0, i - 1) may return.
Draw(i) == 0..(i - 1)

\* The draws for one chain of the given number of nodes, for i from the last
\* node down to 1.
Draws(num_nodes) == {d \in [1..(num_nodes - 1) -> 0..(num_nodes - 1)] : \A i \in DOMAIN d : d[i] \in Draw(i)}

Swap(perm, i, j) == [perm EXCEPT ![i] = perm[j], ![j] = perm[i]]

\* next of each node.
build_chase_buffer(num_nodes, draws) ==
    FoldLeft(LAMBDA perm, i : Swap(perm, i, draws[i]), [x \in 0..(num_nodes - 1) |-> x],
             [k \in 1..(num_nodes - 1) |-> num_nodes - k])

\* The nodes a walk from node 0 comes through, the start included.
measure_chase_latency_ns(next, steps) ==
    FoldLeft(LAMBDA path, k : Append(path, next[path[Len(path)]]), <<0>>, [k \in 1..steps |-> k])

\* At least two nodes, whatever the working set.
run_cache_locality_sweep == 2..MaxNodes

-----------------------------------------------------------------------------
\* Whatever the draws, the chain is one cycle: the walk comes through every
\* node before it meets one again, and is back at the start after the last.
SingleCycleOn(num_nodes, draws) ==
    LET path == measure_chase_latency_ns(build_chase_buffer(num_nodes, draws), num_nodes)
    IN  /\ Cardinality({path[k] : k \in 1..num_nodes}) = num_nodes
        /\ path[num_nodes + 1] = 0
=============================================================================
