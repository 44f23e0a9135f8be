----------------------------- MODULE MCRaftNode -----------------------------
(* RaftNode for TLC. *)
EXTENDS RaftNode, TLC

Symmetry == Permutations(Nodes)
=============================================================================
