----------------------------- MODULE MCMpmcRing -----------------------------
(* Instances of MpmcRing for TLC. *)
EXTENDS MpmcRing
=============================================================================
