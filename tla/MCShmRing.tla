----------------------------- MODULE MCShmRing -----------------------------
(* Instances of ShmRing for TLC. *)
EXTENDS ShmRing
=============================================================================
