-------------------------- MODULE MCBroadcastRing --------------------------
(* Instances of BroadcastRing for TLC. *)
EXTENDS BroadcastRing

=============================================================================
