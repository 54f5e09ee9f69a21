---------------------------- MODULE MCKillswitch ----------------------------
(* A small instance of Killswitch for TLC. *)
EXTENDS Killswitch
=============================================================================
