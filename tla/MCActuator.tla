----------------------------- MODULE MCActuator -----------------------------
(* Small instances of Actuator for TLC. *)
EXTENDS Actuator, TLC

MCSymmetry == Permutations(Calls)
=============================================================================
