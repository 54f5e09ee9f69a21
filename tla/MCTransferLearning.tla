------------------------- MODULE MCTransferLearning -------------------------
(* Small instances of TransferLearning for TLC. *)
EXTENDS TransferLearning, TLC

MCSymmetry == Permutations(Calls)
=============================================================================
