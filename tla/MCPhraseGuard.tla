---------------------------- MODULE MCPhraseGuard ----------------------------
(* Small instances of PhraseGuard for TLC. *)
EXTENDS PhraseGuard, TLC

MCSymmetry == Permutations(Calls) \cup Permutations(Ports)
=============================================================================
