----------------------------- MODULE MCDidPool -----------------------------
(* A small instance of DidPool for TLC. *)
EXTENDS DidPool

CONSTANTS d1, d2

\* Area code "npa" owns d1 and d2; "bare" has no pool of its own; overflow
\* shares d2 with the first pool.
MCKeys == {"npa", "bare", "over"}
MCPool == [k \in MCKeys |-> CASE k = "npa" -> <<d1, d2>>
                              [] k = "bare" -> <<>>
                              [] k = "over" -> <<d2>>]
=============================================================================
