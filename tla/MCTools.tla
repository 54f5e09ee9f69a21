------------------------------ MODULE MCTools ------------------------------
(* Five numbers of two area codes, one of which may be ours already; three *)
(* dialled area codes on two days, with fleets that have too many numbers  *)
(* in one place, too few in another, and an overflow with and without any. *)
EXTENDS Tools, TLC

CONSTANTS a1, a2, b1, b2, b3

MCArea == [n \in Numbers |-> IF n \in {a1, a2} THEN "a" ELSE "b"]
MCMatched == <<"a">>
MCSubstitutes == <<"b">>
MCSymmetry == Permutations({a1, a2}) \cup Permutations({b1, b2})

MCNpas == {"a", "b", "c"}
MCFleets == {[a |-> x, b |-> y, c |-> 0, OVERFLOW |-> z] :
                x \in {1, 4}, y \in 0 .. 1, z \in {0, 3}}
MCPriority == <<"c">>
MCListed == [a |-> 1, b |-> 2, c |-> 3]
=============================================================================
