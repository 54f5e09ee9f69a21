----------------------------- MODULE DidBudget -----------------------------
(***************************************************************************)
(* What [sbc-did] promises the rest of the dialplan: a book of which calls *)
(* went out on which of our numbers each day.  A call is entered once or   *)
(* refused, an entry is never changed or struck out, a number is not given *)
(* out beyond its budget, and nobody is refused while there is budget      *)
(* left.  How the rings are walked, what the locks are for, and what       *)
(* restarts, hangups, midnight and prune do to it is not in here.          *)
(***************************************************************************)
EXTENDS Naturals, FiniteSets

CONSTANTS
    Calls, DIDs, Days,
    Keys,   \* area codes
    Asked,  \* the numbers that a call to an area code may be given
    Cap

VARIABLES
    taken,    \* the calls that went out on a number on a day
    blind,    \* those that were entered without the number's lock
    written,  \* days and numbers whose counter an operator wrote
    refused   \* calls that got no number

vars == <<taken, blind, written, refused>>

Init ==
    /\ taken = [d \in Days |-> [x \in DIDs |-> {}]]
    /\ blind = {} /\ written = {} /\ refused = {}

\* A call that has neither a number nor a refusal.
Waits(c) == c \notin refused /\ \A d \in Days, x \in DIDs : c \notin taken[d][x]

\* The cap, and as much again for each call that may have been counted wrong.
Budget(d, x) == Cap * (1 + Cardinality(taken[d][x] \cap blind))

\* A call that holds the lock stays within the budget, unless an operator
\* wrote the counter; one without the lock may not know.
Take(c, d, x) ==
    /\ Waits(c)
    /\ taken' = [taken EXCEPT ![d] = [taken[d] EXCEPT ![x] = taken[d][x] \cup {c}]]
    /\ \/ /\ <<d, x>> \in written \/ Cardinality(taken[d][x]) < Budget(d, x)
          /\ UNCHANGED blind
       \/ blind' = blind \cup {c}
    /\ UNCHANGED <<written, refused>>

\* Of the numbers a refused call could have had, for its area code and its day,
\* those that were counted right are used up.  Which code and day the call has
\* is not in the book.
Refuse(c) ==
    /\ Waits(c)
    /\ \E d \in Days, k \in Keys : \A x \in Asked[k] :
          <<d, x>> \notin written /\ taken[d][x] \cap blind = {}
              => Cardinality(taken[d][x]) = Cap
    /\ refused' = refused \cup {c}
    /\ UNCHANGED <<taken, blind, written>>

\* didctl.sh set and reset.
Write(counters) ==
    /\ written' = written \cup counters
    /\ UNCHANGED <<taken, blind, refused>>

Next ==
    \/ \E c \in Calls : Refuse(c) \/ \E d \in Days, x \in DIDs : Take(c, d, x)
    \/ \E counters \in SUBSET (Days \X DIDs) : Write(counters)

Spec == Init /\ [][Next]_vars
=============================================================================
