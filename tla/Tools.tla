------------------------------- MODULE Tools -------------------------------
(***************************************************************************)
(* The two offline tools that decide which numbers the pools of module     *)
(* DidPool hold: fractel-order.py buys them, analyze-did-capacity.py says  *)
(* where they are needed.  Neither reads what the other keeps, so one of   *)
(* them is at work.                                                        *)
(***************************************************************************)
EXTENDS FractelOrder, Capacity

VARIABLE tool  \* the tool at work

toolVars == <<orderVars, dayVars, tool>>

Init ==
    /\ OrderInit /\ DayInit
    /\ \/ tool = "fractel-order" /\ fleet = CHOOSE f \in Fleets : TRUE
       \/ tool = "analyze-did-capacity" /\ account = Existing

Next ==
    /\ UNCHANGED tool
    /\ \/ tool = "fractel-order" /\ OrderNext /\ UNCHANGED dayVars
       \/ tool = "analyze-did-capacity" /\ DayNext /\ UNCHANGED orderVars

Spec == Init /\ [][Next]_toolVars

-----------------------------------------------------------------------------
(* Properties; those of an order are BooksMatchTheAccount and              *)
(* PoolsKeepTheirSize.                                                     *)

\* Safety: whenever the records are analysed, the projection made from them
\* is exact for the fleet they come from, and the move it plans costs no
\* call, empties no donor, and with its purchase serves every call.
PlanHolds ==
    tool = "analyze-did-capacity" => ProjectionIsExact /\ MoveIsFree
=============================================================================
