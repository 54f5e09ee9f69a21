------------------------------ MODULE Capacity ------------------------------
(***************************************************************************)
(* tools/analyze-did-capacity.py: from the call records of some days, how  *)
(* many of our numbers each area code needs, which idle ones to move, what *)
(* to buy, and how many calls each of those fleets would refuse.           *)
(*                                                                         *)
(* The records come from days of calls replayed as the dialplan serves     *)
(* them (module DidPool has the details): the area code's own pool, then   *)
(* the overflow, then a refusal.  A number's allowance is Cap calls a day. *)
(***************************************************************************)
EXTENDS Integers, Sequences, FiniteSets, SequencesExt, FiniteSetsExt

CONSTANTS
    Npas,           \* the area codes dialled
    Fleets,         \* pool sizes to start from: [Npas \cup {"OVERFLOW"} -> Nat]
    Cap,            \* --cap, the daily cap in force and modelled
    Headroom,       \* --headroom, in percent
    OverflowMin,    \* --overflow-min
    Priority,       \* EXPERIMENT_NPAS, a sequence
    Listed,         \* Npas -> Nat: where a Python set lists each of them
    MaxDay,         \* bound of this model: the days on record
    MaxCalls        \* bound of this model: calls to one area code in a day

Days == 1 .. MaxDay
Pools == Npas \cup {"OVERFLOW"}
Larger(a, b) == IF a > b THEN a ELSE b
Smaller(a, b) == IF a < b THEN a ELSE b
CeilDiv(a, b) == (a + b - 1) \div b
SumOf(f) == MapThenSumSet(LAMBDA x : f[x], DOMAIN f)

ASSUME NpasFinite == IsFiniteSet(Npas) /\ "OVERFLOW" \notin Npas
ASSUME FleetsNat == Fleets \subseteq [Pools -> Nat]
ASSUME CapPositive == Cap \in Nat \ {0}
ASSUME DaysNat == MaxDay \in Nat \ {0}
ASSUME NeedsNat == Headroom \in Nat /\ OverflowMin \in Nat
ASSUME OrderGiven ==
    /\ Priority \in Seq(ToSet(Priority))
    /\ Listed \in [Npas -> Nat] /\ \A m, n \in Npas : Listed[m] = Listed[n] => m = n

VARIABLES
    fleet,     \* the numbers in each pool, dids.csv
    cdr,       \* the records: area code -> day -> calls by outcome
    today

dayVars == <<fleet, cdr, today>>

NoCalls == [npa_match |-> 0, overflow |-> 0, refused |-> 0]

DayInit ==
    /\ fleet \in Fleets
    /\ cdr = [n \in Npas |-> [d \in Days |-> NoCalls]]
    /\ today = 1

\* Mutant: a refused call is not demand, as no number was drawn for it.
DemandServed(n, d) == cdr[n][d].npa_match + cdr[n][d].overflow

\* analyze: what of the records is demand on the pools.
Demand(n, d) == cdr[n][d].npa_match + cdr[n][d].overflow + cdr[n][d].refused

Overflowed(d) == SumOf([n \in Npas |-> cdr[n][d].overflow])
Refused(d) == SumOf([n \in Npas |-> cdr[n][d].refused])

-----------------------------------------------------------------------------
(* A day of calls.                                                         *)

Call(n) ==
    /\ Demand(n, today) < MaxCalls
    /\ LET outcome ==
             IF cdr[n][today].npa_match < fleet[n] * Cap THEN "npa_match"
             ELSE IF Overflowed(today) < fleet["OVERFLOW"] * Cap THEN "overflow"
             ELSE "refused"
       IN cdr' = [cdr EXCEPT ![n][today][outcome] = @ + 1]
    /\ UNCHANGED <<fleet, today>>

Midnight ==
    /\ today < MaxDay /\ today' = today + 1
    /\ UNCHANGED <<fleet, cdr>>

DayNext == Midnight \/ \E n \in Npas : Call(n)

-----------------------------------------------------------------------------
(* What each area code needs.                                              *)

Peak(n) == Max({Demand(n, d) : d \in Days})
NeedOf(peak) == CeilDiv(peak * (100 + Headroom), 100 * Cap)
TotalRefused(n) == SumOf([d \in Days |-> cdr[n][d].refused])

\* build_rows, as a function of the area code.
Rows == [n \in Npas |->
    LET peak == Peak(n)
    IN [peak |-> peak, need |-> NeedOf(peak), refused |-> TotalRefused(n)]]

\* simulate_refusals: the calls of a day a fleet would refuse, in total.
Spill(sizes, d) ==
    SumOf([n \in Npas |-> Larger(0, Demand(n, d) - sizes[n] * Cap)])
Simulate(sizes) ==
    SumOf([d \in Days |-> Larger(0, Spill(sizes, d) - sizes["OVERFLOW"] * Cap)])

-----------------------------------------------------------------------------
(* plan_reallocation: numbers a pool does not need go to pools that are    *)
(* short.                                                                  *)

\* A donor keeps more than its need, which is measured and so a floor.
DonorRetain(need) == Larger(need + 2, CeilDiv(need * 5, 4))

PriorityOf(n) == IF n \in ToSet(Priority)
                 THEN CHOOSE i \in DOMAIN Priority : Priority[i] = n
                 ELSE Len(Priority) + 1

\* A place in a line: rows are sorted by refusals and peak, and sorting them
\* again is stable.
InLine(n, amount, first, row) ==
    [pool |-> n, amount |-> amount,
     key |-> <<first, 0 - amount, 0 - row.refused, 0 - row.peak, Listed[n]>>]
Sooner(x, y) ==
    \E i \in 1 .. 5 : x.key[i] < y.key[i] /\ \A j \in 1 .. i - 1 : x.key[j] = y.key[j]

\* Area codes with numbers to give, the most first, and what they give.
Donors(rows) ==
    LET surplus(n) == fleet[n] - DonorRetain(rows[n].need)
    IN {InLine(n, surplus(n), 0, rows[n]) : n \in {m \in Npas : surplus(m) > 0}}

\* What the overflow can spare comes after them.
FromOverflow(spare) ==
    IF spare > 0
    THEN {[pool |-> "OVERFLOW", amount |-> spare, key |-> <<1, 0, 0, 0, 0>>]} ELSE {}

\* Area codes that are short, those of the experiment first.
Receivers(rows) ==
    LET short(n) == rows[n].need - fleet[n]
    IN {InLine(n, short(n), PriorityOf(n), rows[n]) : n \in {m \in Npas : short(m) > 0}}

\* _match: donors are emptied in order into receivers in order, so one gives
\* the other what their stretches of the two running totals have in common.
Upto(line, x) == SumOf([y \in {z \in line : z = x \/ Sooner(z, x)} |-> y.amount])
Stretches(line) ==
    {[pool |-> x.pool, from |-> Upto(line, x) - x.amount, to |-> Upto(line, x)] : x \in line}
Moved(x, y) == Larger(0, Smaller(x.to, y.to) - Larger(x.from, y.from))

\* The fleet after the move.
After(donors, receivers) ==
    LET deals == Stretches(donors) \X Stretches(receivers)
        Together(some) == SumOf([d \in some |-> Moved(d[1], d[2])])
    IN [n \in Pools |-> fleet[n] + Together({d \in deals : d[2].pool = n})
                                 - Together({d \in deals : d[1].pool = n})]

\* Mutant: the floor of the overflow pool is taken for its need.
OverflowNeedIsFloor(sizes) == OverflowMin

\* overflow_need: the overflow keeps what it still has to carry once the
\* area codes' own surplus has moved.
OverflowNeed(sizes) ==
    Larger(OverflowMin, CeilDiv(Max({Spill(sizes, d) : d \in Days}), Cap))

\* What the area codes can spare is moved first, on paper.  The overflow's
\* need is measured with sizes that have what was received, and still what was
\* given; what it has beyond that is moved too.
OnPaper(rows) ==
    LET moved == After(Donors(rows), Receivers(rows))
    IN [n \in Pools |-> Larger(moved[n], fleet[n])]
OverflowSpare(rows) == Larger(0, fleet["OVERFLOW"] - OverflowNeed(OnPaper(rows)))
Reallocated(rows) ==
    After(Donors(rows) \cup FromOverflow(OverflowSpare(rows)), Receivers(rows))

\* write_plan: the fleet once what a move leaves short is bought as well, and
\* the overflow up to its floor.
Purchased(rows, moved) == [n \in Pools |->
    IF n = "OVERFLOW" THEN moved[n] + Larger(0, OverflowMin - fleet[n])
    ELSE Larger(moved[n], rows[n].need)]

FleetSize(sizes) == SumOf([n \in Pools |-> sizes[n]])

-----------------------------------------------------------------------------
(* Properties.                                                             *)

\* Adding up by day is exact: for the fleet the records come from, and calls
\* in any order, the projection is the refusals on record.
ProjectionIsExact ==
    Simulate(fleet) = SumOf([d \in Days |-> Refused(d)])

\* Moving numbers makes and loses none, leaves every donor the need of its
\* area code and two to spare, and never costs a call on the records it was
\* planned from; with the purchase on top they are all served.
MoveIsFree ==
    LET rows == Rows
        moved == Reallocated(rows)
    IN /\ FleetSize(moved) = FleetSize(fleet)
       /\ \A n \in Npas : moved[n] < fleet[n] => moved[n] >= rows[n].need + 2
       /\ Simulate(moved) <= Simulate(fleet)
       /\ Simulate(Purchased(rows, moved)) = 0
=============================================================================
