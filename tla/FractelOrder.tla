---------------------------- MODULE FractelOrder ----------------------------
(***************************************************************************)
(* tools/fractel-order.py: buying our numbers from the carrier and binding *)
(* them to the trunk.  The tool may die at any line and is then run again; *)
(* the carrier's account and the state file are what survives.  The API    *)
(* has no order id and no idempotency key, so a purchase whose answer is   *)
(* never read is known to the carrier alone.                               *)
(*                                                                         *)
(* What is for sale changes between two searches, so a search returns any  *)
(* of the numbers that are not on the account; the tiers of the overflow   *)
(* search are then one search.                                             *)
(***************************************************************************)
EXTENDS Integers, Sequences, FiniteSets, SequencesExt, FiniteSetsExt

CONSTANTS
    Numbers,        \* the carrier's numbers
    Area,           \* Numbers -> area code
    Matched,        \* MATCHED_NPAS, a sequence
    Substitutes,    \* SUBSTITUTE_NPAS, a sequence
    PerNpa,         \* PER_NPA
    OverflowTarget, \* OVERFLOW_TARGET
    BatchMax,       \* ORDER_BATCH_MAX
    Existing,       \* numbers the account may have before the tool is first run
    MaxRuns,        \* bound of this model: how often the tool is run
    MaxFaults,      \* bound of this model: purchases whose answer is not read
    MaxEdits        \* bound of this model: numbers released or re-routed by hand

KeyOrder == Matched \o Substitutes \o <<"OVERFLOW">>
Keys == ToSet(KeyOrder)
Wanted == ToSet(Matched)
Spare == ToSet(Substitutes)

ASSUME NumbersFinite == IsFiniteSet(Numbers)
ASSUME ExistingNumbers == Existing \subseteq Numbers
ASSUME SizesNat == PerNpa \in Nat /\ OverflowTarget \in Nat
ASSUME KeysDiffer ==
    /\ Matched \in Seq(STRING) /\ Substitutes \in Seq(STRING)
    /\ Wanted \cap Spare = {} /\ "OVERFLOW" \notin Wanted \cup Spare

Rank(k) == CHOOSE i \in DOMAIN KeyOrder : KeyOrder[i] = k

VARIABLES
    account,   \* the numbers on the account
    trunk,     \* those whose calls the carrier sends to the SBC's device
    file,      \* the state file
    st,        \* the tool's copy of it
    at,        \* what the tool is doing; "off" when it is not running
    searched,  \* how many keys the plan covers so far
    plan,      \* what is still to be bought: key -> numbers
    request,   \* the numbers the request under way is about
    answer,    \* those of them an order was confirmed for
    todo,      \* the numbers still to be assigned
    runs, faults, edits,
    lost,      \* history: bought, but the answer was never read
    rerouted   \* history: re-routed by hand

books     == <<file, st, lost>>
desk      == <<searched, plan, request, answer, todo>>
orderVars == <<account, trunk, books, desk, at, runs, faults, edits, rerouted>>

NoNumbers == [k \in Keys |-> {}]
NoState == [baseline |-> {}, ordered |-> NoNumbers, assigned |-> {}]
AllOf(f) == UNION {f[k] : k \in Keys}
Have(k) == Cardinality(st.ordered[k])
Total(f, S) == MapThenSumSet(LAMBDA k : Cardinality(f[k]), S)

OrderInit ==
    /\ account \in SUBSET Existing /\ trunk = {}
    /\ file = NoState /\ st = NoState
    /\ at = "off" /\ searched = 0 /\ plan = NoNumbers
    /\ request = {} /\ answer = {} /\ todo = {}
    /\ runs = 0 /\ faults = 0 /\ edits = 0
    /\ lost = {} /\ rerouted = {}

-----------------------------------------------------------------------------
(* A run starts: the state is loaded and compared with the account.        *)

\* An empty baseline counts as none recorded.
WithBaseline(s) ==
    [s EXCEPT !.baseline = IF @ = {} THEN account ELSE @]

\* A number the account does not have was never bought, or was given back.
Reconciled(s) ==
    [s EXCEPT !.ordered = [k \in Keys |-> @[k] \cap account],
              !.assigned = @ \cap account]

\* The process ends, and what it had in memory is gone.
Ends ==
    /\ at' = "off" /\ st' = NoState
    /\ searched' = 0 /\ plan' = NoNumbers
    /\ request' = {} /\ answer' = {} /\ todo' = {}

Starts == at = "off" /\ runs < MaxRuns /\ runs' = runs + 1

Diff ==
    /\ Starts
    /\ file' = WithBaseline(file)
    /\ UNCHANGED <<account, trunk, st, lost, desk, at, faults, edits, rerouted>>

PlanOrOrder ==
    /\ Starts
    /\ st' = Reconciled(WithBaseline(file))
    /\ file' = st'
    /\ at' = "planning"
    /\ UNCHANGED <<account, trunk, lost, desk, faults, edits, rerouted>>

-----------------------------------------------------------------------------
(* build_plan: one area code at a time, the wanted ones, then substitutes  *)
(* for what those could not supply, then the overflow.                     *)

\* Substitutes bought by an earlier run do not lower it.
Shortfall ==
    MapThenSumSet(LAMBDA k : Max({0, PerNpa - Have(k) - Cardinality(plan[k])}), Wanted)
    - Total(plan, Spare)

Need(k) ==
    IF k \in Wanted THEN PerNpa - Have(k)
    ELSE IF k \in Spare THEN Min({PerNpa - Have(k), Shortfall})
    ELSE OverflowTarget - Have(k)

\* Mutant: the overflow takes numbers planned for an area code.
CandidatesPlanned(k) ==
    {n \in Numbers \ (account \cup st.baseline \cup AllOf(st.ordered)) :
        k = "OVERFLOW" \/ Area[n] = k}

\* Numbers for sale that the tool does not know as its own.
Candidates(k) ==
    {n \in Numbers \ (account \cup st.baseline \cup AllOf(st.ordered)) :
        IF k = "OVERFLOW" THEN n \notin AllOf(plan) ELSE Area[n] = k}

\* take() tests the length after it has added a number, so a substitute area
\* code that is full gives one more; the other keys are skipped when full.
Allowance(k) ==
    IF k \in Spare THEN IF Shortfall > 0 THEN Max({Need(k), 1}) ELSE 0
    ELSE Max({Need(k), 0})

Search ==
    /\ at = "planning" /\ searched < Len(KeyOrder)
    /\ LET k == KeyOrder[searched + 1]
       IN \E got \in SUBSET Candidates(k) :
            /\ Cardinality(got) <= Allowance(k)
            /\ plan' = [plan EXCEPT ![k] = got]
    /\ searched' = searched + 1
    /\ UNCHANGED <<account, trunk, books, request, answer, todo, at,
                   runs, faults, edits, rerouted>>

\* `plan` ends here, and so do an answer other than ORDER and an empty plan.
Decide ==
    /\ at = "planning" /\ searched = Len(KeyOrder)
    /\ \/ Ends
       \/ AllOf(plan) # {} /\ at' = "ordering" /\ UNCHANGED <<st, desk>>
    /\ UNCHANGED <<account, trunk, file, lost, runs, faults, edits, rerouted>>

-----------------------------------------------------------------------------
(* do_order: buy in batches, then assign.                                  *)

\* The next BatchMax numbers of the plan, in the order of its keys.
Batches ==
    {b \in SUBSET AllOf(plan) :
        /\ Cardinality(b) = Min({BatchMax, Cardinality(AllOf(plan))})
        /\ \A n \in b, m \in AllOf(plan) \ b, k, l \in Keys :
               n \in plan[k] /\ m \in plan[l] => Rank(k) <= Rank(l)}

\* POST: the carrier sells what it still can of the batch.  When it answers
\* with a 5xx after selling, the order is repeated, and confirmed only for
\* what was not on the account yet.
Post ==
    /\ at = "ordering"
    /\ request' \in Batches
    /\ \E sold \in SUBSET (request' \ account) :
         \/ /\ account' = account \cup sold
            /\ answer' = sold
            /\ UNCHANGED <<lost, faults>>
         \/ \E again \in SUBSET (request' \ (account \cup sold)) :
              /\ sold # {} /\ faults < MaxFaults /\ faults' = faults + 1
              /\ account' = account \cup sold \cup again
              /\ lost' = lost \cup sold
              /\ answer' = again
    /\ at' = "ordered"
    /\ UNCHANGED <<trunk, file, st, searched, plan, todo, runs, edits, rerouted>>

\* After the last batch every number not known to be on the trunk is assigned.
Bought ==
    /\ st' = [st EXCEPT !.ordered = [k \in Keys |-> @[k] \cup (plan[k] \cap answer)]]
    /\ plan' = [k \in Keys |-> plan[k] \ request]
    /\ todo' = IF AllOf(plan') = {} THEN AllOf(st'.ordered) \ st.assigned ELSE {}
    /\ at' = IF AllOf(plan') = {} THEN "assigning" ELSE "ordering"
    /\ request' = {} /\ answer' = {}
    /\ searched' = searched

\* Mutant: the state file is written when the last batch is through.
RecordAtTheEnd ==
    /\ at = "ordered"
    /\ Bought
    /\ file' = IF AllOf(plan') = {} THEN st' ELSE file
    /\ UNCHANGED <<account, trunk, lost, runs, faults, edits, rerouted>>

\* What was confirmed is written to the state file, batch by batch.
Record ==
    /\ at = "ordered"
    /\ Bought
    /\ file' = st'
    /\ UNCHANGED <<account, trunk, lost, runs, faults, edits, rerouted>>

\* PUT: the carrier sends the number to the device, or says so and does not.
Assign ==
    /\ at = "assigning"
    /\ \E n \in todo \cap account, took \in BOOLEAN :
         /\ request' = {n}
         /\ trunk' = IF took THEN trunk \cup {n} ELSE trunk
         /\ rerouted' = IF took THEN rerouted \ {n} ELSE rerouted
    /\ at' = "assigned"
    /\ UNCHANGED <<account, books, searched, plan, answer, todo, runs, faults, edits>>

\* GET: only a number seen on the device counts as assigned.
Verify ==
    /\ at = "assigned"
    /\ request \subseteq account
    /\ st' = [st EXCEPT !.assigned = @ \cup (request \cap trunk)]
    /\ file' = IF request \subseteq trunk THEN st' ELSE file
    /\ todo' = todo \ request /\ request' = {}
    /\ at' = "assigning"
    /\ UNCHANGED <<account, trunk, lost, searched, plan, answer,
                   runs, faults, edits, rerouted>>

\* Done; or killed, or ended by an API error, a timeout or ^C.  An order that
\* was carried out and the state file does not have yet is then lost.
Exit ==
    /\ at # "off"
    /\ Ends
    /\ lost' = lost \cup answer
    /\ UNCHANGED <<account, trunk, file, runs, faults, edits, rerouted>>

-----------------------------------------------------------------------------
(* The carrier's portal, by hand.                                          *)

Release(n) ==
    /\ edits < MaxEdits /\ edits' = edits + 1
    /\ account' = account \ {n} /\ trunk' = trunk \ {n}
    /\ UNCHANGED <<books, desk, at, runs, faults, rerouted>>

Reroute(n) ==
    /\ edits < MaxEdits /\ edits' = edits + 1
    /\ n \in trunk /\ trunk' = trunk \ {n}
    /\ rerouted' = rerouted \cup {n}
    /\ UNCHANGED <<account, books, desk, at, runs, faults>>

OrderNext ==
    \/ Diff \/ PlanOrOrder \/ Search \/ Decide
    \/ Post \/ Record \/ Assign \/ Verify \/ Exit
    \/ \E n \in account : Release(n) \/ Reroute(n)

-----------------------------------------------------------------------------
(* Properties.                                                             *)

\* Safety: the state file and the account agree.  Every number bought is in
\* the file, save for one whose purchase was never confirmed to the tool
\* (the API has no order id to ask for it), and a number the file has as
\* assigned is on the trunk, unless somebody re-routed it by hand.
BooksMatchTheAccount ==
    /\ account \ Existing \subseteq
           file.baseline \cup AllOf(file.ordered) \cup lost \cup answer
    /\ file.assigned \cap account \subseteq trunk \cup rerouted

\* emit_csv: the rows of dids.csv.
CsvRows == {row \in Keys \X Numbers : row[2] \in file.ordered[row[1]]}

\* Safety: however often the tool is run and dies, a number stands in one
\* pool of dids.csv and no pool the tool fills to a size goes beyond it.
\* Substitute area codes have no such size: every run that finds a wanted
\* area code short draws the whole shortfall from them again.
PoolsKeepTheirSize ==
    /\ \A row, other \in CsvRows : row[2] = other[2] => row = other
    /\ \A k \in Wanted : Cardinality(file.ordered[k]) <= PerNpa
    /\ Cardinality(file.ordered["OVERFLOW"]) <= OverflowTarget
=============================================================================
