---------------------------- MODULE ToolsProofs ----------------------------
(* What TLAPS proves of fractel-order.py, for any numbers, area codes and  *)
(* batch size, and any number of runs, crashes, lost answers and edits;    *)
(* and of analyze-did-capacity.py, for any fleet, settings and calls.      *)
EXTENDS Tools, FiniteSetTheorems, SequenceTheorems, WellFoundedInduction, TLAPS

StateFiles == [baseline : SUBSET Numbers, ordered : [Keys -> SUBSET Numbers],
               assigned : SUBSET Numbers]

OrderTypeOK ==
    /\ account \subseteq Numbers
    /\ file \in StateFiles /\ st \in StateFiles
    /\ plan \in [Keys -> SUBSET Numbers]

\* While the tool runs its copy is the state file; what it is about to buy is
\* new to the file, what it was just sold is part of that, and what it is about
\* to assign is in the file.
DeskInv ==
    /\ at = "off" => todo = {}
    /\ at # "off" => st = file
    /\ AllOf(plan) \cap AllOf(file.ordered) = {}
    /\ at # "ordered" => answer = {}
    /\ answer \subseteq request /\ answer \subseteq AllOf(plan)
    /\ at = "assigned" => \E n \in todo : request = {n}
    /\ todo \subseteq AllOf(file.ordered)
    /\ file.assigned \subseteq AllOf(file.ordered)

\* The inductive invariant.
OrderInv == OrderTypeOK /\ DeskInv /\ BooksMatchTheAccount

(***************************************************************************)
(* Each action keeps it.                                                   *)
(***************************************************************************)
LEMMA OrderInvInit == OrderInit => OrderInv
<1> SUFFICES ASSUME OrderInit PROVE OrderInv
    OBVIOUS
<1>1. NoState \in StateFiles /\ NoNumbers \in [Keys -> SUBSET Numbers]
  BY DEF NoState, NoNumbers, StateFiles
<1>2. OrderTypeOK
  BY <1>1, ExistingNumbers DEF OrderInit, OrderTypeOK
<1> QED
  BY <1>2 DEF OrderInit, OrderInv, DeskInv, BooksMatchTheAccount, NoState, NoNumbers, AllOf

\* What a run starts from: the state file with a baseline, and reconciled.
LEMMA StartingBooks ==
    ASSUME OrderTypeOK, NEW s \in StateFiles
    PROVE  /\ WithBaseline(s) \in StateFiles /\ Reconciled(s) \in StateFiles
           /\ WithBaseline(s).ordered = s.ordered
           /\ WithBaseline(s).assigned = s.assigned
           /\ s.baseline \subseteq WithBaseline(s).baseline
           /\ Reconciled(s).baseline = s.baseline
           /\ Reconciled(s).assigned = s.assigned \cap account
           /\ \A k \in Keys : Reconciled(s).ordered[k] \subseteq s.ordered[k]
           /\ AllOf(Reconciled(s).ordered) = AllOf(s.ordered) \cap account
<1> DEFINE b == IF s.baseline = {} THEN account ELSE s.baseline
           o == [k \in Keys |-> s.ordered[k] \cap account]
           a == s.assigned \cap account
<1>1. /\ s = [baseline |-> s.baseline, ordered |-> s.ordered, assigned |-> s.assigned]
      /\ b \in SUBSET Numbers /\ s.baseline \subseteq b
      /\ o \in [Keys -> SUBSET Numbers] /\ a \in SUBSET Numbers
  BY DEF OrderTypeOK, StateFiles
<1>2. WithBaseline(s) = [s EXCEPT !.baseline = b]
  BY Zenon DEF WithBaseline
<1>3. Reconciled(s) = [s EXCEPT !.ordered = o, !.assigned = a]
  BY Zenon DEF Reconciled
<1>4. AllOf(o) = AllOf(s.ordered) \cap account
  BY DEF AllOf
<1> HIDE DEF b, o, a
<1>5. WithBaseline(s) \in StateFiles /\ Reconciled(s) \in StateFiles
  BY <1>1, <1>2, <1>3 DEF StateFiles
<1> QED
  BY <1>1, <1>2, <1>3, <1>4, <1>5 DEF b, o, a

LEMMA DiffKeeps == ASSUME OrderInv, Diff PROVE OrderInv'
<1> USE DEF OrderInv
<1>1. /\ file' \in StateFiles /\ file'.ordered = file.ordered
      /\ file'.assigned = file.assigned /\ file.baseline \subseteq file'.baseline
  BY StartingBooks DEF Diff, OrderTypeOK
<1>2. at = "off" /\ UNCHANGED <<account, trunk, st, lost, desk, at, rerouted>>
  BY DEF Diff, Starts
<1>3. OrderTypeOK'
  BY <1>1, <1>2 DEF OrderTypeOK, desk
<1>4. DeskInv'
  BY <1>1, <1>2 DEF DeskInv, AllOf, desk
<1>5. BooksMatchTheAccount'
  BY <1>1, <1>2 DEF BooksMatchTheAccount, AllOf, desk
<1> QED
  BY <1>3, <1>4, <1>5

LEMMA PlanOrOrderKeeps == ASSUME OrderInv, PlanOrOrder PROVE OrderInv'
<1> USE DEF OrderInv
<1> DEFINE s == WithBaseline(file)
<1>1. file \in StateFiles /\ s \in StateFiles
  BY StartingBooks DEF OrderTypeOK
<1>2. /\ file' = Reconciled(s) /\ st' = file' /\ at = "off" /\ at' = "planning"
      /\ UNCHANGED <<account, trunk, lost, desk, rerouted>>
  BY DEF PlanOrOrder, Starts
<1>3. /\ file' \in StateFiles
      /\ file.baseline \subseteq file'.baseline
      /\ AllOf(file'.ordered) = AllOf(file.ordered) \cap account
      /\ file'.assigned = file.assigned \cap account
  BY <1>1, <1>2, StartingBooks
<1>4. OrderTypeOK'
  BY <1>2, <1>3 DEF OrderTypeOK, desk
<1>5. answer' = {} /\ todo' = {} /\ plan' = plan /\ request' = request
  BY <1>2 DEF DeskInv, desk
<1>6. AllOf(plan') \cap AllOf(file'.ordered) = {}
  BY <1>3, <1>5 DEF DeskInv
<1>7. DeskInv'
  BY <1>2, <1>3, <1>5, <1>6 DEF DeskInv
<1>8. BooksMatchTheAccount'
  BY <1>2, <1>3, <1>5 DEF BooksMatchTheAccount, DeskInv
<1> QED
  BY <1>4, <1>7, <1>8

\* The numbers of the plan a search adds are new to the file.
LEMMA SearchKeeps == ASSUME OrderInv, Search PROVE OrderInv'
<1> USE DEF OrderInv
<1> DEFINE k == KeyOrder[searched + 1]
<1>1. /\ at = "planning" /\ at' = at
      /\ UNCHANGED <<account, trunk, file, st, lost, request, answer, todo, rerouted>>
  BY DEF Search, books
<1>2. PICK got \in SUBSET Candidates(k) : plan' = [plan EXCEPT ![k] = got]
  BY DEF Search
<1>3. got \subseteq Numbers /\ got \cap AllOf(file.ordered) = {}
  BY <1>1 DEF Candidates, DeskInv
<1>4. OrderTypeOK'
  BY <1>1, <1>2, <1>3 DEF OrderTypeOK
<1>5. AllOf(plan') \subseteq AllOf(plan) \cup got
  BY <1>2 DEF AllOf, OrderTypeOK
<1>6. answer = {}
  BY <1>1 DEF DeskInv
<1>7. DeskInv'
  BY <1>1, <1>3, <1>5, <1>6 DEF DeskInv
<1>8. BooksMatchTheAccount'
  BY <1>1 DEF BooksMatchTheAccount
<1> QED
  BY <1>4, <1>7, <1>8

\* The process ends; an answer it had is noted as lost.
LEMMA EndKeeps ==
    ASSUME OrderInv, Ends, UNCHANGED <<account, trunk, file, rerouted>>,
           lost' = lost \cup answer
    PROVE  OrderInv'
<1> USE DEF OrderInv
<1>1. st' = NoState /\ plan' = NoNumbers /\ at' = "off"
      /\ request' = {} /\ answer' = {} /\ todo' = {}
  BY DEF Ends
<1>2. NoState \in StateFiles /\ NoNumbers \in [Keys -> SUBSET Numbers]
      /\ AllOf(NoNumbers) = {}
  BY DEF NoState, NoNumbers, StateFiles, AllOf
<1>3. OrderTypeOK'
  BY <1>1, <1>2 DEF OrderTypeOK
<1>4. DeskInv'
  BY <1>1, <1>2 DEF DeskInv
<1>5. BooksMatchTheAccount'
  BY <1>1 DEF BooksMatchTheAccount
<1> QED
  BY <1>3, <1>4, <1>5

LEMMA DecideKeeps == ASSUME OrderInv, Decide PROVE OrderInv'
<1> USE DEF OrderInv
<1>1. at = "planning" /\ answer = {}
      /\ UNCHANGED <<account, trunk, file, lost, rerouted>>
  BY DEF Decide, DeskInv
<1>2. CASE Ends
  BY <1>1, <1>2, EndKeeps
<1>3. CASE at' = "ordering" /\ UNCHANGED <<st, desk>>
  <2>1. UNCHANGED <<st, plan, request, answer, todo>>
    BY <1>3 DEF desk
  <2>2. OrderTypeOK'
    BY <1>1, <2>1 DEF OrderTypeOK
  <2>3. DeskInv'
    BY <1>1, <1>3, <2>1 DEF DeskInv
  <2>4. BooksMatchTheAccount'
    BY <1>1, <2>1 DEF BooksMatchTheAccount
  <2> QED
    BY <2>2, <2>3, <2>4
<1> QED
  BY <1>2, <1>3 DEF Decide

\* What is sold without an answer is lost; the rest is in the answer.  None of
\* it is assigned: the file did not know it.
LEMMA PostKeeps == ASSUME OrderInv, Post PROVE OrderInv'
<1> USE DEF OrderInv
<1>1. at = "ordering" /\ at' = "ordered" /\ request' \subseteq AllOf(plan)
      /\ UNCHANGED <<trunk, file, st, plan, todo, rerouted>>
  BY DEF Post, Batches
<1>2. /\ account' \subseteq account \cup request'
      /\ account' \subseteq account \cup lost' \cup answer'
      /\ lost \subseteq lost' /\ answer' \subseteq request'
  BY DEF Post
<1>3. answer = {}
  BY <1>1 DEF DeskInv
<1>4. AllOf(plan) \subseteq Numbers
  BY DEF OrderTypeOK, AllOf
<1>5. request' \cap file.assigned = {}
  BY <1>1 DEF DeskInv
<1>6. OrderTypeOK'
  BY <1>1, <1>2, <1>4 DEF OrderTypeOK
<1>7. DeskInv'
  BY <1>1, <1>2 DEF DeskInv
<1>8. BooksMatchTheAccount'
  BY <1>1, <1>2, <1>3, <1>5 DEF BooksMatchTheAccount
<1> QED
  BY <1>6, <1>7, <1>8

\* What was confirmed moves from the plan to the file.
LEMMA RecordKeeps == ASSUME OrderInv, Record PROVE OrderInv'
<1> USE DEF OrderInv
<1>1. /\ st' = [st EXCEPT !.ordered = [k \in Keys |-> @[k] \cup (plan[k] \cap answer)]]
      /\ plan' = [k \in Keys |-> plan[k] \ request]
      /\ todo' \subseteq AllOf(st'.ordered)
      /\ at' \in {"assigning", "ordering"}
      /\ answer' = {} /\ request' = {} /\ file' = st'
      /\ at = "ordered"
      /\ UNCHANGED <<account, trunk, lost, rerouted>>
  BY DEF Record, Bought
<1>2. st = file /\ st \in StateFiles
  BY <1>1 DEF DeskInv, OrderTypeOK
<1>3. /\ file' \in StateFiles /\ st' \in StateFiles
      /\ file'.baseline = file.baseline /\ file'.assigned = file.assigned
      /\ file'.ordered = [k \in Keys |-> file.ordered[k] \cup (plan[k] \cap answer)]
  BY <1>1, <1>2 DEF StateFiles, OrderTypeOK
<1>4. AllOf(file'.ordered) = AllOf(file.ordered) \cup answer
  <2>1. answer \subseteq AllOf(plan)
    BY DEF DeskInv
  <2> QED
    BY <1>3, <2>1 DEF AllOf
<1>5. AllOf(plan') = AllOf(plan) \ request /\ plan' \in [Keys -> SUBSET Numbers]
  BY <1>1 DEF AllOf, OrderTypeOK
<1>6. OrderTypeOK'
  BY <1>1, <1>3, <1>5 DEF OrderTypeOK
<1>7. DeskInv'
  BY <1>1, <1>3, <1>4, <1>5 DEF DeskInv
<1>8. BooksMatchTheAccount'
  BY <1>1, <1>3, <1>4 DEF BooksMatchTheAccount
<1> QED
  BY <1>6, <1>7, <1>8

LEMMA AssignKeeps == ASSUME OrderInv, Assign PROVE OrderInv'
<1> USE DEF OrderInv
<1>1. /\ at = "assigning" /\ at' = "assigned"
      /\ UNCHANGED <<account, file, st, lost, plan, answer, todo>>
  BY DEF Assign, books
<1>2. /\ \E n \in todo : request' = {n}
      /\ trunk \cup rerouted \subseteq trunk' \cup rerouted'
  BY DEF Assign
<1>3. OrderTypeOK'
  BY <1>1 DEF OrderTypeOK
<1>4. DeskInv'
  BY <1>1, <1>2 DEF DeskInv
<1>5. BooksMatchTheAccount'
  BY <1>1, <1>2 DEF BooksMatchTheAccount
<1> QED
  BY <1>3, <1>4, <1>5

\* Only a number seen on the trunk becomes assigned.
LEMMA VerifyKeeps == ASSUME OrderInv, Verify PROVE OrderInv'
<1> USE DEF OrderInv
<1>1. /\ at = "assigned" /\ at' = "assigning"
      /\ st' = [st EXCEPT !.assigned = @ \cup (request \cap trunk)]
      /\ file' = IF request \subseteq trunk THEN st' ELSE file
      /\ todo' = todo \ request /\ request' = {}
      /\ UNCHANGED <<account, trunk, lost, plan, answer, rerouted>>
  BY DEF Verify
<1>2. st = file /\ st \in StateFiles /\ answer = {}
  BY <1>1 DEF DeskInv, OrderTypeOK
<1>3. PICK n \in todo : request = {n}
  BY <1>1 DEF DeskInv
<1>4. st' = file'
  BY <1>1, <1>2, <1>3 DEF StateFiles
<1>5. request \subseteq AllOf(file.ordered) /\ AllOf(file.ordered) \subseteq Numbers
  BY <1>3 DEF DeskInv, AllOf, OrderTypeOK, StateFiles
<1>6. /\ file' \in StateFiles /\ file'.ordered = file.ordered
      /\ file'.baseline = file.baseline
      /\ file'.assigned = file.assigned \cup (request \cap trunk)
  BY <1>1, <1>2, <1>4, <1>5 DEF StateFiles
<1>7. OrderTypeOK'
  BY <1>1, <1>4, <1>6 DEF OrderTypeOK
<1>8. DeskInv'
  BY <1>1, <1>2, <1>4, <1>5, <1>6 DEF DeskInv
<1>9. BooksMatchTheAccount'
  BY <1>1, <1>2, <1>6 DEF BooksMatchTheAccount
<1> QED
  BY <1>7, <1>8, <1>9

LEMMA PortalKeeps ==
    ASSUME OrderInv, NEW n \in account, Release(n) \/ Reroute(n) PROVE OrderInv'
<1> USE DEF OrderInv
<1>1. UNCHANGED <<file, st, lost, plan, request, answer, todo, at>>
  BY DEF Release, Reroute, books, desk
<1>2. /\ account' \subseteq account
      /\ (trunk \cup rerouted) \cap account' \subseteq trunk' \cup rerouted'
  BY DEF Release, Reroute
<1>3. OrderTypeOK'
  BY <1>1, <1>2 DEF OrderTypeOK
<1>4. DeskInv'
  BY <1>1 DEF DeskInv
<1>5. BooksMatchTheAccount'
  BY <1>1, <1>2 DEF BooksMatchTheAccount
<1> QED
  BY <1>3, <1>4, <1>5

LEMMA OrderInvStep == OrderInv /\ [Next]_toolVars => OrderInv'
<1> SUFFICES ASSUME OrderInv, [Next]_toolVars PROVE OrderInv'
    OBVIOUS
<1>1. CASE OrderNext
  <2>1. CASE Exit
    BY <2>1, EndKeeps DEF Exit
  <2> QED
    BY <1>1, <2>1, DiffKeeps, PlanOrOrderKeeps, SearchKeeps, DecideKeeps, PostKeeps,
       RecordKeeps, AssignKeeps, VerifyKeeps, PortalKeeps DEF OrderNext
<1>2. CASE UNCHANGED orderVars
  <2>1. UNCHANGED <<account, trunk, file, st, lost, plan, request, answer, todo, at, rerouted>>
    BY <1>2 DEF orderVars, books, desk
  <2> QED
    BY <2>1 DEF OrderInv, OrderTypeOK, DeskInv, BooksMatchTheAccount
<1> QED
  BY <1>1, <1>2 DEF Next, toolVars

(***************************************************************************)
(* The state file and the account.                                         *)
(***************************************************************************)
\* fractel-order.py's state file and the carrier's account agree, whatever
\* ended its runs: a number that was bought is in the file unless its order was
\* never confirmed to the tool, and a number the file has as assigned is on the
\* trunk unless somebody re-routed it (fractel-order.py:22-34).
THEOREM StateFileIsTrue == Spec => []BooksMatchTheAccount
<1>1. Init => OrderInv
  BY OrderInvInit DEF Init
<1>2. OrderInv => BooksMatchTheAccount
  BY DEF OrderInv
<1> QED
  BY <1>1, <1>2, OrderInvStep, PTL DEF Spec

(***************************************************************************)
(* The pools.                                                              *)
(***************************************************************************)
\* What the tool has bought for a key and is about to buy.
Pool(k) == file.ordered[k] \cup plan[k]

\* A number for an area code has that code and is not in the overflow as well,
\* and no pool is bought or planned beyond its size.  The overflow comes last.
PoolInv ==
    /\ searched \in Nat
    /\ at = "off" => plan = NoNumbers
    /\ at = "planning" /\ searched < Len(KeyOrder) => plan["OVERFLOW"] = {}
    /\ \A k \in Keys \ {"OVERFLOW"} : \A n \in Pool(k) :
           Area[n] = k /\ n \notin Pool("OVERFLOW")
    /\ \A k \in Wanted : Cardinality(Pool(k)) <= PerNpa
    /\ Cardinality(Pool("OVERFLOW")) <= OverflowTarget

LEMMA KeyFacts ==
    /\ "OVERFLOW" \in Keys /\ Wanted \subseteq Keys
    /\ \A i \in 1 .. Len(KeyOrder) : KeyOrder[i] = "OVERFLOW" => i = Len(KeyOrder)
<1> DEFINE M == Len(Matched)
           S == Len(Substitutes)
<1> USE KeysDiffer
<1> DEFINE MS == Matched \o Substitutes
<1>1. M \in Nat /\ S \in Nat
  BY LenProperties
<1>2. /\ MS \in Seq(STRING) /\ Len(MS) = M + S
      /\ \A i \in 1 .. M + S :
             MS[i] = IF i <= M THEN Matched[i] ELSE Substitutes[i - M]
  BY <1>1, ConcatProperties
<1>3. /\ Len(KeyOrder) = M + S + 1
      /\ KeyOrder[M + S + 1] = "OVERFLOW"
      /\ \A i \in 1 .. M + S : KeyOrder[i] = MS[i]
  <2>1. KeyOrder = Append(MS, "OVERFLOW")
    BY <1>2, AppendIsConcat DEF KeyOrder
  <2>2. MS \in Seq(STRING)
    BY <1>2
  <2> HIDE DEF MS, M, S
  <2>3. /\ Len(Append(MS, "OVERFLOW")) = Len(MS) + 1
        /\ \A i \in 1 .. Len(MS) : Append(MS, "OVERFLOW")[i] = MS[i]
        /\ Append(MS, "OVERFLOW")[Len(MS) + 1] = "OVERFLOW"
    BY <2>2
  <2>4. Len(MS) = M + S
    BY <1>2
  <2> QED
    BY <2>1, <2>3, <2>4
<1> HIDE DEF MS
<1>4. /\ \A i \in 1 .. M : Matched[i] \in Wanted
      /\ \A i \in 1 .. S : Substitutes[i] \in Spare
      /\ \A i \in 1 .. M + S + 1 : KeyOrder[i] \in Keys
  BY <1>3 DEF Wanted, Spare, Keys, ToSet
<1>5. Wanted \subseteq Keys
  <2> SUFFICES ASSUME NEW k \in Wanted PROVE k \in Keys
    OBVIOUS
  <2>1. PICK i \in 1 .. M : k = Matched[i]
    BY DEF Wanted, ToSet
  <2>2. i \in 1 .. M + S /\ k = KeyOrder[i]
    BY <1>1, <1>2, <1>3, <2>1
  <2> QED
    BY <1>1, <1>4, <2>2
<1>6. \A i \in 1 .. M + S : KeyOrder[i] \in Wanted \cup Spare
  <2> SUFFICES ASSUME NEW i \in 1 .. M + S PROVE KeyOrder[i] \in Wanted \cup Spare
    OBVIOUS
  <2>1. CASE i <= M
    <3>1. i \in 1 .. M
      BY <1>1, <2>1
    <3>2. KeyOrder[i] = Matched[i]
      BY <1>2, <1>3, <2>1
    <3> QED
      BY <1>4, <3>1, <3>2
  <2>2. CASE i > M
    <3>1. i - M \in 1 .. S
      BY <1>1, <2>2
    <3> QED
      BY <1>1, <1>2, <1>3, <1>4, <2>2, <3>1
  <2> QED
    BY <1>1, <2>1, <2>2
<1>7. "OVERFLOW" \in Keys
  BY <1>1, <1>3, <1>4
<1>8. \A i \in 1 .. Len(KeyOrder) : KeyOrder[i] = "OVERFLOW" => i = Len(KeyOrder)
  <2> SUFFICES ASSUME NEW i \in 1 .. Len(KeyOrder), KeyOrder[i] = "OVERFLOW"
               PROVE i = Len(KeyOrder)
    OBVIOUS
  <2>1. i \notin 1 .. M + S
    BY <1>6
  <2> QED
    BY <1>1, <1>3, <2>1
<1> QED
  BY <1>5, <1>7, <1>8

\* Every step but a search leaves each pool as it is or smaller.
LEMMA PoolsShrink ==
    ASSUME OrderTypeOK, PoolInv, searched' \in Nat, at' = "off" => plan' = NoNumbers,
           at' = "planning" /\ searched' < Len(KeyOrder) => plan'["OVERFLOW"] = {},
           \A k \in Keys : Pool(k)' \subseteq Pool(k)
    PROVE  PoolInv'
<1>1. \A k \in Keys : IsFiniteSet(Pool(k)) /\ Cardinality(Pool(k)) \in Nat
                      /\ Cardinality(Pool(k)') \in Nat
                      /\ Cardinality(Pool(k)') <= Cardinality(Pool(k))
  <2> SUFFICES ASSUME NEW k \in Keys
               PROVE  /\ IsFiniteSet(Pool(k)) /\ Cardinality(Pool(k)) \in Nat
                      /\ Cardinality(Pool(k)') \in Nat
                      /\ Cardinality(Pool(k)') <= Cardinality(Pool(k))
    OBVIOUS
  <2>1. Pool(k) \subseteq Numbers
    BY DEF Pool, OrderTypeOK, StateFiles
  <2> QED
    BY <2>1, NumbersFinite, FS_Subset, FS_CardinalityType
<1>2. Keys \ {"OVERFLOW"} \subseteq Keys /\ "OVERFLOW" \in Keys /\ Wanted \subseteq Keys
  BY KeyFacts
<1>3. \A k \in Keys \ {"OVERFLOW"} : \A n \in Pool(k)' :
          Area[n] = k /\ n \notin Pool("OVERFLOW")'
  BY <1>2 DEF PoolInv
<1>4. \A k \in Wanted : Cardinality(Pool(k)') <= PerNpa
  BY <1>1, <1>2, SizesNat DEF PoolInv
<1>5. Cardinality(Pool("OVERFLOW")') <= OverflowTarget
  BY <1>1, <1>2, SizesNat DEF PoolInv
<1> QED
  BY <1>3, <1>4, <1>5 DEF PoolInv

\* A search adds no more than the pool has room for.
LEMMA SearchFits ==
    ASSUME OrderInv, PoolInv, Search PROVE PoolInv'
<1>0. PICK k : k = KeyOrder[searched + 1]
  OBVIOUS
<1>1. /\ at = "planning" /\ at' = at /\ searched < Len(KeyOrder) /\ file' = file
      /\ searched' = searched + 1 /\ st = file
  BY DEF Search, books, OrderInv, DeskInv
<1>2. PICK got \in SUBSET Candidates(k) :
          Cardinality(got) <= Allowance(k) /\ plan' = [plan EXCEPT ![k] = got]
  BY <1>0 DEF Search
<1>3. searched \in Nat /\ plan["OVERFLOW"] = {} /\ Len(KeyOrder) \in Nat
  BY <1>1, KeysDiffer DEF PoolInv, KeyOrder
<1>4. searched' \in Nat
  BY <1>1, <1>3
<1>5. k = "OVERFLOW" => searched' = Len(KeyOrder)
  <2>1. searched + 1 \in 1 .. Len(KeyOrder)
    BY <1>1, <1>3
  <2> QED
    BY <1>0, <1>1, <2>1, KeyFacts
<1>6. \A l \in Keys \ {k} : plan'[l] = plan[l] /\ Pool(l)' = Pool(l)
  BY <1>1, <1>2 DEF Pool, OrderInv, OrderTypeOK
<1>7. at' = "planning" /\ searched' < Len(KeyOrder) => plan'["OVERFLOW"] = {}
  BY <1>1, <1>3, <1>5, <1>6, KeyFacts
<1>8. CASE k \notin Keys
  BY <1>1, <1>3, <1>4, <1>6, <1>7, <1>8, KeyFacts DEF PoolInv
<1>9. CASE k \in Keys
  <2>1. Pool(k)' = file.ordered[k] \cup got
    BY <1>1, <1>2, <1>9 DEF Pool, OrderInv, OrderTypeOK
  <2>2. got \cap AllOf(file.ordered) = {}
        /\ (k # "OVERFLOW" => \A n \in got : Area[n] = k)
        /\ (k = "OVERFLOW" => got \cap AllOf(plan) = {})
    BY <1>1 DEF Candidates
  <2>3. \A l \in Keys \ {"OVERFLOW"} : \A n \in Pool(l)' :
            Area[n] = l /\ n \notin Pool("OVERFLOW")'
    <3>1. CASE k = "OVERFLOW"
      <4>1. \A l \in Keys \ {"OVERFLOW"} : Pool(l)' = Pool(l) /\ got \cap Pool(l) = {}
        BY <1>6, <2>2, <3>1 DEF AllOf, Pool
      <4>2. Pool("OVERFLOW")' \subseteq Pool("OVERFLOW") \cup got
        BY <2>1, <3>1 DEF Pool
      <4> QED
        BY <4>1, <4>2 DEF PoolInv
    <3>2. CASE k # "OVERFLOW"
      <4>1. Pool("OVERFLOW")' = file.ordered["OVERFLOW"] /\ "OVERFLOW" \in Keys
        BY <1>1, <1>3, <1>6, <3>2, KeyFacts DEF Pool
      <4>2. Pool("OVERFLOW")' \subseteq Pool("OVERFLOW")
            /\ got \cap Pool("OVERFLOW")' = {}
        BY <2>2, <4>1 DEF AllOf, Pool
      <4>3. \A n \in file.ordered[k] : Area[n] = k /\ n \notin Pool("OVERFLOW")
        BY <1>9, <3>2 DEF PoolInv, Pool
      <4>4. \A n \in Pool(k)' : Area[n] = k /\ n \notin Pool("OVERFLOW")'
        BY <2>1, <2>2, <3>2, <4>2, <4>3
      <4>5. \A l \in Keys \ {"OVERFLOW", k} : \A n \in Pool(l)' :
                Area[n] = l /\ n \notin Pool("OVERFLOW")'
        BY <1>6, <4>2 DEF PoolInv
      <4> QED
        BY <4>4, <4>5
    <3> QED
      BY <3>1, <3>2
  <2>4. /\ IsFiniteSet(file.ordered[k]) /\ IsFiniteSet(got) /\ IsFiniteSet(Pool(k))
        /\ Cardinality(file.ordered[k]) \in Nat /\ Cardinality(got) \in Nat
        /\ Cardinality(Pool(k)) \in Nat
        /\ Cardinality(file.ordered[k]) <= Cardinality(Pool(k))
    <3>1. /\ file.ordered[k] \subseteq Pool(k) /\ Pool(k) \subseteq Numbers
          /\ got \subseteq Numbers
      BY <1>9 DEF Pool, OrderInv, OrderTypeOK, StateFiles, Candidates
    <3> QED
      BY <3>1, NumbersFinite, FS_Subset, FS_CardinalityType
  <2>5. /\ Cardinality(Pool(k)') \in Nat
        /\ Cardinality(Pool(k)') <= Cardinality(file.ordered[k]) + Cardinality(got)
        /\ Have(k) = Cardinality(file.ordered[k])
    <3>1. /\ Cardinality(file.ordered[k] \cup got) \in Nat
          /\ Cardinality(file.ordered[k] \cup got)
                = Cardinality(file.ordered[k]) + Cardinality(got)
                  - Cardinality(file.ordered[k] \cap got)
          /\ Cardinality(file.ordered[k] \cap got) \in Nat
      BY <2>4, FS_Union, FS_Intersection, FS_CardinalityType
    <3> QED
      BY <1>1, <2>1, <2>4, <3>1 DEF Have
  <2>6. k \in Wanted => Cardinality(Pool(k)') <= PerNpa
    <3> SUFFICES ASSUME k \in Wanted PROVE Cardinality(Pool(k)') <= PerNpa
      OBVIOUS
    <3>1. k \notin Spare /\ Cardinality(Pool(k)) <= PerNpa
      BY KeysDiffer DEF PoolInv
    <3>2. Need(k) = PerNpa - Have(k) /\ Need(k) \in Nat
      BY <2>4, <2>5, <3>1, SizesNat DEF Need
    <3>3. Max({Need(k), 0}) = Need(k)
      BY <3>2 DEF Max
    <3>4. Cardinality(got) <= PerNpa - Have(k)
      BY <1>2, <3>1, <3>2, <3>3 DEF Allowance
    <3> QED
      BY <2>4, <2>5, <3>4, SizesNat
  <2>7. k = "OVERFLOW" => Cardinality(Pool(k)') <= OverflowTarget
    <3> SUFFICES ASSUME k = "OVERFLOW" PROVE Cardinality(Pool(k)') <= OverflowTarget
      OBVIOUS
    <3>1. k \notin Spare /\ k \notin Wanted /\ Cardinality(Pool(k)) <= OverflowTarget
      BY KeysDiffer DEF PoolInv
    <3>2. Need(k) = OverflowTarget - Have(k) /\ Need(k) \in Nat
      BY <2>4, <2>5, <3>1, SizesNat DEF Need
    <3>3. Max({Need(k), 0}) = Need(k)
      BY <3>2 DEF Max
    <3>4. Cardinality(got) <= OverflowTarget - Have(k)
      BY <1>2, <3>1, <3>2, <3>3 DEF Allowance
    <3> QED
      BY <2>4, <2>5, <3>4, SizesNat
  <2>8. \A l \in Wanted : Cardinality(Pool(l)') <= PerNpa
    BY <1>6, <2>6, KeyFacts DEF PoolInv
  <2>9. Cardinality(Pool("OVERFLOW")') <= OverflowTarget
    BY <1>6, <2>7, KeyFacts DEF PoolInv
  <2> QED
    BY <1>1, <1>4, <1>7, <2>3, <2>8, <2>9 DEF PoolInv
<1> QED
  BY <1>8, <1>9

\* The pools stay as they are or shrink, whatever else a step does.
LEMMA PoolInvStep == OrderInv /\ PoolInv /\ [Next]_toolVars => PoolInv'
<1> SUFFICES ASSUME OrderInv, PoolInv, [Next]_toolVars PROVE PoolInv'
    OBVIOUS
<1> DEFINE Kept ==
        /\ searched' \in Nat /\ (at' = "off" => plan' = NoNumbers)
        /\ at' = "planning" /\ searched' < Len(KeyOrder) => plan'["OVERFLOW"] = {}
        /\ \A k \in Keys : Pool(k)' \subseteq Pool(k)
<1>1. SUFFICES ASSUME ~Search PROVE Kept
  BY <1>1, SearchFits, PoolsShrink DEF OrderInv
<1>2. NoNumbers = [k \in Keys |-> {}] /\ 0 \in Nat /\ "OVERFLOW" \in Keys
  BY KeyFacts DEF NoNumbers
<1>3. \A k \in Keys : Pool(k) = file.ordered[k] \cup plan[k]
                      /\ Pool(k)' = file'.ordered[k] \cup plan'[k]
  BY DEF Pool
<1>4. CASE Ends /\ UNCHANGED file
  BY <1>2, <1>3, <1>4 DEF Ends
<1>5. CASE UNCHANGED <<file, desk>> /\ at' # "off" /\ (at' = "planning" => at = "planning")
  BY <1>3, <1>5 DEF desk, PoolInv
<1>6. CASE UNCHANGED <<file, desk, at>>
  BY <1>3, <1>6 DEF desk, PoolInv
<1>7. CASE Diff
  <2>1. file'.ordered = file.ordered
    BY <1>7, StartingBooks DEF Diff, OrderInv, OrderTypeOK
  <2> QED
    BY <1>3, <1>7, <2>1 DEF Diff, desk, PoolInv
<1>8. CASE PlanOrOrder
  <2>1. /\ file' = Reconciled(WithBaseline(file)) /\ UNCHANGED desk /\ at = "off"
        /\ at' = "planning"
    BY <1>8 DEF PlanOrOrder, Starts
  <2>2. WithBaseline(file) \in StateFiles /\ WithBaseline(file).ordered = file.ordered
    BY StartingBooks DEF OrderInv, OrderTypeOK
  <2>3. \A k \in Keys : file'.ordered[k] \subseteq file.ordered[k]
    BY <2>1, <2>2, StartingBooks DEF OrderInv
  <2> QED
    BY <1>2, <1>3, <2>1, <2>3 DEF desk, PoolInv
<1>9. CASE Decide
  BY <1>3, <1>4, <1>9 DEF Decide, desk, PoolInv
<1>10. CASE Post
  BY <1>3, <1>10 DEF Post, PoolInv
<1>11. CASE Record
  <2>1. /\ file'.ordered = [k \in Keys |-> st.ordered[k] \cup (plan[k] \cap answer)]
        /\ st = file /\ at = "ordered"
    BY <1>11 DEF Record, Bought, OrderInv, DeskInv, OrderTypeOK, StateFiles
  <2>2. plan' = [k \in Keys |-> plan[k] \ request] /\ searched' = searched
        /\ at' \in {"assigning", "ordering"}
    BY <1>11 DEF Record, Bought
  <2> QED
    BY <1>3, <2>1, <2>2 DEF PoolInv
<1>12. CASE Assign
  BY <1>3, <1>12 DEF Assign, books, PoolInv
<1>13. CASE Verify
  <2>1. file'.ordered = file.ordered
    BY <1>13 DEF Verify, OrderInv, DeskInv, OrderTypeOK, StateFiles
  <2> QED
    BY <1>3, <1>13, <2>1 DEF Verify, PoolInv
<1>14. CASE Exit
  BY <1>4, <1>14 DEF Exit
<1>15. ASSUME NEW n \in account, Release(n) \/ Reroute(n) PROVE Kept
  BY <1>6, <1>15 DEF Release, Reroute, books
<1>16. CASE UNCHANGED orderVars
  BY <1>6, <1>16 DEF orderVars, books
<1> QED
  BY <1>1, <1>7, <1>8, <1>9, <1>10, <1>11, <1>12, <1>13, <1>14, <1>15, <1>16
     DEF Next, OrderNext, toolVars

\* However often fractel-order.py is run and whatever ends its runs, a number
\* stands in one pool of dids.csv, and no pool with a size is beyond it
\* (fractel-order.py:230-302, 409-448).
THEOREM PoolsAreKept == Spec => []PoolsKeepTheirSize
<1>1. Init => OrderInv /\ PoolInv
  <2> SUFFICES ASSUME Init PROVE OrderInv /\ PoolInv
    OBVIOUS
  <2>1. /\ searched = 0 /\ plan = NoNumbers /\ file.ordered = NoNumbers /\ at = "off"
    BY DEF Init, OrderInit, NoState
  <2>2. \A k \in Keys : Pool(k) = {}
    BY <2>1 DEF Pool, NoNumbers
  <2>3. Cardinality({}) = 0
    BY FS_EmptySet
  <2>4. \A k \in Keys : Cardinality(Pool(k)) = 0
    BY <2>2, <2>3
  <2>5. plan["OVERFLOW"] = {} /\ "OVERFLOW" \in Keys /\ Wanted \subseteq Keys
    BY <2>1, KeyFacts DEF NoNumbers
  <2>6. PoolInv
    BY <2>1, <2>2, <2>4, <2>5, SizesNat DEF PoolInv
  <2> QED
    BY <2>6, OrderInvInit DEF Init
<1>2. OrderInv /\ PoolInv => PoolsKeepTheirSize
  <2> SUFFICES ASSUME OrderInv, PoolInv PROVE PoolsKeepTheirSize
    OBVIOUS
  <2>1. \A k \in Keys : /\ file.ordered[k] \subseteq Pool(k) /\ Pool(k) \subseteq Numbers
    BY DEF Pool, OrderInv, OrderTypeOK, StateFiles
  <2>2. \A k \in Keys : /\ Cardinality(file.ordered[k]) \in Nat
                        /\ Cardinality(Pool(k)) \in Nat
                        /\ Cardinality(file.ordered[k]) <= Cardinality(Pool(k))
    BY <2>1, NumbersFinite, FS_Subset, FS_CardinalityType
  <2>3. \A k, l \in Keys, n \in Numbers :
            n \in file.ordered[k] /\ n \in file.ordered[l] => k = l
    BY <2>1 DEF PoolInv
  <2>4. \A row, other \in CsvRows : row[2] = other[2] => row = other
    BY <2>3 DEF CsvRows
  <2> QED
    BY <2>2, <2>4, KeyFacts, SizesNat DEF PoolsKeepTheirSize, PoolInv
<1> QED
  BY <1>1, <1>2, OrderInvStep, PoolInvStep, PTL DEF Spec
-----------------------------------------------------------------------------
(***************************************************************************)
(* Sums.  SumOf is a fold; it counts a set of marks, f[x] of them for each *)
(* x, and everything else about it follows from that.                      *)
(***************************************************************************)

Marks(f, S) == {m \in S \X Nat : m[2] \in 1 .. f[m[1]]}

\* A set of finite sets has a least member.
LEMMA LeastSubset ==
    ASSUME NEW S, IsFiniteSet(S), NEW T \in SUBSET (SUBSET S), T # {}
    PROVE  \E s \in T : \A u \in T : u \subseteq s => u = s
<1>1. IsWellFoundedOn(StrictSubsetOrdering(S), SUBSET S)
  BY FS_StrictSubsetOrderingWellFounded, FS_FiniteSubsetsOfFinite
<1>2. PICK s \in T : \A u \in T : ~(<<u, s>> \in StrictSubsetOrdering(S))
  <2> HIDE DEF StrictSubsetOrdering
  <2> QED
    BY <1>1, WFMin
<1> QED
  BY <1>2 DEF StrictSubsetOrdering

\* One more element has its own marks.
LEMMA MarksAdd ==
    ASSUME NEW S, NEW f, NEW x \in S, f[x] \in Nat, IsFiniteSet(Marks(f, S \ {x}))
    PROVE  /\ IsFiniteSet(Marks(f, S))
           /\ Cardinality(Marks(f, S)) = f[x] + Cardinality(Marks(f, S \ {x}))
<1> DEFINE A == {x} \X (1 .. f[x])
           B == Marks(f, S \ {x})
<1>1. Marks(f, S) = A \cup B /\ A \cap B = {}
  BY DEF Marks
<1>2. IsFiniteSet(A) /\ Cardinality(A) = f[x]
  <2>1. IsFiniteSet(1 .. f[x]) /\ Cardinality(1 .. f[x]) = f[x]
    BY FS_Interval
  <2>2. IsFiniteSet({x}) /\ Cardinality({x}) = 1
    BY FS_Singleton
  <2>3. IsFiniteSet(A) /\ Cardinality(A) = Cardinality({x}) * Cardinality(1 .. f[x])
    BY <2>1, <2>2, FS_Product
  <2> QED
    BY <2>1, <2>2, <2>3
<1> HIDE DEF A, B
<1>3. Cardinality(A \cup B) = Cardinality(A) + Cardinality(B) - Cardinality(A \cap B)
      /\ IsFiniteSet(A \cup B) /\ Cardinality(B) \in Nat
  BY <1>2, FS_Union, FS_CardinalityType DEF B
<1>4. Cardinality(A \cap B) = 0
  BY <1>1, FS_EmptySet
<1> QED
  BY <1>1, <1>2, <1>3, <1>4 DEF B

LEMMA MarksFinite ==
    ASSUME NEW S, IsFiniteSet(S), NEW f, \A x \in S : f[x] \in Nat
    PROVE  IsFiniteSet(Marks(f, S)) /\ Cardinality(Marks(f, S)) \in Nat
<1> DEFINE T == {s \in SUBSET S : ~IsFiniteSet(Marks(f, s))}
<1>1. CASE T = {}
  BY <1>1, FS_CardinalityType
<1>2. CASE T # {}
  <2>1. PICK s \in T : \A u \in T : u \subseteq s => u = s
    <3>1. T \in SUBSET (SUBSET S)
      OBVIOUS
    <3> HIDE DEF T
    <3> QED
      BY <1>2, <3>1, LeastSubset
  <2>2. s # {}
    <3>1. Marks(f, {}) = {}
      BY DEF Marks
    <3> QED
      BY <3>1, FS_EmptySet
  <2>3. PICK x \in s : TRUE
    BY <2>2
  <2>4. IsFiniteSet(Marks(f, s \ {x}))
    BY <2>1, <2>3
  <2> QED
    BY <2>4, MarksAdd
<1> QED
  BY <1>1, <1>2

LEMMA SumIsMarks ==
    ASSUME NEW f, IsFiniteSet(DOMAIN f), \A x \in DOMAIN f : f[x] \in Nat
    PROVE  SumOf(f) = Cardinality(Marks(f, DOMAIN f))
<1> DEFINE S == DOMAIN f
           step(it, s) == IF s = {} THEN 0
                          ELSE f[CHOOSE x \in s : TRUE] + it[s \ {CHOOSE x \in s : TRUE}]
           iter == CHOOSE it : it = [s \in SUBSET S |-> step(it, s)]
           g == [s \in SUBSET S |-> Cardinality(Marks(f, s))]
<1>1. SumOf(f) = iter[S]
  BY DEF SumOf, MapThenSumSet, MapThenFoldSet
<1>2. ASSUME NEW s \in SUBSET S, s # {}, NEW x, x = CHOOSE y \in s : TRUE
      PROVE  x \in s /\ g[s] = f[x] + g[s \ {x}]
  <2>1. x \in s
    BY <1>2
  <2>2. IsFiniteSet(Marks(f, s \ {x}))
    BY MarksFinite, FS_Subset
  <2> QED
    BY <2>1, <2>2, MarksAdd
<1>3. g[{}] = 0
  <2>1. Marks(f, {}) = {}
    BY DEF Marks
  <2> QED
    BY <2>1, FS_EmptySet
<1> HIDE DEF g
<1>4. \A s \in SUBSET S : g[s] = step(g, s)
  BY <1>2, <1>3
<1>5. g = [s \in SUBSET S |-> step(g, s)]
  BY <1>4 DEF g
<1>6. iter = [s \in SUBSET S |-> step(iter, s)]
  BY <1>5
<1> HIDE DEF iter
<1> DEFINE T == {s \in SUBSET S : iter[s] # g[s]}
<1>7. T = {}
  <2> SUFFICES ASSUME T # {} PROVE FALSE
    OBVIOUS
  <2>1. PICK s \in T : \A u \in T : u \subseteq s => u = s
    <3>1. T \in SUBSET (SUBSET S)
      OBVIOUS
    <3> HIDE DEF T
    <3> QED
      BY <3>1, LeastSubset
  <2>2. iter[s] = step(iter, s)
    BY <1>6
  <2>3. CASE s = {}
    BY <1>3, <2>2, <2>3
  <2>4. CASE s # {}
    <3> DEFINE x == CHOOSE y \in s : TRUE
    <3>1. x \in s /\ g[s] = f[x] + g[s \ {x}]
      BY <1>2, <2>4
    <3>2. iter[s \ {x}] = g[s \ {x}]
      BY <2>1, <3>1
    <3> QED
      BY <2>2, <2>4, <3>1, <3>2
  <2> QED
    BY <2>3, <2>4
<1> QED
  BY <1>1, <1>7 DEF g

\* A sum of naturals is one.
LEMMA SumType ==
    ASSUME NEW S, IsFiniteSet(S), NEW f \in [S -> Nat]
    PROVE  SumOf(f) \in Nat /\ SumOf(f) = Cardinality(Marks(f, S))
BY MarksFinite, SumIsMarks

\* Taking one element out of a sum.
LEMMA SumSplit ==
    ASSUME NEW S, IsFiniteSet(S), NEW f \in [S -> Nat], NEW x \in S
    PROVE  SumOf(f) = f[x] + SumOf([y \in S \ {x} |-> f[y]])
<1> DEFINE g == [y \in S \ {x} |-> f[y]]
<1>1. IsFiniteSet(S \ {x})
  BY FS_Subset
<1>2. SumOf(g) = Cardinality(Marks(g, S \ {x}))
  BY <1>1, SumType
<1>3. Marks(g, S \ {x}) = Marks(f, S \ {x})
  BY DEF Marks
<1>4. IsFiniteSet(Marks(f, S \ {x}))
  BY <1>1, MarksFinite
<1>5. Cardinality(Marks(f, S)) = f[x] + Cardinality(Marks(f, S \ {x}))
  BY <1>4, MarksAdd
<1> QED
  BY <1>2, <1>3, <1>5, SumType

\* One more of one element is one more of the sum.
LEMMA SumBump ==
    ASSUME NEW S, IsFiniteSet(S), NEW f \in [S -> Nat], NEW g \in [S -> Nat], NEW x \in S,
           g[x] = f[x] + 1, \A y \in S \ {x} : g[y] = f[y]
    PROVE  SumOf(g) = SumOf(f) + 1
<1>1. [y \in S \ {x} |-> g[y]] = [y \in S \ {x} |-> f[y]]
  OBVIOUS
<1>2. SumOf([y \in S \ {x} |-> f[y]]) \in Nat
  BY FS_Subset, SumType
<1> QED
  BY <1>1, <1>2, SumSplit

\* An element is no more than the sum.
LEMMA SumAtLeast ==
    ASSUME NEW S, IsFiniteSet(S), NEW f \in [S -> Nat], NEW x \in S
    PROVE  f[x] <= SumOf(f)
<1>1. SumOf([y \in S \ {x} |-> f[y]]) \in Nat
  BY FS_Subset, SumType
<1> QED
  BY <1>1, SumSplit

LEMMA SumZero ==
    ASSUME NEW S, IsFiniteSet(S), NEW f \in [S -> Nat], \A x \in S : f[x] = 0
    PROVE  SumOf(f) = 0
<1>1. Marks(f, S) = {}
  BY DEF Marks
<1> QED
  BY <1>1, SumType, FS_EmptySet

\* A sum of sums.
LEMMA SumAdd ==
    ASSUME NEW S, IsFiniteSet(S), NEW f \in [S -> Nat], NEW g \in [S -> Nat]
    PROVE  SumOf([x \in S |-> f[x] + g[x]]) = SumOf(f) + SumOf(g)
<1> DEFINE On(h, s) == [x \in s |-> h[x]]
           both == [x \in S |-> f[x] + g[x]]
           T == {s \in SUBSET S : SumOf(On(both, s)) # SumOf(On(f, s)) + SumOf(On(g, s))}
<1>1. CASE T = {}
  <2>1. On(both, S) = both /\ On(f, S) = f /\ On(g, S) = g
    OBVIOUS
  <2> HIDE DEF On, both
  <2> QED
    BY <1>1, <2>1 DEF both
<1>2. CASE T # {}
  <2>1. PICK s \in T : \A u \in T : u \subseteq s => u = s
    <3>1. T \in SUBSET (SUBSET S)
      OBVIOUS
    <3> HIDE DEF T
    <3> QED
      BY <1>2, <3>1, LeastSubset
  <2>2. IsFiniteSet(s) /\ s \subseteq S
    BY <2>1, FS_Subset
  <2>3. /\ On(both, s) \in [s -> Nat] /\ On(f, s) \in [s -> Nat] /\ On(g, s) \in [s -> Nat]
    BY <2>2
  <2>4. CASE s = {}
    <3>1. SumOf(On(both, s)) = 0 /\ SumOf(On(f, s)) = 0 /\ SumOf(On(g, s)) = 0
      <4> HIDE DEF On
      <4> QED
        BY <2>2, <2>3, <2>4, SumZero
    <3> QED
      BY <2>1, <3>1
  <2>5. CASE s # {}
    <3>1. PICK x \in s : TRUE
      BY <2>5
    <3> DEFINE r == s \ {x}
    <3>2. r \in SUBSET S /\ r \subseteq s /\ r # s
      BY <2>2, <3>1
    <3>3. SumOf(On(both, r)) = SumOf(On(f, r)) + SumOf(On(g, r))
      <4> HIDE DEF On, r, both
      <4> QED
        BY <2>1, <3>2
    <3>4. /\ On(both, r) = [y \in s \ {x} |-> On(both, s)[y]] /\ On(both, s)[x] = both[x]
          /\ On(f, r) = [y \in s \ {x} |-> On(f, s)[y]] /\ On(f, s)[x] = f[x]
          /\ On(g, r) = [y \in s \ {x} |-> On(g, s)[y]] /\ On(g, s)[x] = g[x]
      BY <3>1
    <3>5. IsFiniteSet(r) /\ On(both, r) \in [r -> Nat] /\ On(f, r) \in [r -> Nat]
          /\ On(g, r) \in [r -> Nat]
      BY <2>2, FS_Subset
    <3>6. /\ f[x] \in Nat /\ g[x] \in Nat /\ both[x] = f[x] + g[x]
      BY <2>2
    <3> HIDE DEF On, both
    <3>7. /\ SumOf(On(both, r)) \in Nat /\ SumOf(On(f, r)) \in Nat /\ SumOf(On(g, r)) \in Nat
      <4> HIDE DEF r
      <4> QED
        BY <3>5, SumType
    <3>8. /\ SumOf(On(both, s)) = both[x] + SumOf(On(both, r))
          /\ SumOf(On(f, s)) = f[x] + SumOf(On(f, r))
          /\ SumOf(On(g, s)) = g[x] + SumOf(On(g, r))
      <4> HIDE DEF r
      <4>0. ASSUME NEW h \in [s -> Nat]
            PROVE  SumOf(h) = h[x] + SumOf([y \in s \ {x} |-> h[y]])
        <5>1. IsFiniteSet(s) /\ x \in s
          BY <2>2
        <5> HIDE DEF T
        <5> QED
          BY <5>1, SumSplit
      <4>1. SumOf(On(both, s)) = both[x] + SumOf(On(both, r))
        <5>1. SumOf(On(both, s)) = On(both, s)[x] + SumOf([y \in s \ {x} |-> On(both, s)[y]])
          BY <2>3, <4>0
        <5> QED
          BY <5>1, <3>4
      <4>2. SumOf(On(f, s)) = f[x] + SumOf(On(f, r))
        <5>1. SumOf(On(f, s)) = On(f, s)[x] + SumOf([y \in s \ {x} |-> On(f, s)[y]])
          BY <2>3, <4>0
        <5> QED
          BY <5>1, <3>4
      <4>3. SumOf(On(g, s)) = g[x] + SumOf(On(g, r))
        <5>1. SumOf(On(g, s)) = On(g, s)[x] + SumOf([y \in s \ {x} |-> On(g, s)[y]])
          BY <2>3, <4>0
        <5> QED
          BY <5>1, <3>4
      <4> QED
        BY <4>1, <4>2, <4>3
    <3> QED
      BY <2>1, <3>3, <3>6, <3>7, <3>8
  <2> QED
    BY <2>4, <2>5
<1> QED
  BY <1>1, <1>2
\* More elements, and more of each, make no smaller sum.
LEMMA SumMono ==
    ASSUME NEW S, NEW R, IsFiniteSet(S), R \subseteq S, NEW f \in [R -> Nat], NEW g \in [S -> Nat],
           \A x \in R : f[x] <= g[x]
    PROVE  SumOf(f) <= SumOf(g)
<1>1. IsFiniteSet(R)
  BY FS_Subset
<1>2. Marks(f, R) \subseteq Marks(g, S)
  BY DEF Marks
<1>3. IsFiniteSet(Marks(g, S))
  BY MarksFinite
<1>4. Cardinality(Marks(f, R)) <= Cardinality(Marks(g, S))
  BY <1>2, <1>3, FS_Subset
<1>5. SumOf(f) = Cardinality(Marks(f, R)) /\ SumOf(g) = Cardinality(Marks(g, S))
  BY <1>1, SumType
<1> QED
  BY <1>4, <1>5

\* Two sets with nothing in common.
LEMMA SumUnion ==
    ASSUME NEW S, NEW R, IsFiniteSet(S), IsFiniteSet(R), S \cap R = {},
           NEW f \in [S \cup R -> Nat]
    PROVE  SumOf(f) = SumOf([x \in S |-> f[x]]) + SumOf([x \in R |-> f[x]])
<1> DEFINE On(s) == [x \in s |-> f[x]]
<1>1. IsFiniteSet(S \cup R)
  BY FS_Union
<1>2. /\ SumOf(f) = Cardinality(Marks(f, S \cup R))
      /\ SumOf(On(S)) = Cardinality(Marks(On(S), S))
      /\ SumOf(On(R)) = Cardinality(Marks(On(R), R))
  <2>1. On(S) \in [S -> Nat] /\ On(R) \in [R -> Nat]
    OBVIOUS
  <2> HIDE DEF On
  <2> QED
    BY <1>1, <2>1, SumType
<1>3. /\ Marks(On(S), S) = Marks(f, S) /\ Marks(On(R), R) = Marks(f, R)
      /\ Marks(f, S \cup R) = Marks(f, S) \cup Marks(f, R)
      /\ Marks(f, S) \cap Marks(f, R) = {}
  BY DEF Marks
<1>4. IsFiniteSet(Marks(f, S)) /\ IsFiniteSet(Marks(f, R))
  BY MarksFinite
<1>5. Cardinality(Marks(f, S) \cup Marks(f, R))
          = Cardinality(Marks(f, S)) + Cardinality(Marks(f, R)) - Cardinality({})
  BY <1>3, <1>4, FS_Union
<1>6. /\ Cardinality({}) = 0
      /\ Cardinality(Marks(f, S)) \in Nat /\ Cardinality(Marks(f, R)) \in Nat
  BY <1>4, FS_EmptySet, FS_CardinalityType
<1>7. SumOf(f) = SumOf(On(S)) + SumOf(On(R))
  <2>1. SumOf(f) = Cardinality(Marks(f, S) \cup Marks(f, R))
    BY <1>2, <1>3
  <2>2. Cardinality(Marks(f, S) \cup Marks(f, R))
          = Cardinality(Marks(f, S)) + Cardinality(Marks(f, R))
    BY <1>5, <1>6
  <2> HIDE DEF On
  <2> QED
    BY <1>2, <1>3, <2>1, <2>2
<1> QED
  BY <1>7

LEMMA SumUnionOf ==
    ASSUME NEW S, NEW R, IsFiniteSet(S), IsFiniteSet(R), S \cap R = {}, NEW U, U = S \cup R,
           NEW f \in [U -> Nat]
    PROVE  SumOf(f) = SumOf([x \in S |-> f[x]]) + SumOf([x \in R |-> f[x]])
BY SumUnion

\* Summing group by group is summing.
Group(S, h, k) == {x \in S : h[x] = k}
GroupSum(S, f, h, k) == SumOf([x \in Group(S, h, k) |-> f[x]])

LEMMA GroupSumType ==
    ASSUME NEW S, IsFiniteSet(S), NEW f \in [S -> Nat], NEW h, NEW k
    PROVE  GroupSum(S, f, h, k) \in Nat /\ IsFiniteSet(Group(S, h, k))
<1>1. IsFiniteSet(Group(S, h, k)) /\ Group(S, h, k) \subseteq S
  BY FS_Subset DEF Group
<1>2. [x \in Group(S, h, k) |-> f[x]] \in [Group(S, h, k) -> Nat]
  BY <1>1
<1> HIDE DEF Group
<1> QED
  BY <1>1, <1>2, SumType DEF GroupSum

LEMMA SumByGroup ==
    ASSUME NEW S, IsFiniteSet(S), NEW f \in [S -> Nat], NEW K, IsFiniteSet(K),
           NEW h \in [S -> K]
    PROVE  SumOf([k \in K |-> GroupSum(S, f, h, k)]) = SumOf(f)
<1> DEFINE In(s) == {x \in S : h[x] \in s}
           Groups(s) == [k \in s |-> GroupSum(S, f, h, k)]
           On(s) == [x \in In(s) |-> f[x]]
           T == {s \in SUBSET K : SumOf(Groups(s)) # SumOf(On(s))}
<1>0. \A s \in SUBSET K : /\ IsFiniteSet(s) /\ IsFiniteSet(In(s))
                           /\ Groups(s) \in [s -> Nat] /\ On(s) \in [In(s) -> Nat]
  BY GroupSumType, FS_Subset
<1>1. CASE T = {}
  <2>1. On(K) = f
    OBVIOUS
  <2>2. SumOf(Groups(K)) = SumOf(On(K))
    <3> HIDE DEF On, Groups
    <3> QED
      BY <1>1
  <2> QED
    BY <2>1, <2>2
<1>2. CASE T # {}
  <2>1. PICK s \in T : \A u \in T : u \subseteq s => u = s
    <3>1. T \in SUBSET (SUBSET K)
      OBVIOUS
    <3> HIDE DEF T
    <3> QED
      BY <1>2, <3>1, LeastSubset
  <2>2. s \in SUBSET K /\ SumOf(Groups(s)) # SumOf(On(s))
    BY <2>1
  <2>3. CASE s = {}
    <3>1. SumOf(Groups(s)) = 0
      <4> HIDE DEF Groups
      <4> QED
        BY <1>0, <2>2, <2>3, SumZero
    <3>2. SumOf(On(s)) = 0
      <4>1. In(s) = {}
        BY <2>3
      <4> HIDE DEF On, In
      <4> QED
        BY <1>0, <2>2, <4>1, SumZero
    <3> QED
      BY <2>2, <3>1, <3>2
  <2>4. CASE s # {}
    <3>1. PICK k \in s : TRUE
      BY <2>4
    <3> DEFINE r == s \ {k}
               g == Group(S, h, k)
    <3>2. r \in SUBSET K /\ r \subseteq s /\ r # s
      BY <2>2, <3>1
    <3>3. SumOf(Groups(r)) = SumOf(On(r))
      <4> HIDE DEF Groups, On, r
      <4> QED
        BY <2>1, <3>2
    <3>4. /\ [y \in s \ {k} |-> Groups(s)[y]] = Groups(r)
          /\ Groups(s)[k] = GroupSum(S, f, h, k)
      BY <3>1
    <3>5. /\ In(r) \cap g = {} /\ In(s) = In(r) \cup g /\ IsFiniteSet(g)
      BY <2>2, <3>1, FS_Subset DEF Group
    <3>6. /\ [x \in In(r) |-> On(s)[x]] = On(r)
          /\ [x \in g |-> On(s)[x]] = [x \in g |-> f[x]]
      BY <3>5
    <3>7. SumOf(Groups(s)) = GroupSum(S, f, h, k) + SumOf(Groups(r))
      <4>1. \A w \in [s -> Nat] : SumOf(w) = w[k] + SumOf([y \in s \ {k} |-> w[y]])
        <5> SUFFICES ASSUME NEW w \in [s -> Nat]
                     PROVE SumOf(w) = w[k] + SumOf([y \in s \ {k} |-> w[y]])
          OBVIOUS
        <5>1. IsFiniteSet(s) /\ k \in s
          BY <1>0, <2>2, <3>1
        <5> HIDE DEF T
        <5> QED
          BY <5>1, SumSplit
      <4> HIDE DEF Groups, r
      <4> QED
        BY <1>0, <2>2, <3>4, <4>1
    <3>8. SumOf(On(s)) = SumOf(On(r)) + GroupSum(S, f, h, k)
      <4>1. IsFiniteSet(In(r)) /\ On(s) \in [In(s) -> Nat]
        BY <1>0, <2>2, <3>2
      <4> HIDE DEF On, In, r, g
      <4>2. SumOf(On(s)) = SumOf([x \in In(r) |-> On(s)[x]]) + SumOf([x \in g |-> On(s)[x]])
        BY <3>5, <4>1, SumUnionOf
      <4> QED
        BY <3>6, <4>2 DEF GroupSum, g
    <3>9. GroupSum(S, f, h, k) \in Nat /\ SumOf(On(r)) \in Nat
      <4>1. GroupSum(S, f, h, k) \in Nat
        BY GroupSumType
      <4> HIDE DEF On, In, r
      <4> QED
        BY <1>0, <3>2, <4>1, SumType
    <3> HIDE DEF On, Groups, r
    <3> QED
      BY <2>2, <3>3, <3>7, <3>8, <3>9
  <2> QED
    BY <2>3, <2>4
<1> QED
  BY <1>1, <1>2

\* Pieces of a stretch that do not overlap are together no longer than it.
LEMMA SumOfPieces ==
    ASSUME NEW S, IsFiniteSet(S), NEW lo \in [S -> Nat], NEW hi \in [S -> Nat],
           NEW a \in Nat, NEW b \in Nat, a <= b,
           \A x, y \in S : x # y => hi[x] <= lo[y] \/ hi[y] <= lo[x]
    PROVE  SumOf([x \in S |-> Larger(0, Smaller(hi[x], b) - Larger(lo[x], a))]) <= b - a
<1> DEFINE f == [x \in S |-> Larger(0, Smaller(hi[x], b) - Larger(lo[x], a))]
           M == Marks(f, S)
           place == [m \in M |-> Larger(lo[m[1]], a) + m[2]]
<1>1. f \in [S -> Nat]
  BY DEF Larger, Smaller
<1>2. ASSUME NEW m \in M
      PROVE  /\ m[1] \in S /\ m[2] \in Nat /\ m = <<m[1], m[2]>>
             /\ place[m] \in a + 1 .. b
             /\ lo[m[1]] < place[m] /\ place[m] <= hi[m[1]]
  <2>1. m[1] \in S /\ m[2] \in Nat /\ m[2] \in 1 .. f[m[1]] /\ m = <<m[1], m[2]>>
    BY DEF Marks
  <2> QED
    BY <2>1 DEF Larger, Smaller
<1>3. ASSUME NEW m \in M, NEW n \in M, place[m] = place[n] PROVE m = n
  <2>1. m[1] = n[1]
    BY <1>2, <1>3
  <2>2. m[2] = n[2]
    <3>1. lo[m[1]] \in Nat
      BY <1>2
    <3> QED
      BY <1>2, <1>3, <2>1, <3>1 DEF Larger
  <2> QED
    BY <1>2, <2>1, <2>2
<1>4. place \in Injection(M, a + 1 .. b)
  <2>1. place \in [M -> a + 1 .. b]
    BY <1>2
  <2> QED
    BY <1>3, <2>1 DEF Injection, IsInjective
<1>5. IsFiniteSet(a + 1 .. b) /\ Cardinality(a + 1 .. b) = b - a
  <2>1. a + 1 \in Int /\ b \in Int
    OBVIOUS
  <2>2. IsFiniteSet(a + 1 .. b)
        /\ Cardinality(a + 1 .. b) = IF a + 1 > b THEN 0 ELSE b - (a + 1) + 1
    BY <2>1, FS_Interval
  <2> QED
    BY <2>2
<1>6. IsFiniteSet(M) /\ SumOf(f) = Cardinality(M)
  <2> HIDE DEF f
  <2> QED
    BY <1>1, SumType, MarksFinite
<1>7. Cardinality(M) <= Cardinality(a + 1 .. b)
  <2> HIDE DEF place, M
  <2> QED
    BY <1>4, <1>5, <1>6, FS_Injection
<1> QED
  BY <1>5, <1>6, <1>7

\* A set of numbers has a greatest one.
LEMMA MaxIsGreatest ==
    ASSUME NEW S, IsFiniteSet(S), S # {}
    PROVE  S \subseteq Nat => Max(S) \in S /\ \A x \in S : x <= Max(S)
<1> DEFINE Above(x) == {y \in S : x < y}
           T == {Above(x) : x \in S}
<1>1. PICK s \in T : \A u \in T : u \subseteq s => u = s
  <2>1. T \in SUBSET (SUBSET S)
    OBVIOUS
  <2>2. T # {}
    OBVIOUS
  <2> HIDE DEF T, Above
  <2> QED
    BY <2>1, <2>2, LeastSubset
<1> SUFFICES ASSUME S \subseteq Nat
             PROVE  Max(S) \in S /\ \A x \in S : x <= Max(S)
  OBVIOUS
<1>2. PICK x \in S : s = Above(x)
  <2> HIDE DEF Above
  <2> QED
    BY <1>1
<1>3. \A y \in S : x >= y
  <2> SUFFICES ASSUME NEW y \in S, x < y PROVE FALSE
    OBVIOUS
  <2>1. Above(y) \subseteq Above(x) /\ Above(y) \in T
    <3>1. \A z \in S : y < z => x < z
      OBVIOUS
    <3>2. Above(y) \subseteq Above(x)
      BY <3>1
    <3> HIDE DEF Above
    <3> QED
      BY <3>2
  <2>2. Above(y) = Above(x)
    BY <1>1, <1>2, <2>1
  <2>3. y \in Above(x) /\ y \notin Above(y)
    OBVIOUS
  <2> QED
    BY <2>2, <2>3
<1> QED
  BY <1>3 DEF Max

-----------------------------------------------------------------------------
(***************************************************************************)
(* analyze-did-capacity.py: the projection.                                *)
(***************************************************************************)

DayTypeOK ==
    /\ fleet \in Fleets /\ today \in Days
    /\ cdr \in [Npas -> [Days -> [npa_match : Nat, overflow : Nat, refused : Nat]]]

\* What the dialplan's records look like: an area code's own numbers are used
\* up before the overflow's, and those before a call is refused.
InOrder ==
    \A d \in Days :
        /\ Overflowed(d) <= fleet["OVERFLOW"] * Cap
        /\ \A n \in Npas :
             /\ cdr[n][d].npa_match <= fleet[n] * Cap
             /\ cdr[n][d].overflow > 0 \/ cdr[n][d].refused > 0
                  => cdr[n][d].npa_match = fleet[n] * Cap
             /\ cdr[n][d].refused > 0 => Overflowed(d) = fleet["OVERFLOW"] * Cap

DayInv == DayTypeOK /\ InOrder

\* What a pool can carry in a day.
LEMMA Capacities ==
    ASSUME DayTypeOK
    PROVE  /\ \A n \in Npas \cup {"OVERFLOW"} : fleet[n] \in Nat /\ fleet[n] * Cap \in Nat
           /\ Cap \in Nat /\ IsFiniteSet(Npas) /\ IsFiniteSet(Days)
           /\ \A d \in Days : Overflowed(d) \in Nat /\ Refused(d) \in Nat
<1>1. /\ Cap \in Nat /\ IsFiniteSet(Npas) /\ IsFiniteSet(Days)
  BY CapPositive, NpasFinite, DaysNat, FS_Interval DEF Days
<1>2. \A n \in Npas \cup {"OVERFLOW"} : fleet[n] \in Nat
  BY FleetsNat DEF DayTypeOK, Pools
<1>3. \A a, b \in Nat : a * b \in Nat
  OBVIOUS
<1>4. ASSUME NEW d \in Days
      PROVE  Overflowed(d) \in Nat /\ Refused(d) \in Nat
  <2>1. /\ [n \in Npas |-> cdr[n][d].overflow] \in [Npas -> Nat]
        /\ [n \in Npas |-> cdr[n][d].refused] \in [Npas -> Nat]
    BY DEF DayTypeOK
  <2> QED
    BY <1>1, <2>1, SumType DEF Overflowed, Refused
<1> QED
  BY <1>1, <1>2, <1>3, <1>4

LEMMA DayInvInit == DayInit => DayInv
<1> SUFFICES ASSUME DayInit PROVE DayInv
    OBVIOUS
<1>1. DayTypeOK
  BY DaysNat DEF DayInit, DayTypeOK, Days, NoCalls
<1>2. ASSUME NEW d \in Days
      PROVE  /\ \A n \in Npas : cdr[n][d] = NoCalls
             /\ Overflowed(d) = 0
  <2>1. \A n \in Npas : cdr[n][d] = NoCalls
    BY DEF DayInit
  <2>2. /\ [n \in Npas |-> cdr[n][d].overflow] \in [Npas -> Nat]
        /\ \A n \in Npas : [m \in Npas |-> cdr[m][d].overflow][n] = 0
    BY <2>1 DEF NoCalls
  <2> QED
    BY <2>1, <2>2, <1>1, Capacities, SumZero DEF Overflowed
<1> QED
  BY <1>1, <1>2, Capacities DEF DayInv, InOrder, NoCalls

\* A call is counted where the dialplan served it.
LEMMA CallInOrder ==
    ASSUME DayInv, NEW c \in Npas, Call(c)
    PROVE  DayInv'
<1> DEFINE own == cdr[c][today].npa_match < fleet[c] * Cap
           room == Overflowed(today) < fleet["OVERFLOW"] * Cap
           outcome == IF own THEN "npa_match" ELSE IF room THEN "overflow" ELSE "refused"
           was == cdr[c][today]
<1>1. /\ cdr' = [cdr EXCEPT ![c][today][outcome] = @ + 1]
      /\ fleet' = fleet /\ today' = today /\ today \in Days
  BY DEF Call, DayInv, DayTypeOK
<1>2. /\ was = [npa_match |-> was.npa_match, overflow |-> was.overflow, refused |-> was.refused]
      /\ was.npa_match \in Nat /\ was.overflow \in Nat /\ was.refused \in Nat
  BY <1>1 DEF DayInv, DayTypeOK
<1>3. cdr'[c][today] = [was EXCEPT ![outcome] = @ + 1]
  BY <1>1 DEF DayInv, DayTypeOK
<1>4. \A n \in Npas, d \in Days : n # c \/ d # today => cdr'[n][d] = cdr[n][d]
  BY <1>1 DEF DayInv, DayTypeOK
<1>5. /\ own => cdr'[c][today] = [was EXCEPT !.npa_match = @ + 1]
      /\ ~own /\ room => cdr'[c][today] = [was EXCEPT !.overflow = @ + 1]
      /\ ~own /\ ~room => cdr'[c][today] = [was EXCEPT !.refused = @ + 1]
  BY <1>3
<1>6. DayTypeOK'
  <2>1. cdr'[c][today] \in [npa_match : Nat, overflow : Nat, refused : Nat]
    BY <1>2, <1>5
  <2>2. \A n \in Npas, d \in Days :
           cdr'[n][d] \in [npa_match : Nat, overflow : Nat, refused : Nat]
    BY <1>4, <2>1 DEF DayInv, DayTypeOK
  <2>3. cdr' = [n \in Npas |-> [d \in Days |-> cdr'[n][d]]]
    BY <1>1 DEF DayInv, DayTypeOK
  <2> QED
    BY <1>1, <2>2, <2>3 DEF DayInv, DayTypeOK
<1> DEFINE over(d) == [n \in Npas |-> cdr[n][d].overflow]
<1>7. \A d \in Days : over(d) \in [Npas -> Nat] /\ over(d)' \in [Npas -> Nat]
  BY <1>6 DEF DayInv, DayTypeOK
<1>8. ASSUME NEW d \in Days
      PROVE  Overflowed(d)' = IF d = today /\ ~own /\ room
                              THEN Overflowed(d) + 1 ELSE Overflowed(d)
  <2>1. CASE d = today /\ ~own /\ room
    <3>1. over(d)'[c] = over(d)[c] + 1 /\ \A n \in Npas \ {c} : over(d)'[n] = over(d)[n]
      BY <1>2, <1>4, <1>5, <2>1
    <3> HIDE DEF over
    <3>2. SumOf(over(d)') = SumOf(over(d)) + 1
      BY <1>7, <3>1, SumBump, NpasFinite
    <3> QED
      BY <2>1, <3>2 DEF Overflowed, over
  <2>2. CASE ~(d = today /\ ~own /\ room)
    <3>1. \A n \in Npas : cdr'[n][d].overflow = cdr[n][d].overflow
      BY <1>2, <1>4, <1>5, <2>2
    <3>2. over(d)' = over(d)
      BY <3>1
    <3> QED
      BY <2>2, <3>2 DEF Overflowed
  <2> QED
    BY <2>1, <2>2
<1>9. InOrder'
  <2> SUFFICES ASSUME NEW d \in Days, NEW n \in Npas
      PROVE  /\ Overflowed(d)' <= fleet["OVERFLOW"] * Cap
             /\ cdr'[n][d].npa_match <= fleet[n] * Cap
             /\ cdr'[n][d].overflow > 0 \/ cdr'[n][d].refused > 0
                  => cdr'[n][d].npa_match = fleet[n] * Cap
             /\ cdr'[n][d].refused > 0 => Overflowed(d)' = fleet["OVERFLOW"] * Cap
    BY <1>1 DEF InOrder
  <2>1. /\ Overflowed(d) \in Nat /\ fleet["OVERFLOW"] * Cap \in Nat
        /\ fleet[n] * Cap \in Nat /\ fleet[c] * Cap \in Nat
    BY Capacities DEF DayInv
  <2>2. /\ Overflowed(d) <= fleet["OVERFLOW"] * Cap
        /\ cdr[n][d].npa_match <= fleet[n] * Cap
        /\ cdr[n][d].overflow > 0 \/ cdr[n][d].refused > 0
             => cdr[n][d].npa_match = fleet[n] * Cap
        /\ cdr[n][d].refused > 0 => Overflowed(d) = fleet["OVERFLOW"] * Cap
    BY DEF DayInv, InOrder
  <2>3. /\ cdr[n][d].npa_match \in Nat /\ cdr[n][d].overflow \in Nat
        /\ cdr[n][d].refused \in Nat
    BY DEF DayInv, DayTypeOK
  <2>4. CASE n # c \/ d # today
    BY <1>4, <1>8, <2>1, <2>2, <2>3, <2>4
  <2>5. CASE n = c /\ d = today
    <3>1. CASE own
      BY <1>2, <1>5, <1>8, <2>1, <2>2, <2>5, <3>1
    <3>2. CASE ~own /\ room
      BY <1>2, <1>5, <1>8, <2>1, <2>2, <2>5, <3>2
    <3>3. CASE ~own /\ ~room
      BY <1>2, <1>5, <1>8, <2>1, <2>2, <2>5, <3>3
    <3> QED
      BY <3>1, <3>2, <3>3
  <2> QED
    BY <2>4, <2>5
<1> QED
  BY <1>6, <1>9 DEF DayInv

LEMMA DayInvStep == DayInv /\ [Next]_toolVars => DayInv'
<1> SUFFICES ASSUME DayInv, [Next]_toolVars PROVE DayInv'
    OBVIOUS
<1>1. CASE UNCHANGED dayVars
  BY <1>1 DEF dayVars, DayInv, DayTypeOK, InOrder, Overflowed
<1>2. CASE Midnight
  <2>1. today' \in Days
    BY <1>2, DaysNat DEF Midnight, DayInv, DayTypeOK, Days
  <2> QED
    BY <1>2, <2>1 DEF Midnight, DayInv, DayTypeOK, InOrder, Overflowed
<1> QED
  BY <1>1, <1>2, CallInOrder DEF Next, DayNext, toolVars, dayVars

\* Calls an area code's own numbers cannot carry are those that went to the
\* overflow or were refused.
LEMMA SpillIsWhatLeft ==
    ASSUME DayInv, NEW d \in Days
    PROVE  Spill(fleet, d) = Overflowed(d) + Refused(d)
<1> DEFINE f == [n \in Npas |-> cdr[n][d].overflow]
           g == [n \in Npas |-> cdr[n][d].refused]
<1>1. f \in [Npas -> Nat] /\ g \in [Npas -> Nat] /\ IsFiniteSet(Npas)
  BY NpasFinite DEF DayInv, DayTypeOK
<1>2. ASSUME NEW n \in Npas
      PROVE  Larger(0, Demand(n, d) - fleet[n] * Cap) = f[n] + g[n]
  <2>1. fleet[n] * Cap \in Nat
    BY Capacities DEF DayInv
  <2>2. /\ cdr[n][d].npa_match \in Nat /\ cdr[n][d].overflow \in Nat
        /\ cdr[n][d].refused \in Nat
        /\ cdr[n][d].npa_match <= fleet[n] * Cap
        /\ cdr[n][d].overflow > 0 \/ cdr[n][d].refused > 0
             => cdr[n][d].npa_match = fleet[n] * Cap
    BY DEF DayInv, DayTypeOK, InOrder
  <2> QED
    BY <2>1, <2>2 DEF Larger, Demand
<1>3. [n \in Npas |-> Larger(0, Demand(n, d) - fleet[n] * Cap)] = [n \in Npas |-> f[n] + g[n]]
  BY <1>2
<1>4. SumOf([n \in Npas |-> f[n] + g[n]]) = SumOf(f) + SumOf(g)
  <2> HIDE DEF f, g
  <2> QED
    BY <1>1, SumAdd
<1> QED
  BY <1>3, <1>4 DEF Spill, Overflowed, Refused

\* For any fleet, any cap and calls in any order, what analyze-did-capacity.py
\* projects from the records of a fleet is what that fleet refused
\* (analyze-did-capacity.py:597-613).
THEOREM ProjectionHolds == Spec => [](tool = "analyze-did-capacity" => ProjectionIsExact)
<1>1. DayInv => ProjectionIsExact
  <2> SUFFICES ASSUME DayInv PROVE ProjectionIsExact
    OBVIOUS
  <2>1. ASSUME NEW d \in Days
        PROVE  Larger(0, Spill(fleet, d) - fleet["OVERFLOW"] * Cap) = Refused(d)
    <3>1. /\ Overflowed(d) \in Nat /\ Refused(d) \in Nat /\ fleet["OVERFLOW"] * Cap \in Nat
          /\ Overflowed(d) <= fleet["OVERFLOW"] * Cap
      BY Capacities DEF DayInv, InOrder
    <3>2. CASE \E n \in Npas : cdr[n][d].refused > 0
      BY <3>1, <3>2, SpillIsWhatLeft DEF DayInv, InOrder, Larger
    <3>3. CASE \A n \in Npas : cdr[n][d].refused = 0
      <4>1. /\ [n \in Npas |-> cdr[n][d].refused] \in [Npas -> Nat]
            /\ \A n \in Npas : [m \in Npas |-> cdr[m][d].refused][n] = 0
        BY <3>3
      <4>2. Refused(d) = 0
        BY <4>1, SumZero, NpasFinite DEF Refused
      <4> QED
        BY <3>1, <4>2, SpillIsWhatLeft DEF Larger
    <3>4. \A n \in Npas : cdr[n][d].refused \in Nat
      BY DEF DayInv, DayTypeOK
    <3> QED
      BY <3>2, <3>3, <3>4
  <2> QED
    BY <2>1 DEF ProjectionIsExact, Simulate
<1>2. Init => DayInv
  BY DayInvInit DEF Init
<1> QED
  BY <1>1, <1>2, DayInvStep, PTL DEF Spec
-----------------------------------------------------------------------------
(***************************************************************************)
(* analyze-did-capacity.py: the lines of donors and receivers.             *)
(***************************************************************************)

\* A line has one place for each pool in it, and no two places are equal.
Line(l) ==
    /\ IsFiniteSet(l)
    /\ \A x \in l : x.amount \in Nat /\ x.key \in [1 .. 5 -> Int]
    /\ \A x, y \in l : x.key = y.key \/ x.pool = y.pool => x = y

LEMMA SoonerIs ==
    ASSUME NEW x, NEW y
    PROVE  Sooner(x, y) <=>
             \/ x.key[1] < y.key[1]
             \/ x.key[1] = y.key[1] /\ x.key[2] < y.key[2]
             \/ x.key[1] = y.key[1] /\ x.key[2] = y.key[2] /\ x.key[3] < y.key[3]
             \/ x.key[1] = y.key[1] /\ x.key[2] = y.key[2] /\ x.key[3] = y.key[3]
                /\ x.key[4] < y.key[4]
             \/ x.key[1] = y.key[1] /\ x.key[2] = y.key[2] /\ x.key[3] = y.key[3]
                /\ x.key[4] = y.key[4] /\ x.key[5] < y.key[5]
<1> DEFINE At(i) == x.key[i] < y.key[i] /\ \A j \in 1 .. i - 1 : x.key[j] = y.key[j]
<1>1. 1 .. 5 = {1, 2, 3, 4, 5} /\ 1 .. 0 = {} /\ 1 .. 1 = {1} /\ 1 .. 2 = {1, 2}
      /\ 1 .. 3 = {1, 2, 3} /\ 1 .. 4 = {1, 2, 3, 4}
  OBVIOUS
<1>2. Sooner(x, y) <=> At(1) \/ At(2) \/ At(3) \/ At(4) \/ At(5)
  <2>1. Sooner(x, y) <=> \E i \in {1, 2, 3, 4, 5} : At(i)
    BY <1>1 DEF Sooner
  <2> HIDE DEF At
  <2> QED
    BY <2>1
<1>3. /\ At(1) <=> x.key[1] < y.key[1]
      /\ At(2) <=> x.key[2] < y.key[2] /\ x.key[1] = y.key[1]
      /\ At(3) <=> x.key[3] < y.key[3] /\ x.key[1] = y.key[1] /\ x.key[2] = y.key[2]
      /\ At(4) <=> x.key[4] < y.key[4] /\ x.key[1] = y.key[1] /\ x.key[2] = y.key[2]
                   /\ x.key[3] = y.key[3]
      /\ At(5) <=> x.key[5] < y.key[5] /\ x.key[1] = y.key[1] /\ x.key[2] = y.key[2]
                   /\ x.key[3] = y.key[3] /\ x.key[4] = y.key[4]
  OBVIOUS
<1> HIDE DEF At
<1> QED
  BY <1>2, <1>3

\* A line is ordered: what comes before is settled for any two in it.
LEMMA SoonerOrders ==
    ASSUME NEW l, Line(l), NEW x \in l, NEW y \in l
    PROVE  /\ ~Sooner(x, x)
           /\ x # y => Sooner(x, y) \/ Sooner(y, x)
           /\ \A z \in l : Sooner(x, y) /\ Sooner(y, z) => Sooner(x, z)
<1>1. \A z \in l : /\ z.key[1] \in Int /\ z.key[2] \in Int /\ z.key[3] \in Int
                   /\ z.key[4] \in Int /\ z.key[5] \in Int
  BY DEF Line
<1>2. ~Sooner(x, x)
  BY <1>1, SoonerIs
<1>3. ASSUME x # y PROVE Sooner(x, y) \/ Sooner(y, x)
  <2>1. x.key # y.key /\ x.key \in [1 .. 5 -> Int] /\ y.key \in [1 .. 5 -> Int]
    BY <1>3 DEF Line
  <2>2. \E i \in 1 .. 5 : x.key[i] # y.key[i]
    BY <2>1
  <2>3. \/ x.key[1] # y.key[1] \/ x.key[2] # y.key[2] \/ x.key[3] # y.key[3]
        \/ x.key[4] # y.key[4] \/ x.key[5] # y.key[5]
    BY <2>2
  <2> QED
    BY <1>1, <2>3, SoonerIs
<1>4. ASSUME NEW z \in l, Sooner(x, y), Sooner(y, z) PROVE Sooner(x, z)
  BY <1>1, <1>4, SoonerIs
<1> QED
  BY <1>2, <1>3, <1>4

\* The stretches of a line follow each other.
Upfront(l, x) == {z \in l : z = x \/ Sooner(z, x)}
Amounts(s) == [y \in s |-> y.amount]

LEMMA UptoType ==
    ASSUME NEW l, Line(l), NEW x \in l
    PROVE  /\ IsFiniteSet(Upfront(l, x)) /\ Upfront(l, x) \subseteq l /\ x \in Upfront(l, x)
           /\ Amounts(Upfront(l, x)) \in [Upfront(l, x) -> Nat]
           /\ Upto(l, x) = SumOf(Amounts(Upfront(l, x)))
           /\ Upto(l, x) \in Nat /\ x.amount \in Nat /\ x.amount <= Upto(l, x)
<1>1. /\ IsFiniteSet(Upfront(l, x)) /\ Upfront(l, x) \subseteq l /\ x \in Upfront(l, x)
      /\ Amounts(Upfront(l, x)) \in [Upfront(l, x) -> Nat] /\ x.amount \in Nat
  BY FS_Subset DEF Line, Upfront, Amounts
<1>2. Upto(l, x) = SumOf(Amounts(Upfront(l, x)))
  BY DEF Upto, Upfront, Amounts
<1>3. SumOf(Amounts(Upfront(l, x))) \in Nat
  BY <1>1, SumType
<1>4. Amounts(Upfront(l, x))[x] <= SumOf(Amounts(Upfront(l, x)))
  BY <1>1, SumAtLeast
<1>5. Amounts(Upfront(l, x))[x] = x.amount
  BY <1>1 DEF Amounts
<1> QED
  BY <1>1, <1>2, <1>3, <1>4, <1>5

LEMMA StretchesFollow ==
    ASSUME NEW l, Line(l), NEW x \in l, NEW y \in l, Sooner(x, y)
    PROVE  Upto(l, x) + y.amount <= Upto(l, y)
<1> DEFINE A == Upfront(l, x)
           B == Upfront(l, y)
           C == B \ {y}
<1>1. A \subseteq C
  BY SoonerOrders DEF Upfront
<1>2. /\ IsFiniteSet(B) /\ y \in B /\ Amounts(B) \in [B -> Nat]
      /\ Amounts(A) \in [A -> Nat]
      /\ Upto(l, y) = SumOf(Amounts(B)) /\ Upto(l, x) = SumOf(Amounts(A))
      /\ y.amount \in Nat /\ Upto(l, x) \in Nat
  BY UptoType
<1>3. IsFiniteSet(C) /\ Amounts(C) \in [C -> Nat] /\ Amounts(B)[y] = y.amount
      /\ Amounts(C) = [z \in B \ {y} |-> Amounts(B)[z]]
      /\ \A z \in A : Amounts(A)[z] <= Amounts(C)[z]
  <2>1. IsFiniteSet(C) /\ C \subseteq B
    BY <1>2, FS_Subset
  <2> HIDE DEF A, B
  <2> QED
    BY <1>1, <1>2, <2>1 DEF Amounts
<1> HIDE DEF A, B
<1>4. SumOf(Amounts(B)) = y.amount + SumOf(Amounts(C))
  <2>1. SumOf(Amounts(B)) = Amounts(B)[y] + SumOf([z \in B \ {y} |-> Amounts(B)[z]])
    BY <1>2, SumSplit
  <2> QED
    BY <1>3, <2>1
<1> HIDE DEF C
<1>5. SumOf(Amounts(A)) <= SumOf(Amounts(C)) /\ SumOf(Amounts(C)) \in Nat
  BY <1>1, <1>2, <1>3, SumMono, SumType
<1> QED
  BY <1>2, <1>4, <1>5

\* The stretch of a place.
StretchOf(l, x) == [pool |-> x.pool, from |-> Upto(l, x) - x.amount, to |-> Upto(l, x)]

LEMMA StretchesApart ==
    ASSUME NEW l, Line(l)
    PROVE  /\ IsFiniteSet(Stretches(l))
           /\ \A s \in Stretches(l) : \E x \in l : s = StretchOf(l, x)
           /\ \A s \in Stretches(l) : s.from \in Nat /\ s.to \in Nat /\ s.from <= s.to
           /\ \A s, t \in Stretches(l) :
                  s # t => s.pool # t.pool /\ (s.to <= t.from \/ t.to <= s.from)
<1> DEFINE f == [x \in l |-> StretchOf(l, x)]
<1>1. f \in Surjection(l, Stretches(l))
  BY DEF Surjection, Stretches, StretchOf
<1>2. IsFiniteSet(Stretches(l))
  <2> HIDE DEF f
  <2> QED
    BY <1>1, FS_Surjection DEF Line
<1>3. \A s \in Stretches(l) : \E x \in l : s = StretchOf(l, x)
  BY DEF Stretches, StretchOf
<1>4. \A x \in l : /\ StretchOf(l, x).from \in Nat /\ StretchOf(l, x).to \in Nat
                   /\ StretchOf(l, x).from <= StretchOf(l, x).to
  BY UptoType DEF StretchOf
<1>5. ASSUME NEW x \in l, NEW y \in l, x # y
      PROVE  /\ x.pool # y.pool
             /\ \/ StretchOf(l, x).to <= StretchOf(l, y).from
                \/ StretchOf(l, y).to <= StretchOf(l, x).from
  <2>1. x.pool # y.pool /\ (Sooner(x, y) \/ Sooner(y, x))
    BY <1>5, SoonerOrders DEF Line
  <2>2. /\ Upto(l, x) \in Nat /\ x.amount \in Nat /\ Upto(l, y) \in Nat /\ y.amount \in Nat
    BY UptoType
  <2>3. \/ Upto(l, x) + y.amount <= Upto(l, y) \/ Upto(l, y) + x.amount <= Upto(l, x)
    BY <2>1, StretchesFollow
  <2> QED
    BY <2>1, <2>2, <2>3 DEF StretchOf
<1>6. \A s, t \in Stretches(l) :
         s # t => s.pool # t.pool /\ (s.to <= t.from \/ t.to <= s.from)
  <2> SUFFICES ASSUME NEW s \in Stretches(l), NEW t \in Stretches(l), s # t
               PROVE  s.pool # t.pool /\ (s.to <= t.from \/ t.to <= s.from)
    OBVIOUS
  <2>1. PICK x \in l, y \in l : s = StretchOf(l, x) /\ t = StretchOf(l, y)
    BY <1>3
  <2>2. x # y /\ s.pool = x.pool /\ t.pool = y.pool
    BY <2>1 DEF StretchOf
  <2> QED
    BY <1>5, <2>1, <2>2
<1> QED
  BY <1>2, <1>3, <1>4, <1>6

\* All the deals of two lines, and what each moves.
Deals(D, R) == Stretches(D) \X Stretches(R)
Dealt(D, R) == [d \in Deals(D, R) |-> Moved(d[1], d[2])]
GiverOf(D, R) == [d \in Deals(D, R) |-> d[1].pool]
TakerOf(D, R) == [d \in Deals(D, R) |-> d[2].pool]
Given(D, R, n) == GroupSum(Deals(D, R), Dealt(D, R), GiverOf(D, R), n)
Taken(D, R, n) == GroupSum(Deals(D, R), Dealt(D, R), TakerOf(D, R), n)

LEMMA DealTypes ==
    ASSUME NEW D, NEW R, Line(D), Line(R)
    PROVE  /\ IsFiniteSet(Deals(D, R)) /\ Dealt(D, R) \in [Deals(D, R) -> Nat]
           /\ \A n : Given(D, R, n) \in Nat /\ Taken(D, R, n) \in Nat
<1>1. IsFiniteSet(Deals(D, R))
  BY StretchesApart, FS_Product DEF Deals
<1>2. Dealt(D, R) \in [Deals(D, R) -> Nat]
  <2>1. ASSUME NEW d \in Deals(D, R) PROVE Moved(d[1], d[2]) \in Nat
    <3>1. d[1] \in Stretches(D) /\ d[2] \in Stretches(R)
      BY DEF Deals
    <3>2. /\ d[1].from \in Nat /\ d[1].to \in Nat /\ d[2].from \in Nat /\ d[2].to \in Nat
      BY <3>1, StretchesApart
    <3> QED
      BY <3>2 DEF Moved, Larger, Smaller
  <2> QED
    BY <2>1 DEF Dealt
<1> QED
  BY <1>1, <1>2, GroupSumType DEF Given, Taken

LEMMA AfterIs ==
    ASSUME NEW D, NEW R, NEW n \in Pools
    PROVE  After(D, R)[n] = fleet[n] + Taken(D, R, n) - Given(D, R, n)
<1> DEFINE in == {d \in Deals(D, R) : d[2].pool = n}
           out == {d \in Deals(D, R) : d[1].pool = n}
<1>1. After(D, R)[n] = fleet[n] + SumOf([d \in in |-> Moved(d[1], d[2])])
                                - SumOf([d \in out |-> Moved(d[1], d[2])])
  BY DEF After, Deals
<1>2. Group(Deals(D, R), TakerOf(D, R), n) = in /\ Group(Deals(D, R), GiverOf(D, R), n) = out
  BY DEF Group, TakerOf, GiverOf
<1>3. /\ [d \in in |-> Moved(d[1], d[2])] = [d \in in |-> Dealt(D, R)[d]]
      /\ [d \in out |-> Moved(d[1], d[2])] = [d \in out |-> Dealt(D, R)[d]]
  BY DEF Dealt
<1> HIDE DEF in, out
<1> QED
  BY <1>1, <1>2, <1>3 DEF Taken, Given, GroupSum

\* Nobody gives more than it has to give.
LEMMA GivenWithin ==
    ASSUME NEW D, NEW R, Line(D), Line(R), NEW x \in D
    PROVE  Given(D, R, x.pool) <= x.amount
<1> DEFINE s == StretchOf(D, x)
           S == Group(Deals(D, R), GiverOf(D, R), x.pool)
           lo == [d \in S |-> d[2].from]
           hi == [d \in S |-> d[2].to]
<1>1. /\ s \in Stretches(D) /\ s.from \in Nat /\ s.to \in Nat /\ s.from <= s.to
      /\ s.to - s.from = x.amount /\ s.pool = x.pool
  <2>1. s \in Stretches(D) /\ s.pool = x.pool
    BY DEF Stretches, StretchOf
  <2>2. Upto(D, x) \in Nat /\ x.amount \in Nat
    BY UptoType
  <2> QED
    BY <2>1, <2>2, StretchesApart DEF StretchOf
<1>2. IsFiniteSet(S) /\ S \subseteq Deals(D, R)
  <2>1. IsFiniteSet(S)
    BY DealTypes, GroupSumType
  <2>2. S \subseteq Deals(D, R)
    BY DEF Group
  <2> QED
    BY <2>1, <2>2
<1>3. ASSUME NEW d \in S
      PROVE  d = <<s, d[2]>> /\ d[1] = s /\ d[2] \in Stretches(R)
  <2>1. d[1] \in Stretches(D) /\ d[2] \in Stretches(R) /\ d = <<d[1], d[2]>>
        /\ d[1].pool = x.pool
    BY DEF Group, Deals, GiverOf
  <2> QED
    BY <1>1, <2>1, StretchesApart
<1>4. \A d \in S : d[2].from \in Nat /\ d[2].to \in Nat
  BY <1>3, StretchesApart
<1>5. lo \in [S -> Nat] /\ hi \in [S -> Nat]
  BY <1>4
<1>6. \A d, e \in S : d # e => hi[d] <= lo[e] \/ hi[e] <= lo[d]
  <2> SUFFICES ASSUME NEW d \in S, NEW e \in S, d # e
               PROVE  d[2].to <= e[2].from \/ e[2].to <= d[2].from
    OBVIOUS
  <2>1. d[2] # e[2] /\ d[2] \in Stretches(R) /\ e[2] \in Stretches(R)
    BY <1>3
  <2> QED
    BY <2>1, StretchesApart
<1>7. \A d \in S : Dealt(D, R)[d]
            = Larger(0, Smaller(hi[d], s.to) - Larger(lo[d], s.from))
  <2> SUFFICES ASSUME NEW d \in S
               PROVE  Moved(d[1], d[2])
                        = Larger(0, Smaller(d[2].to, s.to) - Larger(d[2].from, s.from))
    BY <1>2 DEF Dealt
  <2>1. Moved(d[1], d[2]) = Moved(s, d[2])
    BY <1>3
  <2> HIDE DEF s
  <2>2. Moved(s, d[2]) = Larger(0, Smaller(d[2].to, s.to) - Larger(d[2].from, s.from))
    BY <1>1, <1>4 DEF Moved, Smaller, Larger
  <2> QED
    BY <2>1, <2>2
<1>8. [d \in S |-> Dealt(D, R)[d]]
          = [d \in S |-> Larger(0, Smaller(hi[d], s.to) - Larger(lo[d], s.from))]
  BY <1>7
<1> HIDE DEF s, S, lo, hi
<1>9. SumOf([d \in S |-> Larger(0, Smaller(hi[d], s.to) - Larger(lo[d], s.from))])
          <= s.to - s.from
  BY <1>1, <1>2, <1>5, <1>6, SumOfPieces
<1> QED
  BY <1>1, <1>8, <1>9 DEF Given, GroupSum, S

\* Who is in no line gives nothing.
LEMMA GivenByNobody ==
    ASSUME NEW D, NEW R, Line(D), Line(R), NEW n, \A x \in D : x.pool # n
    PROVE  Given(D, R, n) = 0
<1> DEFINE S == Group(Deals(D, R), GiverOf(D, R), n)
<1>1. S = {}
  <2> SUFFICES ASSUME NEW d \in S PROVE FALSE
    OBVIOUS
  <2>1. d[1] \in Stretches(D) /\ d[1].pool = n
    BY DEF Group, Deals, GiverOf
  <2>2. PICK x \in D : d[1] = StretchOf(D, x)
    BY <2>1, StretchesApart
  <2> QED
    BY <2>1, <2>2 DEF StretchOf
<1>2. IsFiniteSet(S) /\ [d \in S |-> Dealt(D, R)[d]] \in [S -> Nat]
      /\ \A d \in S : [e \in S |-> Dealt(D, R)[e]][d] = 0
  BY <1>1, FS_EmptySet
<1>3. SumOf([d \in S |-> Dealt(D, R)[d]]) = 0
  <2> HIDE DEF S
  <2> QED
    BY <1>2, SumZero
<1> QED
  BY <1>3 DEF Given, GroupSum

\* Two lines of pools, and donors that have what they give.
Movable(D, R) ==
    /\ Line(D) /\ Line(R)
    /\ \A x \in D \cup R : x.pool \in Pools
    /\ \A x \in D : x.amount <= fleet[x.pool]

LEMMA FleetType ==
    ASSUME DayTypeOK
    PROVE  IsFiniteSet(Pools) /\ fleet \in [Pools -> Nat]
<1>1. IsFiniteSet({"OVERFLOW"})
  BY FS_Singleton
<1> QED
  BY <1>1, NpasFinite, FleetsNat, FS_Union DEF DayTypeOK, Pools

LEMMA AfterKeeps ==
    ASSUME DayTypeOK, NEW D, NEW R, Movable(D, R)
    PROVE  /\ After(D, R) \in [Pools -> Nat]
           /\ \A n \in Pools : (\A x \in D : x.pool # n) => After(D, R)[n] >= fleet[n]
           /\ \A x \in D : After(D, R)[x.pool] >= fleet[x.pool] - x.amount
<1>1. \A n \in Pools : /\ fleet[n] \in Nat
                       /\ Given(D, R, n) \in Nat /\ Taken(D, R, n) \in Nat
                       /\ After(D, R)[n] = fleet[n] + Taken(D, R, n) - Given(D, R, n)
  BY FleetType, DealTypes, AfterIs DEF Movable
<1>2. \A n \in Pools : (\A x \in D : x.pool # n) => Given(D, R, n) = 0
  BY GivenByNobody DEF Movable
<1>3. \A x \in D : /\ Given(D, R, x.pool) <= x.amount /\ x.pool \in Pools
                   /\ x.amount <= fleet[x.pool] /\ x.amount \in Nat
  BY GivenWithin DEF Movable, Line
<1>4. \A n \in Pools : Given(D, R, n) <= fleet[n]
  <2> TAKE n \in Pools
  <2>1. CASE \A x \in D : x.pool # n
    BY <1>1, <1>2, <2>1
  <2>2. CASE \E x \in D : x.pool = n
    <3>1. PICK x \in D : x.pool = n
      BY <2>2
    <3> QED
      BY <1>1, <1>3, <3>1
  <2> QED
    BY <2>1, <2>2
<1>5. \A n \in Pools : After(D, R)[n] \in Nat
  BY <1>1, <1>4
<1>6. After(D, R) \in [Pools -> Nat]
  <2>1. After(D, R) = [n \in Pools |-> After(D, R)[n]]
    BY DEF After
  <2> QED
    BY <1>5, <2>1
<1> QED
  BY <1>1, <1>2, <1>3, <1>6

\* Moving numbers makes and loses none.
LEMMA AfterConserves ==
    ASSUME DayTypeOK, NEW D, NEW R, Movable(D, R)
    PROVE  FleetSize(After(D, R)) = FleetSize(fleet)
<1> DEFINE in == [n \in Pools |-> Taken(D, R, n)]
           out == [n \in Pools |-> Given(D, R, n)]
           moved == [n \in Pools |-> After(D, R)[n]]
           was == [n \in Pools |-> fleet[n]]
<1>1. /\ IsFiniteSet(Pools) /\ in \in [Pools -> Nat] /\ out \in [Pools -> Nat]
      /\ moved \in [Pools -> Nat] /\ was \in [Pools -> Nat]
  BY FleetType, DealTypes, AfterKeeps DEF Movable
<1>2. GiverOf(D, R) \in [Deals(D, R) -> Pools] /\ TakerOf(D, R) \in [Deals(D, R) -> Pools]
  <2>1. ASSUME NEW d \in Deals(D, R) PROVE d[1].pool \in Pools /\ d[2].pool \in Pools
    <3>1. d[1] \in Stretches(D) /\ d[2] \in Stretches(R)
      BY DEF Deals
    <3>2. PICK x \in D : d[1] = StretchOf(D, x)
      BY <3>1, StretchesApart DEF Movable
    <3>3. PICK y \in R : d[2] = StretchOf(R, y)
      BY <3>1, StretchesApart DEF Movable
    <3> QED
      BY <3>2, <3>3 DEF StretchOf, Movable
  <2> QED
    BY <2>1 DEF GiverOf, TakerOf
<1>3. SumOf(in) = SumOf(Dealt(D, R)) /\ SumOf(out) = SumOf(Dealt(D, R))
  BY <1>1, <1>2, DealTypes, SumByGroup DEF Taken, Given, Movable
<1>4. [n \in Pools |-> moved[n] + out[n]] = [n \in Pools |-> was[n] + in[n]]
  <2>1. ASSUME NEW n \in Pools PROVE moved[n] + out[n] = was[n] + in[n]
    <3>1. /\ fleet[n] \in Nat /\ Given(D, R, n) \in Nat /\ Taken(D, R, n) \in Nat
          /\ After(D, R)[n] = fleet[n] + Taken(D, R, n) - Given(D, R, n)
      BY FleetType, DealTypes, AfterIs DEF Movable
    <3> QED
      BY <3>1
  <2> QED
    BY <2>1
<1> HIDE DEF in, out, moved, was
<1>5. /\ SumOf([n \in Pools |-> moved[n] + out[n]]) = SumOf(moved) + SumOf(out)
      /\ SumOf([n \in Pools |-> was[n] + in[n]]) = SumOf(was) + SumOf(in)
  BY <1>1, SumAdd
<1>6. SumOf(moved) \in Nat /\ SumOf(was) \in Nat /\ SumOf(in) \in Nat /\ SumOf(out) \in Nat
  BY <1>1, SumType
<1>7. SumOf(moved) = SumOf(was)
  BY <1>3, <1>4, <1>5, <1>6
<1> QED
  BY <1>7 DEF FleetSize, moved, was

\* A donor at the end of the line takes nothing from those before it.
LEMMA AfterMore ==
    ASSUME DayTypeOK, NEW D, NEW E, NEW R, Movable(D, R), Movable(E, R), D \subseteq E,
           \A x \in D, z \in E \ D : Sooner(x, z)
    PROVE  \A n \in Pools : (\A x \in E : x.pool # n) => After(E, R)[n] >= After(D, R)[n]
<1>1. \A x \in D : StretchOf(D, x) = StretchOf(E, x)
  <2> SUFFICES ASSUME NEW x \in D PROVE Upfront(D, x) = Upfront(E, x)
    <3>1. \A x \in D : Upfront(D, x) = Upfront(E, x) => Upto(D, x) = Upto(E, x)
      BY UptoType DEF Movable
    <3> QED
      BY <3>1 DEF StretchOf
  <2>1. ASSUME NEW z \in E \ D PROVE z # x /\ ~Sooner(z, x)
    BY SoonerOrders DEF Movable
  <2> QED
    BY <2>1 DEF Upfront
<1>2. Stretches(D) \subseteq Stretches(E)
  <2>1. \A s \in Stretches(D) : \E x \in D : s = StretchOf(D, x)
    BY StretchesApart DEF Movable
  <2>2. \A x \in E : StretchOf(E, x) \in Stretches(E)
    BY DEF Stretches, StretchOf
  <2> QED
    BY <1>1, <2>1, <2>2
<1>3. ASSUME NEW n \in Pools PROVE Taken(D, R, n) <= Taken(E, R, n)
  <2> DEFINE S == Group(Deals(D, R), TakerOf(D, R), n)
             U == Group(Deals(E, R), TakerOf(E, R), n)
             f == [d \in S |-> Dealt(D, R)[d]]
             g == [d \in U |-> Dealt(E, R)[d]]
  <2>1. S \subseteq U
    BY <1>2 DEF Group, Deals, TakerOf
  <2>2. IsFiniteSet(U)
    BY DealTypes, GroupSumType DEF Movable
  <2>3. f \in [S -> Nat] /\ g \in [U -> Nat]
    BY DealTypes DEF Group, Movable
  <2>4. \A d \in S : f[d] <= g[d]
    <3>1. \A d \in S : f[d] = g[d]
      BY <2>1 DEF Dealt, Group
    <3>2. \A d \in S : f[d] \in Nat
      BY <2>3
    <3> QED
      BY <3>1, <3>2
  <2> HIDE DEF f, g
  <2>5. SumOf(f) <= SumOf(g)
    <3> HIDE DEF S, U
    <3> QED
      BY <2>1, <2>2, <2>3, <2>4, SumMono
  <2> QED
    BY <2>5 DEF f, g, Taken, GroupSum
<1> QED
  <2> SUFFICES ASSUME NEW n \in Pools, \A x \in E : x.pool # n
               PROVE  After(E, R)[n] >= After(D, R)[n]
    OBVIOUS
  <2>1. Given(E, R, n) = 0 /\ Given(D, R, n) = 0
    BY GivenByNobody DEF Movable
  <2>2. /\ fleet[n] \in Nat /\ Taken(D, R, n) \in Nat /\ Taken(E, R, n) \in Nat
        /\ After(D, R)[n] = fleet[n] + Taken(D, R, n) - Given(D, R, n)
        /\ After(E, R)[n] = fleet[n] + Taken(E, R, n) - Given(E, R, n)
    BY FleetType, DealTypes, AfterIs DEF Movable
  <2> QED
    BY <1>3, <2>1, <2>2
-----------------------------------------------------------------------------
(***************************************************************************)
(* analyze-did-capacity.py: the move.                                      *)
(***************************************************************************)

\* A quotient rounded up is enough.
LEMMA CeilDivUp ==
    ASSUME NEW a \in Nat, NEW b \in Nat \ {0}
    PROVE  CeilDiv(a, b) \in Nat /\ a <= CeilDiv(a, b) * b
<1> DEFINE q == (a + b - 1) \div b
<1>1. a + b - 1 \in Nat
  OBVIOUS
<1>2. \A c \in Nat : /\ c \div b \in Nat
                     /\ c < b * (c \div b) + b
  OBVIOUS
<1>3. q \in Nat /\ a + b - 1 < b * q + b
  BY <1>1, <1>2
<1>4. b * q \in Nat /\ b * q = q * b
  BY <1>3
<1> HIDE DEF q
<1>5. a <= q * b
  BY <1>3, <1>4
<1> QED
  BY <1>3, <1>5 DEF CeilDiv, q

LEMMA FiniteValues ==
    ASSUME NEW S, IsFiniteSet(S), NEW f
    PROVE  IsFiniteSet({f[x] : x \in S})
<1> DEFINE T == {f[x] : x \in S}
           g == [x \in S |-> f[x]]
<1>1. g \in Surjection(S, T)
  BY DEF Surjection
<1> QED
  BY <1>1, FS_Surjection

\* What an area code needs carries its calls on every day.
LEMMA RowFacts ==
    ASSUME DayTypeOK, NEW n \in Npas
    PROVE  /\ Rows[n].peak \in Nat /\ Rows[n].need \in Nat /\ Rows[n].refused \in Nat
           /\ Rows[n].need * Cap \in Nat
           /\ \A d \in Days : Demand(n, d) \in Nat /\ Demand(n, d) <= Rows[n].need * Cap
<1> DEFINE f == [d \in Days |-> Demand(n, d)]
           S == {f[d] : d \in Days}
           p == Peak(n)
           q == NeedOf(p)
<1>1. \A d \in Days : Demand(n, d) \in Nat
  BY DEF DayTypeOK, Demand
<1>2. IsFiniteSet(S)
  <2>1. IsFiniteSet(Days)
    BY Capacities
  <2> HIDE DEF f
  <2> QED
    BY <2>1, FiniteValues
<1>3. S # {}
  BY DaysNat DEF Days
<1>4. S \subseteq Nat
  BY <1>1
<1>5. Max(S) \in S /\ \A x \in S : x <= Max(S)
  <2> HIDE DEF S
  <2> QED
    BY <1>2, <1>3, <1>4, MaxIsGreatest
<1>6. p = Max(S)
  <2>1. S = {Demand(n, d) : d \in Days}
    OBVIOUS
  <2> QED
    BY <2>1 DEF Peak
<1>7. p \in Nat /\ \A d \in Days : Demand(n, d) <= p
  <2>1. \A d \in Days : Demand(n, d) \in S
    OBVIOUS
  <2> HIDE DEF S, p
  <2> QED
    BY <1>4, <1>5, <1>6, <2>1
<1> HIDE DEF p
<1>8. /\ p * (100 + Headroom) \in Nat /\ 100 * Cap \in Nat \ {0}
      /\ Cap \in Nat /\ Headroom \in Nat /\ p * Headroom \in Nat
      /\ p * (100 + Headroom) = 100 * p + p * Headroom
  <2>1. Cap \in Nat \ {0} /\ Headroom \in Nat
    BY CapPositive, NeedsNat
  <2>2. \A a, b \in Nat : a * b \in Nat /\ a * (100 + b) = 100 * a + a * b
    OBVIOUS
  <2>3. 100 * Cap \in Nat \ {0}
    BY <2>1
  <2>4. 100 + Headroom \in Nat
    BY <2>1
  <2> QED
    BY <1>7, <2>1, <2>2, <2>3, <2>4
<1>9. q \in Nat /\ p * (100 + Headroom) <= q * (100 * Cap)
  BY <1>8, CeilDivUp DEF NeedOf
<1> HIDE DEF q
<1>10. q * Cap \in Nat /\ q * (100 * Cap) = 100 * (q * Cap)
  BY <1>8, <1>9
<1>11. p <= q * Cap
  <2> DEFINE u == q * Cap
             v == p * Headroom
  <2>1. u \in Nat /\ v \in Nat /\ 100 * p + v <= 100 * u
    BY <1>8, <1>9, <1>10
  <2> HIDE DEF u, v
  <2>2. p <= u
    BY <1>7, <2>1
  <2> QED
    BY <2>2 DEF u
<1>12. TotalRefused(n) \in Nat
  <2> DEFINE g == [d \in Days |-> cdr[n][d].refused]
  <2>1. g \in [Days -> Nat] /\ IsFiniteSet(Days)
    BY Capacities DEF DayTypeOK
  <2>2. SumOf(g) \in Nat
    <3> HIDE DEF g
    <3> QED
      BY <2>1, SumType
  <2> QED
    BY <2>2 DEF TotalRefused
<1>13. Rows[n].peak = p /\ Rows[n].need = q /\ Rows[n].refused = TotalRefused(n)
  BY DEF Rows, p, q
<1> QED
  BY <1>1, <1>7, <1>9, <1>10, <1>11, <1>12, <1>13

\* Places of different area codes differ, and one of its own is kept for each.
LEMMA PlacesLine ==
    ASSUME DayTypeOK, NEW S \in SUBSET Npas, NEW a \in [S -> Nat], NEW first \in [S -> Int]
    PROVE  Line({InLine(n, a[n], first[n], Rows[n]) : n \in S})
<1> DEFINE f == [n \in S |-> InLine(n, a[n], first[n], Rows[n])]
           l == {f[n] : n \in S}
<1>1. IsFiniteSet(S)
  BY NpasFinite, FS_Subset
<1>2. IsFiniteSet(l)
  <2> HIDE DEF f
  <2> QED
    BY <1>1, FiniteValues
<1>3. ASSUME NEW n \in S
      PROVE  /\ f[n].pool = n /\ f[n].amount \in Nat
             /\ f[n].key \in [1 .. 5 -> Int] /\ f[n].key[5] = Listed[n]
  <2>1. /\ Rows[n].refused \in Nat /\ Rows[n].peak \in Nat /\ Listed[n] \in Nat
    BY RowFacts, OrderGiven
  <2>2. /\ a[n] \in Nat /\ first[n] \in Int
    OBVIOUS
  <2>3. /\ 0 - a[n] \in Int /\ 0 - Rows[n].refused \in Int /\ 0 - Rows[n].peak \in Int
    BY <2>1, <2>2
  <2>4. f[n].key = <<first[n], 0 - a[n], 0 - Rows[n].refused, 0 - Rows[n].peak, Listed[n]>>
        /\ f[n].pool = n /\ f[n].amount = a[n]
    BY DEF InLine
  <2> HIDE DEF f
  <2>5. \A c1, c2, c3, c4, c5 \in Int :
            <<c1, c2, c3, c4, c5>> \in [1 .. 5 -> Int] /\ <<c1, c2, c3, c4, c5>>[5] = c5
    OBVIOUS
  <2>6. Listed[n] \in Int
    BY <2>1
  <2> DEFINE k == <<first[n], 0 - a[n], 0 - Rows[n].refused, 0 - Rows[n].peak, Listed[n]>>
  <2>7. k \in [1 .. 5 -> Int] /\ k[5] = Listed[n]
    BY <2>2, <2>3, <2>5, <2>6
  <2> HIDE DEF k
  <2> QED
    BY <2>2, <2>4, <2>7 DEF k
<1> HIDE DEF f
<1>4. \A m, n \in S : f[m].key = f[n].key => m = n
  <2>1. \A n \in S : f[n].key[5] = Listed[n] /\ n \in Npas
    BY <1>3
  <2> QED
    BY <2>1, OrderGiven
<1>5. \A x \in l : \E n \in S : x = f[n]
  OBVIOUS
<1>6. \A x \in l : x.amount \in Nat /\ x.key \in [1 .. 5 -> Int]
  BY <1>3, <1>5
<1>7. \A x, y \in l : x.key = y.key \/ x.pool = y.pool => x = y
  BY <1>3, <1>4, <1>5
<1>8. Line(l)
  BY <1>2, <1>6, <1>7 DEF Line
<1> QED
  BY <1>8 DEF l, f

\* What donors and receivers have to do with what they need.
LEMMA DonorFacts ==
    ASSUME DayTypeOK
    PROVE  /\ Line(Donors(Rows))
           /\ \A x \in Donors(Rows) :
                /\ x.pool \in Npas /\ x.amount > 0 /\ x.key[1] = 0
                /\ fleet[x.pool] - x.amount >= Rows[x.pool].need + 2
<1> DEFINE surplus(n) == fleet[n] - DonorRetain(Rows[n].need)
           S == {n \in Npas : surplus(n) > 0}
           a == [n \in S |-> surplus(n)]
           first == [n \in S |-> 0]
<1>1. ASSUME NEW n \in Npas
      PROVE  fleet[n] \in Nat /\ DonorRetain(Rows[n].need) \in Nat
             /\ DonorRetain(Rows[n].need) >= Rows[n].need + 2
  <2>1. fleet[n] \in Nat /\ Rows[n].need \in Nat
    BY Capacities, RowFacts
  <2>2. CeilDiv(Rows[n].need * 5, 4) \in Nat
    BY <2>1, CeilDivUp
  <2> QED
    BY <2>1, <2>2 DEF DonorRetain, Larger
<1>2. S \in SUBSET Npas /\ a \in [S -> Nat] /\ first \in [S -> Int]
  BY <1>1
<1>3. Donors(Rows) = {InLine(n, a[n], first[n], Rows[n]) : n \in S}
  BY DEF Donors
<1>4. Line(Donors(Rows))
  <2> HIDE DEF S, a, first
  <2> QED
    BY <1>2, <1>3, PlacesLine
<1>5. ASSUME NEW x \in Donors(Rows)
      PROVE  /\ x.pool \in Npas /\ x.amount > 0 /\ x.key[1] = 0
             /\ fleet[x.pool] - x.amount >= Rows[x.pool].need + 2
  <2>1. PICK n \in S : x = InLine(n, surplus(n), 0, Rows[n])
    BY <1>3
  <2>2. x.pool = n /\ x.amount = surplus(n) /\ x.key[1] = 0 /\ n \in Npas /\ surplus(n) > 0
    BY <2>1 DEF InLine
  <2>3. Rows[n].need \in Nat
    BY <2>2, RowFacts
  <2> QED
    BY <1>1, <2>2, <2>3
<1> QED
  BY <1>4, <1>5

LEMMA ReceiverFacts ==
    ASSUME DayTypeOK
    PROVE  /\ Line(Receivers(Rows))
           /\ \A x \in Receivers(Rows) : x.pool \in Npas
<1> DEFINE short(n) == Rows[n].need - fleet[n]
           S == {n \in Npas : short(n) > 0}
           a == [n \in S |-> short(n)]
           first == [n \in S |-> PriorityOf(n)]
<1>1. ASSUME NEW n \in Npas PROVE fleet[n] \in Nat /\ Rows[n].need \in Nat
  BY Capacities, RowFacts
<1>2. ASSUME NEW n \in Npas PROVE PriorityOf(n) \in Int
  <2>1. Len(Priority) \in Nat /\ DOMAIN Priority = 1 .. Len(Priority)
    BY OrderGiven
  <2>2. CASE n \in ToSet(Priority)
    <3>1. \E i \in DOMAIN Priority : Priority[i] = n
      BY <2>2 DEF ToSet
    <3> QED
      BY <2>1, <2>2, <3>1 DEF PriorityOf
  <2> QED
    BY <2>1, <2>2 DEF PriorityOf
<1>3. S \in SUBSET Npas /\ a \in [S -> Nat] /\ first \in [S -> Int]
  BY <1>1, <1>2
<1>4. Receivers(Rows) = {InLine(n, a[n], first[n], Rows[n]) : n \in S}
  BY DEF Receivers
<1>5. Line(Receivers(Rows))
  <2> HIDE DEF S, a, first
  <2> QED
    BY <1>3, <1>4, PlacesLine
<1>6. ASSUME NEW x \in Receivers(Rows) PROVE x.pool \in Npas
  <2>1. PICK n \in S : x = InLine(n, a[n], first[n], Rows[n])
    BY <1>4
  <2> QED
    BY <2>1 DEF InLine
<1> QED
  BY <1>5, <1>6

\* The area codes' surplus can be moved, and the overflow's after it.
LEMMA PlanLines ==
    ASSUME DayTypeOK, NEW spare \in Nat, spare <= fleet["OVERFLOW"]
    PROVE  /\ Movable(Donors(Rows), Receivers(Rows))
           /\ Movable(Donors(Rows) \cup FromOverflow(spare), Receivers(Rows))
           /\ \A x \in Donors(Rows), z \in FromOverflow(spare) : Sooner(x, z)
           /\ \A z \in FromOverflow(spare) : z.pool = "OVERFLOW" /\ z.amount = spare
<1> DEFINE D == Donors(Rows)
           O == FromOverflow(spare)
           R == Receivers(Rows)
<1>1. Line(D) /\ Line(R)
  BY DonorFacts, ReceiverFacts
<1>2. \A x \in D \cup R : x.pool \in Npas
  BY DonorFacts, ReceiverFacts
<1>3. \A x \in D : x.amount <= fleet[x.pool]
  <2> TAKE x \in D
  <2>1. /\ x.pool \in Npas /\ fleet[x.pool] - x.amount >= Rows[x.pool].need + 2
    BY DonorFacts
  <2>2. fleet[x.pool] \in Nat /\ Rows[x.pool].need \in Nat /\ x.amount \in Nat
    BY <1>1, <2>1, RowFacts, Capacities DEF Line
  <2> QED
    BY <2>1, <2>2
<1>4. ASSUME NEW z \in O
      PROVE  /\ z.pool = "OVERFLOW" /\ z.amount = spare /\ z.key[1] = 1
             /\ z.key \in [1 .. 5 -> Int]
             /\ \A y \in O : y = z
  <2>1. z = [pool |-> "OVERFLOW", amount |-> spare, key |-> <<1, 0, 0, 0, 0>>]
        /\ \A y \in O : y = z
    BY DEF FromOverflow
  <2>2. <<1, 0, 0, 0, 0>> \in [1 .. 5 -> Int]
    OBVIOUS
  <2> QED
    BY <2>1, <2>2
<1>5. IsFiniteSet(O)
  <2> DEFINE z == [pool |-> "OVERFLOW", amount |-> spare, key |-> <<1, 0, 0, 0, 0>>]
  <2>1. O = {} \/ O = {z}
    BY DEF FromOverflow
  <2> HIDE DEF z, O
  <2> QED
    BY <2>1, FS_EmptySet, FS_Singleton
<1>6. ASSUME NEW x \in D, NEW z \in O
      PROVE  Sooner(x, z) /\ x.pool # z.pool /\ x.key # z.key
  <2>1. x.key[1] = 0 /\ z.key[1] = 1 /\ x.pool \in Npas /\ z.pool = "OVERFLOW"
    BY <1>4, DonorFacts
  <2> QED
    BY <2>1, SoonerIs, NpasFinite
<1>7. \A x \in D : x.key[1] = 0
  BY DonorFacts
<1> HIDE DEF D, O, R
<1>8. Line(D \cup O)
  <2>1. IsFiniteSet(D \cup O)
    BY <1>1, <1>5, FS_Union DEF Line
  <2>2. \A x \in D \cup O : x.amount \in Nat /\ x.key \in [1 .. 5 -> Int]
    BY <1>1, <1>4 DEF Line
  <2>3. \A x, y \in D \cup O : x.key = y.key \/ x.pool = y.pool => x = y
    BY <1>1, <1>4, <1>6 DEF Line
  <2> QED
    BY <2>1, <2>2, <2>3 DEF Line
<1>9. Movable(D, R)
  BY <1>1, <1>2, <1>3 DEF Movable, Pools
<1>10. Movable(D \cup O, R)
  <2>1. fleet["OVERFLOW"] \in Nat
    BY Capacities
  <2> QED
    BY <1>1, <1>2, <1>3, <1>4, <1>8, <2>1 DEF Movable, Pools
<1> QED
  BY <1>4, <1>6, <1>9, <1>10 DEF D, O, R

\* More numbers carry more calls.
LEMMA CarryMore ==
    ASSUME NEW a \in Nat, NEW b \in Nat, a <= b
    PROVE  a * Cap \in Nat /\ b * Cap \in Nat /\ a * Cap <= b * Cap
<1>1. Cap \in Nat
  BY CapPositive
<1>2. PICK c \in Nat : b = a + c
  <2>1. b - a \in Nat /\ b = a + (b - a)
    OBVIOUS
  <2> QED
    BY <2>1
<1>3. a * Cap \in Nat /\ c * Cap \in Nat /\ (a + c) * Cap = a * Cap + c * Cap
  BY <1>1, <1>2
<1> QED
  BY <1>2, <1>3

\* A day's spill: of area codes that have as much as before, or what they need.
Spilled(sizes, d) == [n \in Npas |-> Larger(0, Demand(n, d) - sizes[n] * Cap)]

LEMMA SpillType ==
    ASSUME DayTypeOK, NEW s \in [Pools -> Nat], NEW d \in Days
    PROVE  /\ Spilled(s, d) \in [Npas -> Nat]
           /\ Spill(s, d) = SumOf(Spilled(s, d)) /\ Spill(s, d) \in Nat
           /\ s["OVERFLOW"] * Cap \in Nat
<1>1. ASSUME NEW n \in Npas
      PROVE  Larger(0, Demand(n, d) - s[n] * Cap) \in Nat
  <2>1. Demand(n, d) \in Nat /\ s[n] \in Nat
    BY RowFacts DEF Pools
  <2>2. s[n] * Cap \in Nat
    BY <2>1, CarryMore
  <2> QED
    BY <2>1, <2>2 DEF Larger
<1>2. Spilled(s, d) \in [Npas -> Nat]
  BY <1>1 DEF Spilled
<1>3. Spill(s, d) = SumOf(Spilled(s, d))
  BY DEF Spill, Spilled
<1>4. SumOf(Spilled(s, d)) \in Nat
  BY <1>2, SumType, NpasFinite
<1>5. s["OVERFLOW"] \in Nat
  BY DEF Pools
<1> QED
  BY <1>2, <1>3, <1>4, <1>5, CarryMore

LEMMA SpillLess ==
    ASSUME DayTypeOK, NEW s \in [Pools -> Nat], NEW t \in [Pools -> Nat], NEW d \in Days,
           \A n \in Npas : t[n] >= s[n] \/ t[n] >= Rows[n].need
    PROVE  Spill(t, d) <= Spill(s, d)
<1>1. ASSUME NEW n \in Npas PROVE Spilled(t, d)[n] <= Spilled(s, d)[n]
  <2>1. /\ Demand(n, d) \in Nat /\ s[n] \in Nat /\ t[n] \in Nat /\ Rows[n].need \in Nat
        /\ Demand(n, d) <= Rows[n].need * Cap /\ Rows[n].need * Cap \in Nat
    BY RowFacts DEF Pools
  <2>2. s[n] * Cap \in Nat /\ t[n] * Cap \in Nat
    BY <2>1, CarryMore
  <2>3. CASE t[n] >= s[n]
    <3>1. s[n] * Cap <= t[n] * Cap
      BY <2>1, <2>3, CarryMore
    <3> QED
      BY <2>1, <2>2, <3>1 DEF Spilled, Larger
  <2>4. CASE t[n] >= Rows[n].need
    <3>1. Rows[n].need * Cap <= t[n] * Cap
      BY <2>1, <2>4, CarryMore
    <3> QED
      BY <2>1, <2>2, <3>1 DEF Spilled, Larger
  <2> QED
    BY <2>3, <2>4
<1> QED
  <2>1. Spilled(t, d) \in [Npas -> Nat] /\ Spilled(s, d) \in [Npas -> Nat]
        /\ Spill(t, d) = SumOf(Spilled(t, d)) /\ Spill(s, d) = SumOf(Spilled(s, d))
    BY SpillType
  <2>2. SumOf(Spilled(t, d)) <= SumOf(Spilled(s, d))
    BY <1>1, <2>1, SumMono, NpasFinite
  <2> QED
    BY <2>1, <2>2

\* What is refused on the records, by day.
Unserved(sizes) ==
    [d \in Days |-> Larger(0, Spill(sizes, d) - sizes["OVERFLOW"] * Cap)]

LEMMA SimulateType ==
    ASSUME DayTypeOK, NEW s \in [Pools -> Nat]
    PROVE  /\ Unserved(s) \in [Days -> Nat]
           /\ Simulate(s) = SumOf(Unserved(s)) /\ Simulate(s) \in Nat
<1>1. Unserved(s) \in [Days -> Nat]
  <2>1. ASSUME NEW d \in Days
        PROVE  Larger(0, Spill(s, d) - s["OVERFLOW"] * Cap) \in Nat
    BY SpillType DEF Larger
  <2> QED
    BY <2>1 DEF Unserved
<1>2. Simulate(s) = SumOf(Unserved(s))
  BY DEF Simulate, Unserved
<1>3. IsFiniteSet(Days)
  BY Capacities
<1> QED
  BY <1>1, <1>2, <1>3, SumType

LEMMA AllServed ==
    ASSUME DayTypeOK, NEW s \in [Pools -> Nat],
           \A d \in Days : Spill(s, d) <= s["OVERFLOW"] * Cap
    PROVE  Simulate(s) = 0
<1>1. \A d \in Days : Unserved(s)[d] = 0
  BY SpillType DEF Unserved, Larger
<1>2. IsFiniteSet(Days)
  BY Capacities
<1> QED
  BY <1>1, <1>2, SimulateType, SumZero

LEMMA FewerUnserved ==
    ASSUME DayTypeOK, NEW s \in [Pools -> Nat], NEW t \in [Pools -> Nat],
           t["OVERFLOW"] >= s["OVERFLOW"],
           \A n \in Npas : t[n] >= s[n] \/ t[n] >= Rows[n].need
    PROVE  Simulate(t) <= Simulate(s)
<1>1. ASSUME NEW d \in Days PROVE Unserved(t)[d] <= Unserved(s)[d]
  <2>1. Spill(t, d) <= Spill(s, d) /\ Spill(t, d) \in Nat /\ Spill(s, d) \in Nat
    BY SpillLess, SpillType
  <2>2. /\ s["OVERFLOW"] * Cap \in Nat /\ t["OVERFLOW"] * Cap \in Nat
        /\ s["OVERFLOW"] * Cap <= t["OVERFLOW"] * Cap
    BY CarryMore DEF Pools
  <2> QED
    BY <2>1, <2>2 DEF Unserved, Larger
<1>2. IsFiniteSet(Days)
  BY Capacities
<1> QED
  BY <1>1, <1>2, SimulateType, SumMono

\* What the overflow keeps carries what is left of every day.
LEMMA OverflowNeedCarries ==
    ASSUME DayTypeOK, NEW s \in [Pools -> Nat]
    PROVE  /\ OverflowNeed(s) \in Nat
           /\ \A d \in Days : Spill(s, d) <= OverflowNeed(s) * Cap
<1> DEFINE f == [d \in Days |-> Spill(s, d)]
           S == {f[d] : d \in Days}
           c == CeilDiv(Max(S), Cap)
<1>1. \A d \in Days : f[d] = Spill(s, d) /\ f[d] \in Nat
  BY SpillType
<1>2. IsFiniteSet(S)
  <2>1. IsFiniteSet(Days)
    BY Capacities
  <2> HIDE DEF f
  <2> QED
    BY <2>1, FiniteValues
<1>3. OverflowNeed(s) = Larger(OverflowMin, c)
  <2>1. S = {Spill(s, d) : d \in Days}
    OBVIOUS
  <2> QED
    BY <2>1 DEF OverflowNeed
<1> HIDE DEF f
<1>4. S # {} /\ S \subseteq Nat
  BY <1>1, DaysNat DEF Days
<1>5. Max(S) \in S /\ \A x \in S : x <= Max(S)
  <2> HIDE DEF S
  <2> QED
    BY <1>2, <1>4, MaxIsGreatest
<1>6. \A d \in Days : f[d] \in S
  OBVIOUS
<1> HIDE DEF S
<1>7. c \in Nat /\ Max(S) <= c * Cap /\ Max(S) \in Nat
  BY <1>4, <1>5, CapPositive, CeilDivUp
<1>8. OverflowNeed(s) \in Nat /\ c <= OverflowNeed(s)
  BY <1>3, <1>7, NeedsNat DEF Larger
<1>9. c * Cap \in Nat /\ OverflowNeed(s) * Cap \in Nat /\ c * Cap <= OverflowNeed(s) * Cap
  BY <1>7, <1>8, CarryMore
<1>10. ASSUME NEW d \in Days PROVE Spill(s, d) <= OverflowNeed(s) * Cap
  <2>1. Spill(s, d) \in Nat /\ Spill(s, d) <= Max(S)
    BY <1>1, <1>5, <1>6
  <2> QED
    BY <1>7, <1>9, <2>1
<1> QED
  BY <1>8, <1>10

\* The two moves: on paper, and with what the overflow can spare.
LEMMA PlanIsFree == ASSUME DayTypeOK PROVE MoveIsFree
<1> DEFINE D == Donors(Rows)
           R == Receivers(Rows)
           first == After(D, R)
           paper == OnPaper(Rows)
           spare == OverflowSpare(Rows)
           E == D \cup FromOverflow(spare)
           moved == After(E, R)
           bought == Purchased(Rows, moved)
<1>1. fleet \in [Pools -> Nat] /\ fleet["OVERFLOW"] \in Nat /\ "OVERFLOW" \in Pools
      /\ Npas \subseteq Pools
  BY FleetType DEF Pools
<1>2. Movable(D, R)
  <2>1. 0 \in Nat /\ 0 <= fleet["OVERFLOW"]
    BY <1>1
  <2> QED
    BY <2>1, PlanLines
<1>3. first \in [Pools -> Nat]
      /\ \A n \in Pools : (\A x \in D : x.pool # n) => first[n] >= fleet[n]
  <2> HIDE DEF D, R
  <2> QED
    BY <1>2, AfterKeeps
<1>4. paper \in [Pools -> Nat]
      /\ \A n \in Pools : (\A x \in D : x.pool # n) => paper[n] = first[n]
  <2>1. paper = [n \in Pools |-> Larger(first[n], fleet[n])]
    BY DEF OnPaper
  <2> HIDE DEF D, R, first, paper
  <2> QED
    BY <1>1, <1>3, <2>1 DEF Larger
<1>5. /\ OverflowNeed(paper) \in Nat
      /\ \A d \in Days : Spill(paper, d) <= OverflowNeed(paper) * Cap
  <2> HIDE DEF paper
  <2> QED
    BY <1>4, OverflowNeedCarries
<1>6. /\ spare \in Nat /\ spare <= fleet["OVERFLOW"]
      /\ spare > 0 => fleet["OVERFLOW"] - spare = OverflowNeed(paper)
  <2>1. spare = Larger(0, fleet["OVERFLOW"] - OverflowNeed(paper))
    BY DEF OverflowSpare
  <2> HIDE DEF paper, spare
  <2> QED
    BY <1>1, <1>5, <2>1 DEF Larger
<1>7. /\ Movable(E, R) /\ D \subseteq E
      /\ \A x \in D, z \in E \ D : Sooner(x, z)
      /\ \A z \in E \ D : z.pool = "OVERFLOW" /\ z.amount = spare
  <2>1. /\ Movable(E, R)
        /\ \A x \in D, z \in FromOverflow(spare) : Sooner(x, z)
        /\ \A z \in FromOverflow(spare) : z.pool = "OVERFLOW" /\ z.amount = spare
    <3> HIDE DEF spare
    <3> QED
      BY <1>6, PlanLines
  <2> HIDE DEF D, R, spare
  <2> QED
    BY <2>1
<1>8. /\ moved \in [Pools -> Nat]
      /\ \A n \in Pools : (\A x \in E : x.pool # n) => moved[n] >= fleet[n]
      /\ \A x \in E : moved[x.pool] >= fleet[x.pool] - x.amount
      /\ FleetSize(moved) = FleetSize(fleet)
      /\ \A n \in Pools : (\A x \in E : x.pool # n) => moved[n] >= first[n]
  <2> HIDE DEF D, E, R
  <2> QED
    BY <1>2, <1>7, AfterKeeps, AfterConserves, AfterMore
<1>9. \A x \in D : /\ x.pool \in Npas /\ x.amount \in Nat
                   /\ fleet[x.pool] - x.amount >= Rows[x.pool].need + 2
  BY <1>2, DonorFacts DEF Movable, Line
<1>10. \A n \in Npas : Rows[n].need \in Nat
  BY RowFacts
<1>11. "OVERFLOW" \notin Npas
  BY NpasFinite
<1>12. Reallocated(Rows) = moved
  BY DEF Reallocated
<1> HIDE DEF D, E, R, first, paper, spare, moved
<1>13. ASSUME NEW n \in Npas
       PROVE  \/ \E x \in D : x.pool = n /\ moved[n] >= Rows[n].need + 2
              \/ moved[n] >= fleet[n] /\ moved[n] >= paper[n] /\ \A x \in D : x.pool # n
  <2>1. CASE \E x \in D : x.pool = n
    <3>1. PICK x \in D : x.pool = n
      BY <2>1
    <3>2. moved[n] >= fleet[n] - x.amount /\ fleet[n] - x.amount >= Rows[n].need + 2
      BY <1>7, <1>8, <1>9, <3>1
    <3>3. moved[n] \in Nat /\ fleet[n] \in Nat /\ x.amount \in Nat /\ Rows[n].need \in Nat
      BY <1>1, <1>8, <1>9, <1>10
    <3>4. moved[n] >= Rows[n].need + 2
      BY <3>2, <3>3
    <3> QED
      BY <3>1, <3>4
  <2>2. CASE \A x \in D : x.pool # n
    <3>1. \A x \in E : x.pool # n
      BY <1>7, <1>11, <2>2
    <3> QED
      BY <1>1, <1>4, <1>8, <2>2, <3>1
  <2> QED
    BY <2>1, <2>2
<1>14. \A n \in Npas : /\ moved[n] \in Nat /\ fleet[n] \in Nat /\ paper[n] \in Nat
                       /\ Rows[n].need \in Nat
  BY <1>1, <1>4, <1>8, <1>10
<1>15. \A n \in Npas : moved[n] < fleet[n] => moved[n] >= Rows[n].need + 2
  BY <1>13, <1>14
<1>16. \A n \in Npas : /\ moved[n] >= fleet[n] \/ moved[n] >= Rows[n].need
                       /\ moved[n] >= paper[n] \/ moved[n] >= Rows[n].need
  BY <1>13, <1>14
<1>17. Simulate(moved) <= Simulate(fleet)
  <2>1. CASE \A z \in E : z.pool # "OVERFLOW"
    <3>1. moved["OVERFLOW"] >= fleet["OVERFLOW"]
      BY <1>1, <1>8, <2>1
    <3> QED
      BY <1>1, <1>8, <1>16, <3>1, FewerUnserved
  <2>2. CASE \E z \in E : z.pool = "OVERFLOW"
    <3>1. PICK z \in E : z.pool = "OVERFLOW"
      BY <2>2
    <3>2. z \in E \ D /\ z.amount = spare
      BY <1>7, <1>9, <1>11, <3>1
    <3>3. moved["OVERFLOW"] >= fleet["OVERFLOW"] - spare
      BY <1>8, <3>1, <3>2
    <3>4. CASE spare = 0
      <4>1. moved["OVERFLOW"] >= fleet["OVERFLOW"]
        BY <1>1, <3>3, <3>4
      <4> QED
        BY <1>1, <1>8, <1>16, <4>1, FewerUnserved
    <3>5. CASE spare > 0
      <4>1. moved["OVERFLOW"] >= OverflowNeed(paper) /\ moved["OVERFLOW"] \in Nat
        BY <1>1, <1>6, <1>8, <3>3, <3>5
      <4>2. ASSUME NEW d \in Days PROVE Spill(moved, d) <= moved["OVERFLOW"] * Cap
        <5>1. Spill(moved, d) <= Spill(paper, d)
          BY <1>4, <1>8, <1>16, SpillLess
        <5>2. /\ OverflowNeed(paper) * Cap \in Nat /\ moved["OVERFLOW"] * Cap \in Nat
              /\ OverflowNeed(paper) * Cap <= moved["OVERFLOW"] * Cap
          BY <1>5, <4>1, CarryMore
        <5>3. Spill(moved, d) \in Nat /\ Spill(paper, d) \in Nat
          BY <1>4, <1>8, SpillType
        <5> QED
          BY <1>5, <5>1, <5>2, <5>3
      <4>3. Simulate(moved) = 0
        BY <1>8, <4>2, AllServed
      <4>4. Simulate(fleet) \in Nat
        BY <1>1, SimulateType
      <4> QED
        BY <4>3, <4>4
    <3> QED
      BY <1>6, <3>4, <3>5
  <2> QED
    BY <2>1, <2>2
<1>18. Simulate(bought) = 0
  <2>1. /\ bought \in [Pools -> Nat] /\ \A n \in Npas : bought[n] >= Rows[n].need
    <3>1. moved["OVERFLOW"] + Larger(0, OverflowMin - fleet["OVERFLOW"]) \in Nat
      BY <1>1, <1>8, NeedsNat DEF Larger
    <3>2. \A n \in Npas : /\ Larger(moved[n], Rows[n].need) \in Nat
                          /\ Larger(moved[n], Rows[n].need) >= Rows[n].need
      BY <1>14 DEF Larger
    <3>3. \A n \in Pools : n # "OVERFLOW" => n \in Npas
      BY DEF Pools
    <3> QED
      BY <1>1, <1>11, <3>1, <3>2, <3>3 DEF Purchased
  <2> HIDE DEF bought
  <2>2. ASSUME NEW d \in Days PROVE Spill(bought, d) <= bought["OVERFLOW"] * Cap
    <3>1. ASSUME NEW n \in Npas PROVE Spilled(bought, d)[n] = 0
      <4>1. /\ Demand(n, d) \in Nat /\ bought[n] \in Nat /\ Rows[n].need \in Nat
            /\ Demand(n, d) <= Rows[n].need * Cap
        BY <1>1, <2>1, RowFacts
      <4>2. /\ Rows[n].need * Cap \in Nat /\ bought[n] * Cap \in Nat
            /\ Rows[n].need * Cap <= bought[n] * Cap
        BY <2>1, <4>1, CarryMore
      <4> QED
        BY <4>1, <4>2 DEF Spilled, Larger
    <3>2. SumOf(Spilled(bought, d)) = 0
      BY <2>1, <3>1, SpillType, SumZero, NpasFinite
    <3> QED
      BY <2>1, <3>2, SpillType
  <2> QED
    BY <2>1, <2>2, AllServed
<1> QED
  BY <1>8, <1>12, <1>15, <1>17, <1>18 DEF MoveIsFree

\* For any fleet, settings and calls, the move analyze-did-capacity.py plans
\* makes and loses no number, leaves every donor its need and two to spare,
\* and refuses no more of the calls it was planned from; with the purchase it
\* refuses none (analyze-did-capacity.py:287-388, 597-627).
THEOREM PlanIsSound == Spec => []PlanHolds
<1>1. DayInv => MoveIsFree
  BY PlanIsFree DEF DayInv
<1>2. Init => DayInv
  BY DayInvInit DEF Init
<1>3. Spec => []DayInv
  BY <1>2, DayInvStep, PTL DEF Spec
<1> QED
  BY <1>1, <1>3, ProjectionHolds, PTL DEF PlanHolds
=============================================================================
