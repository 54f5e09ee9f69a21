--------------------------- MODULE DidPoolProofs ---------------------------
(***************************************************************************)
(* Proofs about DidPool for every number of calls, every set of pools and  *)
(* every cap.                                                              *)
(***************************************************************************)
EXTENDS DidPool, FiniteSetTheorems, TLAPS

\* A call inside a walk has a non-empty ring and looks at a number of ours.
WalkShape ==
    \A c \in Calls :
        /\ pc[c] \in Walking \cup {"set_rotor"} => Pool[key[c]] # <<>>
        /\ pc[c] \in Walking => cand[c] \in DIDs

TypeInv == TypeOK /\ WalkShape

\* Whatever the rotor and the step, the candidate is a member of the ring.
LEMMA CandidateInPool ==
    ASSUME TypeOK, NEW c \in Calls, Pool[key[c]] # <<>>, NEW n \in Nat
    PROVE  Candidate(c, n) \in DIDs
<1> DEFINE ring == Pool[key[c]]
<1>1. ring \in Seq(DIDs) /\ ring # <<>>
  BY PoolType DEF TypeOK
<1>2. Len(ring) \in Nat /\ Len(ring) > 0
  BY <1>1
<1>3. rot[c] + n \in Nat
  BY DEF TypeOK
<1>4. ((rot[c] + n) % Len(ring)) + 1 \in 1 .. Len(ring)
  BY <1>2, <1>3
<1> QED
  BY <1>1, <1>4 DEF Candidate

LEMMA TypeInit == Init => TypeInv
  BY OverflowKey, DaysNat, Distinct
     DEF Init, TypeInv, TypeOK, WalkShape, PcStates, Settled, Walking, Days

LEMMA TypeStep == TypeInv /\ [Next]_vars => TypeInv'
<1> SUFFICES ASSUME TypeInv, [Next]_vars PROVE TypeInv'
  OBVIOUS
<1> USE DEF TypeInv, TypeOK, WalkShape, PcStates, Settled, Walking, walk, world, ghosts
<1>1. ASSUME NEW c \in Calls, Start(c) PROVE TypeInv'
  BY <1>1, DaysNat DEF Start, Goto, Npas, Days
<1>2. ASSUME NEW c \in Calls, ReadRotor(c) PROVE TypeInv'
  <2>1. CASE Pool[key[c]] = <<>>
    BY <1>2, <2>1 DEF ReadRotor, Goto
  <2>2. CASE Pool[key[c]] # <<>>
    <3>1. rotor[key[c]] + 1 \in Nat
      OBVIOUS
    <3> QED
      BY <1>2, <2>2, <3>1 DEF ReadRotor, Goto
  <2> QED
    BY <2>1, <2>2
<1>3. ASSUME NEW c \in Calls, SetRotor(c) PROVE TypeInv'
  <2>1. Candidate(c, 0) \in DIDs
    BY <1>3, CandidateInPool DEF SetRotor, Goto
  <2> QED
    BY <1>3, <2>1 DEF SetRotor, Goto
<1>4. ASSUME NEW c \in Calls, TryLock(c) PROVE TypeInv'
  <2>1. pc[c] = "trylock" /\ (pc' = [pc EXCEPT ![c] = "trylock"] \/ pc' = [pc EXCEPT ![c] = "read_count"])
    BY <1>4 DEF TryLock, Goto
  <2>2. lock' \in [DIDs -> Calls \cup {NoCall}]
    BY <1>4 DEF TryLock
  <2>3. tries' \in [Calls -> Nat]
    <3>1. tries \in [Calls -> Nat] /\ tries[c] + 1 \in Nat
      OBVIOUS
    <3>2. tries' = tries \/ tries' = [tries EXCEPT ![c] = tries[c] + 1]
      BY <1>4 DEF TryLock
    <3> QED
      BY <3>1, <3>2
  <2>4. TypeOK'
    BY <1>4, <2>1, <2>2, <2>3 DEF TryLock
  <2>5. WalkShape'
    BY <1>4, <2>1 DEF TryLock
  <2> QED
    BY <2>4, <2>5
<1>5. ASSUME NEW c \in Calls, ReadCount(c) PROVE TypeInv'
  BY <1>5 DEF ReadCount, Goto
<1>6. ASSUME NEW c \in Calls, WriteCount(c) PROVE TypeInv'
  BY <1>6 DEF WriteCount, Goto
<1>7. ASSUME NEW c \in Calls, Release(c) PROVE TypeInv'
  BY <1>7 DEF Release, Unlock, Goto
<1>8. ASSUME NEW c \in Calls, Capped(c) PROVE TypeInv'
  <2>1. Candidate(c, i[c] + 1) \in DIDs
    BY <1>8, CandidateInPool DEF Capped, Goto
  <2>2. pc[c] = "capped" /\ (pc' = [pc EXCEPT ![c] = "return"] \/ pc' = [pc EXCEPT ![c] = "trylock"])
    BY <1>8 DEF Capped, Goto
  <2>3. cand' = cand \/ cand' = [cand EXCEPT ![c] = Candidate(c, i[c] + 1)]
    BY <1>8 DEF Capped
  <2>4. lock' \in [DIDs -> Calls \cup {NoCall}]
    BY <1>8 DEF Capped, Unlock
  <2>5. i' \in [Calls -> Nat] /\ tries' \in [Calls -> Nat]
    BY <1>8 DEF Capped
  <2>6. TypeOK'
    BY <1>8, <2>1, <2>2, <2>3, <2>4, <2>5 DEF Capped
  <2>7. WalkShape'
    BY <1>8, <2>1, <2>2, <2>3 DEF Capped
  <2> QED
    BY <2>6, <2>7
<1>9. ASSUME NEW c \in Calls, Return(c) PROVE TypeInv'
  BY <1>9, OverflowKey DEF Return, Goto
<1>10. ASSUME NEW c \in Calls, Hangup(c) PROVE TypeInv'
  BY <1>10 DEF Hangup
<1>11. ASSUME NEW c \in Calls, Teardown(c) PROVE TypeInv'
  BY <1>11 DEF Teardown, Goto
<1>12. CASE Restart
  BY <1>12 DEF Restart, Live
<1>13. CASE Midnight
  BY <1>13, DaysNat DEF Midnight, Days
<1>14. ASSUME NEW x \in DIDs, NEW n \in OperatorValues, OperatorSet(x, n) PROVE TypeInv'
  BY <1>14, OperatorNat DEF OperatorSet
<1>15. CASE OperatorResetAll
  BY <1>15 DEF OperatorResetAll
<1>16. CASE Prune
  BY <1>16 DEF Prune
<1>17. CASE UNCHANGED vars
  BY <1>17 DEF vars
<1> QED
  BY <1>1, <1>2, <1>3, <1>4, <1>5, <1>6, <1>7, <1>8, <1>9, <1>10, <1>11,
     <1>12, <1>13, <1>14, <1>15, <1>16, <1>17 DEF Next, Run, Operator

\* Every variable of the pick keeps its type, for any pools and any number
\* of calls.
THEOREM TypeCorrect == Spec => []TypeOK
<1>1. TypeInv => TypeOK
  BY DEF TypeInv
<1> QED
  BY TypeInit, TypeStep, <1>1, PTL DEF Spec

-----------------------------------------------------------------------------
(***************************************************************************)
(* The ledger.  CapOvershoot and CountersExact are not inductive: they say *)
(* nothing of a call that has read a counter and not yet written it.  The  *)
(* strengthening adds what such a call knows (HeldFresh), that the stored  *)
(* counter of a day prune keeps is itself within the cap (KeptBudget), and *)
(* that a call writes only to such a day, once, before it settles.         *)
(***************************************************************************)

\* A live call's day is today or yesterday, which prune keeps.
OpenDays == \A c \in Calls : Live(c) => day[c] >= today - 1

\* A call that wrote its increment is past the walk and will not walk again.
ChargedPast ==
    \A c \in charged :
        /\ pc[c] \in {"unlock", "return", "picked", "hungup", "gone"}
        /\ pc[c] = "return" => did[c] # NoDid

CountBelowCap == \A c \in Calls : pc[c] = "write_count" => used[c] < Cap

KeptBudget ==
    \A d \in Days, x \in DIDs : Untouched(d, x) /\ Kept(d) =>
        /\ db[d][x] <= Cap
        /\ Cardinality(Taken(d, x)) <= db[d][x] + Cap * Cardinality(Blind(d, x))

\* The call is about to write a counter whose lock it holds.
Held(c) == pc[c] = "write_count" /\ lock[cand[c]] = c

\* What it read is as good as what is stored.
Fresh(c) ==
    /\ Cardinality(Taken(day[c], cand[c]))
         <= used[c] + Cap * Cardinality(Blind(day[c], cand[c]))
    /\ Blind(day[c], cand[c]) = {}
         => used[c] = Cardinality(Taken(day[c], cand[c]))

HeldFresh ==
    \A c \in Calls : Held(c) /\ Untouched(day[c], cand[c]) => Fresh(c)

LedgerInv ==
    /\ OpenDays /\ ChargedPast /\ CountBelowCap
    /\ CapOvershoot /\ CountersExact /\ KeptBudget /\ HeldFresh

\* Sets of calls are finite, so their sizes are natural numbers.
LEMMA LedgerFinite ==
    ASSUME TypeOK, NEW d, NEW x
    PROVE  /\ IsFiniteSet(Taken(d, x)) /\ Cardinality(Taken(d, x)) \in Nat
           /\ IsFiniteSet(Blind(d, x)) /\ Cardinality(Blind(d, x)) \in Nat
<1>1. Taken(d, x) \subseteq Calls /\ Blind(d, x) \subseteq Calls
  BY DEF TypeOK, Taken, Blind
<1> QED
  BY <1>1, CallsFinite, FS_Subset, FS_CardinalityType

\* The day of a live call is one that prune keeps.
LEMMA LiveKept ==
    ASSUME TypeOK, OpenDays, NEW c \in Calls, Live(c)
    PROVE  Kept(day[c])
  BY DaysNat DEF TypeOK, OpenDays, Kept, Cutoff, Days

LEMMA LedgerInit == Init => LedgerInv
<1> SUFFICES ASSUME Init PROVE LedgerInv
  OBVIOUS
<1>1. \A d \in Days, x \in DIDs : Taken(d, x) = {} /\ Blind(d, x) = {} /\ db[d][x] = 0
  BY DEF Init, Taken, Blind
<1>2. \A d \in Days, x \in DIDs :
         /\ Cardinality(Taken(d, x)) = 0 /\ Cardinality(Blind(d, x)) = 0
         /\ Cap * Cardinality(Blind(d, x)) = 0
         /\ Cap * (1 + Cardinality(Blind(d, x))) = Cap
  BY <1>1, FS_EmptySet, CapPositive
<1>3. OpenDays /\ ChargedPast /\ CountBelowCap /\ HeldFresh
  BY DEF Init, OpenDays, ChargedPast, CountBelowCap, HeldFresh, Held, Live, Settled
<1>4. CapOvershoot /\ CountersExact /\ KeptBudget
  BY <1>1, <1>2, CapPositive DEF CapOvershoot, CountersExact, KeptBudget
<1> QED
  BY <1>3, <1>4 DEF LedgerInv

\* A step that neither charges a call nor writes a counter, and after which
\* no call newly holds a count to write, leaves the ledger right.
LEMMA QuietStep ==
    ASSUME TypeOK, TypeOK', LedgerInv, UNCHANGED <<db, ghosts>>, today' >= today,
           \A c \in charged : day'[c] = day[c] /\ cand'[c] = cand[c],
           \A c \in Calls : pc'[c] = "write_count" =>
               /\ pc[c] = "write_count" /\ day'[c] = day[c]
               /\ cand'[c] = cand[c] /\ used'[c] = used[c]
               /\ lock'[cand[c]] = c => lock[cand[c]] = c
    PROVE  CountBelowCap' /\ CapOvershoot' /\ CountersExact' /\ KeptBudget' /\ HeldFresh'
<1>1. \A d, x : Taken(d, x)' = Taken(d, x) /\ Blind(d, x)' = Blind(d, x)
  BY DEF TypeOK, Taken, Blind, ghosts
<1>2. \A d \in Days, x \in DIDs : Untouched(d, x)' = Untouched(d, x)
  BY DEF Untouched, ghosts
<1>3. \A d \in Days : Kept(d)' => Kept(d)
  <2>1. today \in Nat /\ today' \in Nat /\ KeepDays \in Nat /\ \A d \in Days : d \in Nat
    BY DaysNat DEF TypeOK, Days
  <2> QED
    BY <2>1 DEF Kept, Cutoff
<1>4. CountBelowCap'
  BY DEF LedgerInv, CountBelowCap
<1>5. CapOvershoot' /\ CountersExact' /\ KeptBudget'
  BY <1>1, <1>2, <1>3 DEF LedgerInv, CapOvershoot, CountersExact, KeptBudget, ghosts
<1>6. HeldFresh'
  <2>1. SUFFICES ASSUME NEW c \in Calls, Held(c)', Untouched(day[c], cand[c])'
        PROVE  Fresh(c)'
    BY DEF HeldFresh
  <2>2. Held(c) /\ day'[c] = day[c] /\ cand'[c] = cand[c] /\ used'[c] = used[c]
    BY <2>1 DEF Held
  <2>3. Fresh(c)
    BY <2>1, <2>2 DEF LedgerInv, HeldFresh, Untouched, ghosts
  <2>4. /\ Taken(day[c], cand[c])' = Taken(day[c], cand[c])
        /\ Blind(day[c], cand[c])' = Blind(day[c], cand[c])
    BY <1>1, <2>2 DEF Taken, Blind
  <2> QED
    BY <2>2, <2>3, <2>4 DEF Fresh
<1> QED
  BY <1>4, <1>5, <1>6

-----------------------------------------------------------------------------
(* The steps.                                                              *)

\* What is asked of a quiet step to keep the whole ledger.
Quiet ==
    /\ UNCHANGED <<db, ghosts>> /\ today' >= today
    /\ \A c \in charged : day'[c] = day[c] /\ cand'[c] = cand[c]
    /\ \A c \in Calls : pc'[c] = "write_count" =>
           /\ pc[c] = "write_count" /\ day'[c] = day[c]
           /\ cand'[c] = cand[c] /\ used'[c] = used[c]
           /\ lock'[cand[c]] = c => lock[cand[c]] = c
    /\ OpenDays' /\ ChargedPast'

LEMMA QuietKeepsLedger ==
    ASSUME TypeOK, TypeOK', LedgerInv, Quiet
    PROVE  LedgerInv'
<1>1. CountBelowCap' /\ CapOvershoot' /\ CountersExact' /\ KeptBudget' /\ HeldFresh'
  BY QuietStep DEF Quiet
<1> QED
  BY <1>1 DEF Quiet, LedgerInv

\* A step of one call k is quiet if k does not arrive at the write, keeps its
\* day open and, once charged, its day and its number.
LEMMA OneCallQuiet ==
    ASSUME TypeInv, LedgerInv, NEW k \in Calls, UNCHANGED <<db, ghosts, today>>,
           \A c \in Calls \ {k} :
               /\ pc'[c] = pc[c] /\ day'[c] = day[c] /\ cand'[c] = cand[c]
               /\ used'[c] = used[c] /\ did'[c] = did[c]
               /\ \A x \in DIDs : lock'[x] = c => lock[x] = c,
           pc'[k] # "write_count",
           pc'[k] \in Settled \/ day'[k] >= today - 1,
           k \in charged =>
               /\ day'[k] = day[k] /\ cand'[k] = cand[k]
               /\ pc'[k] \in {"unlock", "return", "picked", "hungup", "gone"}
               /\ pc'[k] = "return" => did'[k] # NoDid
    PROVE  Quiet
<1>1. charged \subseteq Calls /\ charged' = charged /\ today' = today /\ today \in Nat
  BY DaysNat DEF TypeInv, TypeOK, ghosts, Days
<1>2. \A c \in Calls : pc[c] = "write_count" => cand[c] \in DIDs
  BY DEF TypeInv, WalkShape, Walking
<1>3. OpenDays'
  BY <1>1 DEF LedgerInv, OpenDays, Live
<1>4. ChargedPast'
  BY <1>1 DEF LedgerInv, ChargedPast
<1>5. \A c \in Calls : pc'[c] = "write_count" =>
         /\ pc[c] = "write_count" /\ day'[c] = day[c]
         /\ cand'[c] = cand[c] /\ used'[c] = used[c]
         /\ lock'[cand[c]] = c => lock[cand[c]] = c
  BY <1>2
<1>6. \A c \in charged : day'[c] = day[c] /\ cand'[c] = cand[c]
  BY <1>1
<1> QED
  BY <1>1, <1>3, <1>4, <1>5, <1>6 DEF Quiet

\* The dialplan steps of one call, the read and the write of the counter apart.
LEMMA CallStepsQuiet ==
    ASSUME TypeInv, LedgerInv, NEW k \in Calls,
           \/ Start(k) \/ ReadRotor(k) \/ SetRotor(k) \/ TryLock(k) \/ Release(k)
           \/ Capped(k) \/ Return(k) \/ Hangup(k) \/ Teardown(k)
    PROVE  Quiet
<1>0. /\ pc \in [Calls -> PcStates] /\ day \in [Calls -> Days] /\ did \in [Calls -> DIDs \cup {NoDid}]
      /\ cand \in [Calls -> DIDs \cup {NoDid}] /\ used \in [Calls -> Nat]
      /\ lock \in [DIDs -> Calls \cup {NoCall}]
      /\ charged \in SUBSET Calls /\ today \in Nat /\ today >= today - 1
  BY DaysNat DEF TypeInv, TypeOK, Days
<1>a. pc[k] \in Settled \/ day[k] >= today - 1
  BY DEF LedgerInv, OpenDays, Live
<1>b. k \in charged =>
        /\ pc[k] \in {"unlock", "return", "picked", "hungup", "gone"}
        /\ pc[k] = "return" => did[k] # NoDid
  BY DEF LedgerInv, ChargedPast
<1>c. pc[k] \in Walking => cand[k] \in DIDs
  BY DEF TypeInv, WalkShape
<1>1. CASE Start(k)
  <2>1. pc[k] = "new" /\ pc' = [pc EXCEPT ![k] = "read_rotor"]
    BY <1>1 DEF Start, Goto
  <2>2. UNCHANGED <<db, ghosts, today>>
    BY <1>1 DEF Start, Goto, world, ghosts
  <2>3. \A c \in Calls \ {k} :
           /\ pc'[c] = pc[c] /\ day'[c] = day[c] /\ cand'[c] = cand[c]
           /\ used'[c] = used[c] /\ did'[c] = did[c]
           /\ \A x \in DIDs : lock'[x] = c => lock[x] = c
    BY <1>0, <1>1, <2>1 DEF Start, Goto, walk, world
  <2>4. day'[k] = today
    BY <1>0, <1>1 DEF Start, Goto
  <2> QED
    BY <1>0, <1>a, <1>b, <2>1, <2>2, <2>3, <2>4, OneCallQuiet DEF Settled
<1>2. CASE ReadRotor(k)
  <2>1. pc[k] = "read_rotor" /\ (pc' = [pc EXCEPT ![k] = "return"] \/ pc' = [pc EXCEPT ![k] = "set_rotor"])
    BY <1>2 DEF ReadRotor, Goto
  <2>2. UNCHANGED <<db, ghosts, today>>
    BY <1>2 DEF ReadRotor, Goto, world, ghosts
  <2>3. \A c \in Calls \ {k} :
           /\ pc'[c] = pc[c] /\ day'[c] = day[c] /\ cand'[c] = cand[c]
           /\ used'[c] = used[c] /\ did'[c] = did[c]
           /\ \A x \in DIDs : lock'[x] = c => lock[x] = c
    BY <1>0, <1>2, <2>1 DEF ReadRotor, Goto, walk, world
  <2>4. day' = day /\ cand' = cand /\ did' = did
    BY <1>2 DEF ReadRotor, Goto, walk
  <2> QED
    BY <1>0, <1>a, <1>b, <2>1, <2>2, <2>3, <2>4, OneCallQuiet DEF Settled
<1>3. CASE SetRotor(k)
  <2>1. pc[k] = "set_rotor" /\ pc' = [pc EXCEPT ![k] = "trylock"]
    BY <1>3 DEF SetRotor, Goto
  <2>2. UNCHANGED <<db, ghosts, today>>
    BY <1>3 DEF SetRotor, Goto, world, ghosts
  <2>3. \A c \in Calls \ {k} :
           /\ pc'[c] = pc[c] /\ day'[c] = day[c] /\ cand'[c] = cand[c]
           /\ used'[c] = used[c] /\ did'[c] = did[c]
           /\ \A x \in DIDs : lock'[x] = c => lock[x] = c
    BY <1>0, <1>3, <2>1 DEF SetRotor, Goto, walk, world
  <2>4. day' = day
    BY <1>3 DEF SetRotor, Goto
  <2> QED
    BY <1>0, <1>a, <1>b, <2>1, <2>2, <2>3, <2>4, OneCallQuiet DEF Settled
<1>4. CASE TryLock(k)
  <2>1. pc[k] = "trylock" /\ (pc' = [pc EXCEPT ![k] = "trylock"] \/ pc' = [pc EXCEPT ![k] = "read_count"])
    BY <1>4 DEF TryLock, Goto
  <2>2. UNCHANGED <<db, ghosts, today>>
    BY <1>4 DEF TryLock, Goto, world, ghosts
  <2>3. \A c \in Calls \ {k} :
           /\ pc'[c] = pc[c] /\ day'[c] = day[c] /\ cand'[c] = cand[c]
           /\ used'[c] = used[c] /\ did'[c] = did[c]
           /\ \A x \in DIDs : lock'[x] = c => lock[x] = c
    BY <1>0, <1>4, <2>1 DEF TryLock, Goto, walk, world
  <2>4. day' = day /\ cand' = cand /\ did' = did
    BY <1>4 DEF TryLock, Goto, walk
  <2> QED
    BY <1>0, <1>a, <1>b, <2>1, <2>2, <2>3, <2>4, OneCallQuiet DEF Settled
<1>5. CASE Release(k)
  <2>1. pc[k] = "unlock" /\ pc' = [pc EXCEPT ![k] = "return"]
    BY <1>5 DEF Release, Unlock, Goto
  <2>2. UNCHANGED <<db, ghosts, today>>
    BY <1>5 DEF Release, Unlock, Goto, world, ghosts
  <2>3. \A c \in Calls \ {k} :
           /\ pc'[c] = pc[c] /\ day'[c] = day[c] /\ cand'[c] = cand[c]
           /\ used'[c] = used[c] /\ did'[c] = did[c]
           /\ \A x \in DIDs : lock'[x] = c => lock[x] = c
    BY <1>0, <1>5, <2>1, Distinct DEF Release, Unlock, Goto, walk, world
  <2>4. day' = day /\ cand' = cand /\ did'[k] # NoDid
    BY <1>0, <1>c, <1>5, <2>1, Distinct DEF Release, Unlock, Goto, Walking
  <2> QED
    BY <1>0, <1>a, <1>b, <2>1, <2>2, <2>3, <2>4, OneCallQuiet DEF Settled
<1>6. CASE Capped(k)
  <2>1. pc[k] = "capped" /\ (pc' = [pc EXCEPT ![k] = "return"] \/ pc' = [pc EXCEPT ![k] = "trylock"])
    BY <1>6 DEF Capped, Unlock, Goto
  <2>2. UNCHANGED <<db, ghosts, today>>
    BY <1>6 DEF Capped, Unlock, Goto, world, ghosts
  <2>3. \A c \in Calls \ {k} :
           /\ pc'[c] = pc[c] /\ day'[c] = day[c] /\ cand'[c] = cand[c]
           /\ used'[c] = used[c] /\ did'[c] = did[c]
           /\ \A x \in DIDs : lock'[x] = c => lock[x] = c
    BY <1>0, <1>6, <2>1, Distinct DEF Capped, Unlock, Goto, walk, world
  <2>4. day' = day
    BY <1>6 DEF Capped, Unlock, Goto
  <2> QED
    BY <1>0, <1>a, <1>b, <2>1, <2>2, <2>3, <2>4, OneCallQuiet DEF Settled
<1>7. CASE Return(k)
  <2>1. pc[k] = "return" /\ (pc' = [pc EXCEPT ![k] = "picked"] \/ pc' = [pc EXCEPT ![k] = "rejected"] \/ pc' = [pc EXCEPT ![k] = "read_rotor"])
    BY <1>7 DEF Return, Goto
  <2>2. UNCHANGED <<db, ghosts, today>>
    BY <1>7 DEF Return, Goto, world, ghosts
  <2>3. \A c \in Calls \ {k} :
           /\ pc'[c] = pc[c] /\ day'[c] = day[c] /\ cand'[c] = cand[c]
           /\ used'[c] = used[c] /\ did'[c] = did[c]
           /\ \A x \in DIDs : lock'[x] = c => lock[x] = c
    BY <1>0, <1>7, <2>1 DEF Return, Goto, walk, world
  <2>4. day' = day /\ cand' = cand /\ (did[k] # NoDid => pc'[k] = "picked")
    BY <1>0, <1>7 DEF Return, Goto
  <2> QED
    BY <1>0, <1>a, <1>b, <2>1, <2>2, <2>3, <2>4, OneCallQuiet DEF Settled
<1>8. CASE Hangup(k)
  <2>1. pc' = [pc EXCEPT ![k] = "hungup"]
    BY <1>8 DEF Hangup
  <2>2. UNCHANGED <<db, ghosts, today>>
    BY <1>8 DEF Hangup, world, ghosts
  <2>3. \A c \in Calls \ {k} :
           /\ pc'[c] = pc[c] /\ day'[c] = day[c] /\ cand'[c] = cand[c]
           /\ used'[c] = used[c] /\ did'[c] = did[c]
           /\ \A x \in DIDs : lock'[x] = c => lock[x] = c
    BY <1>0, <1>8, <2>1 DEF Hangup, walk, world
  <2>4. day' = day /\ cand' = cand /\ did' = did
    BY <1>8 DEF Hangup, walk
  <2> QED
    BY <1>0, <1>a, <1>b, <1>8, <2>1, <2>2, <2>3, <2>4, OneCallQuiet DEF Hangup, Settled, Live
<1>9. CASE Teardown(k)
  <2>1. pc[k] = "hungup" /\ pc' = [pc EXCEPT ![k] = "gone"]
    BY <1>9 DEF Teardown, Goto
  <2>2. UNCHANGED <<db, ghosts, today>>
    BY <1>9 DEF Teardown, Goto, world, ghosts
  <2>3. \A c \in Calls \ {k} :
           /\ pc'[c] = pc[c] /\ day'[c] = day[c] /\ cand'[c] = cand[c]
           /\ used'[c] = used[c] /\ did'[c] = did[c]
           /\ \A x \in DIDs : lock'[x] = c => lock[x] = c
    BY <1>0, <1>9, <2>1, Distinct DEF Teardown, Goto, walk, world
  <2>4. day' = day /\ cand' = cand /\ did' = did
    BY <1>9 DEF Teardown, Goto, walk
  <2> QED
    BY <1>0, <1>a, <1>b, <2>1, <2>2, <2>3, <2>4, OneCallQuiet DEF Settled
<1> QED
  BY <1>1, <1>2, <1>3, <1>4, <1>5, <1>6, <1>7, <1>8, <1>9

\* Reading: a call that goes on to write under its lock has read the stored
\* counter, which KeptBudget and CountersExact speak of.
LEMMA ReadStep ==
    ASSUME TypeInv, TypeInv', LedgerInv, NEW k \in Calls, ReadCount(k)
    PROVE  LedgerInv'
<1>0. /\ pc \in [Calls -> PcStates] /\ used \in [Calls -> Nat] /\ day[k] \in Days
      /\ charged \in SUBSET Calls /\ db[day[k]][cand[k]] \in Nat /\ cand[k] \in DIDs
  BY DEF TypeInv, TypeOK, WalkShape, Walking, ReadCount
<1>1. /\ pc[k] = "read_count" /\ UNCHANGED <<db, ghosts, today, day, cand, did, lock>>
      /\ pc' \in [Calls -> PcStates] /\ \A c \in Calls \ {k} : pc'[c] = pc[c] /\ used'[c] = used[c]
      /\ used'[k] = db[day[k]][cand[k]]
      /\ pc'[k] \in {"capped", "write_count"} /\ (pc'[k] = "write_count" => ~(used'[k] >= Cap))
  BY <1>0 DEF ReadCount, Goto, world, ghosts, TypeInv, TypeOK
<1>2. k \notin charged
  BY <1>1 DEF LedgerInv, ChargedPast
<1>3. OpenDays' /\ ChargedPast'
  BY <1>0, <1>1, <1>2 DEF LedgerInv, OpenDays, ChargedPast, Live, Settled, ghosts
<1>4. CountBelowCap'
  BY <1>0, <1>1, CapPositive DEF LedgerInv, CountBelowCap
<1>5. \A d, x : Taken(d, x)' = Taken(d, x) /\ Blind(d, x)' = Blind(d, x)
  BY <1>1 DEF Taken, Blind, ghosts
<1>6. CapOvershoot' /\ CountersExact' /\ KeptBudget'
  BY <1>1, <1>5 DEF LedgerInv, CapOvershoot, CountersExact, KeptBudget, Untouched, Kept, Cutoff, ghosts
<1>7. HeldFresh'
  <2>1. SUFFICES ASSUME NEW c \in Calls, Held(c)', Untouched(day[c], cand[c])'
        PROVE  Fresh(c)'
    BY DEF HeldFresh
  <2>2. /\ Taken(day[c], cand[c])' = Taken(day[c], cand[c])
        /\ Blind(day[c], cand[c])' = Blind(day[c], cand[c])
    BY <1>1 DEF Taken, Blind, ghosts
  <2>3. Untouched(day[c], cand[c])
    BY <1>1, <2>1 DEF Untouched, ghosts
  <2>4. CASE c # k
    <3>1. Held(c) /\ used'[c] = used[c]
      BY <1>1, <2>1, <2>4 DEF Held
    <3>2. Fresh(c)
      BY <2>3, <3>1 DEF LedgerInv, HeldFresh
    <3> QED
      BY <2>2, <3>1, <3>2 DEF Fresh
  <2>5. CASE c = k
    <3>1. Kept(day[k])
      BY <1>1, LiveKept DEF LedgerInv, TypeInv, Live, Settled
    <3>2. /\ Cardinality(Taken(day[k], cand[k]))
               <= db[day[k]][cand[k]] + Cap * Cardinality(Blind(day[k], cand[k]))
          /\ Blind(day[k], cand[k]) = {}
               => db[day[k]][cand[k]] = Cardinality(Taken(day[k], cand[k]))
      BY <1>0, <2>3, <2>5, <3>1 DEF LedgerInv, KeptBudget, CountersExact
    <3> QED
      BY <1>1, <2>2, <2>5, <3>2 DEF Fresh
  <2> QED
    BY <2>4, <2>5
<1> QED
  BY <1>3, <1>4, <1>6, <1>7 DEF LedgerInv

\* Writing: the call joins the takers of its number.  Under the lock the
\* counter grows with them; without it the counter may fall, by less than a
\* cap, and the pick is one of the blind ones.
LEMMA WriteStep ==
    ASSUME TypeInv, TypeInv', LedgerInv, NEW k \in Calls, WriteCount(k)
    PROVE  LedgerInv'
<1> DEFINE d0 == day[k]
           x0 == cand[k]
           T  == Cardinality(Taken(d0, x0))
           B  == Cardinality(Blind(d0, x0))
<1>0. /\ pc \in [Calls -> PcStates] /\ used \in [Calls -> Nat] /\ d0 \in Days /\ x0 \in DIDs
      /\ charged \in SUBSET Calls /\ blind \in SUBSET charged /\ Cap \in Nat /\ Cap > 0
      /\ used[k] \in Nat
  BY CapPositive DEF TypeInv, TypeOK, WalkShape, Walking, WriteCount, Goto
<1>1. /\ pc[k] = "write_count" /\ pc' = [pc EXCEPT ![k] = "unlock"]
      /\ UNCHANGED <<today, day, cand, did, used, lock, operator>>
      /\ charged' = charged \cup {k}
      /\ blind' = IF lock[x0] = k THEN blind ELSE blind \cup {k}
  BY DEF WriteCount, Goto, walk
<1>2. k \notin charged /\ k \notin blind /\ used[k] < Cap
  BY <1>0, <1>1 DEF LedgerInv, ChargedPast, CountBelowCap
<1>3. /\ db'[d0][x0] = used[k] + 1
      /\ \A d \in Days, x \in DIDs : <<d, x>> # <<d0, x0>> => db'[d][x] = db[d][x]
  <2>1. db \in [Days -> [DIDs -> Nat]]
    BY DEF TypeInv, TypeOK
  <2> QED
    BY <1>0, <2>1 DEF WriteCount
<1>4. \A d, x : <<d, x>> # <<d0, x0>>
                  => Taken(d, x)' = Taken(d, x) /\ Blind(d, x)' = Blind(d, x)
  BY <1>1 DEF Taken, Blind
<1>5. /\ Taken(d0, x0)' = Taken(d0, x0) \cup {k} /\ k \notin Taken(d0, x0)
      /\ IF lock[x0] = k THEN Blind(d0, x0)' = Blind(d0, x0)
                         ELSE Blind(d0, x0)' = Blind(d0, x0) \cup {k} /\ k \notin Blind(d0, x0)
  BY <1>1, <1>2 DEF Taken, Blind
<1>6. T \in Nat /\ B \in Nat /\ Cap * B \in Nat /\ Cap * (1 + B) = Cap + Cap * B
  BY <1>0, LedgerFinite DEF TypeInv
<1>7. Cardinality(Taken(d0, x0)') = T + 1
  BY <1>5, LedgerFinite, FS_AddElement DEF TypeInv
<1>8. /\ lock[x0] = k => Cardinality(Blind(d0, x0)') = B
      /\ lock[x0] # k => /\ Cardinality(Blind(d0, x0)') = B + 1
                         /\ Cap * Cardinality(Blind(d0, x0)') = Cap + Cap * B
                         /\ Cap * (1 + Cardinality(Blind(d0, x0)')) = Cap + (Cap + Cap * B)
                         /\ Blind(d0, x0)' # {}
  <2>1. lock[x0] # k => Cardinality(Blind(d0, x0)') = B + 1
    BY <1>5, LedgerFinite, FS_AddElement DEF TypeInv
  <2> QED
    BY <1>0, <1>5, <1>6, <2>1
<1>9. Kept(d0)
  BY <1>1, LiveKept DEF LedgerInv, TypeInv, Live, Settled
<1>10. Untouched(d0, x0) =>
         /\ db[d0][x0] <= Cap /\ T <= db[d0][x0] + Cap * B
         /\ lock[x0] = k => T <= used[k] + Cap * B /\ (Blind(d0, x0) = {} => used[k] = T)
  BY <1>0, <1>1, <1>9 DEF LedgerInv, KeptBudget, HeldFresh, Held, Fresh
<1>11. db[d0][x0] \in Nat
  BY <1>0 DEF TypeInv, TypeOK
<1>12. OpenDays' /\ ChargedPast' /\ CountBelowCap'
  BY <1>0, <1>1 DEF LedgerInv, OpenDays, ChargedPast, CountBelowCap, Live, Settled
<1>13. Untouched(d0, x0) =>
         /\ Cardinality(Taken(d0, x0)') <= db'[d0][x0] + Cap * Cardinality(Blind(d0, x0)')
         /\ db'[d0][x0] <= Cap
         /\ Cardinality(Taken(d0, x0)') <= Cap * (1 + Cardinality(Blind(d0, x0)'))
         /\ Blind(d0, x0)' = {} => db'[d0][x0] = Cardinality(Taken(d0, x0)')
  BY <1>0, <1>2, <1>3, <1>5, <1>6, <1>7, <1>8, <1>10, <1>11
<1>14. \A d, x : Untouched(d, x)' = Untouched(d, x) /\ Kept(d)' = Kept(d)
  BY <1>1 DEF Untouched, Kept, Cutoff
<1>15. CapOvershoot' /\ CountersExact' /\ KeptBudget'
  <2>1. ASSUME NEW d \in Days, NEW x \in DIDs, <<d, x>> # <<d0, x0>>, Untouched(d, x)
        PROVE  /\ Cardinality(Taken(d, x)') <= Cap * (1 + Cardinality(Blind(d, x)'))
               /\ Kept(d) =>
                    /\ Blind(d, x)' = {} => db'[d][x] = Cardinality(Taken(d, x)')
                    /\ db'[d][x] <= Cap
                    /\ Cardinality(Taken(d, x)') <= db'[d][x] + Cap * Cardinality(Blind(d, x)')
    BY <1>3, <1>4, <2>1 DEF LedgerInv, CapOvershoot, CountersExact, KeptBudget
  <2> QED
    <3>1. \A d \in Days, x \in DIDs :
            \/ <<d, x>> # <<d0, x0>>
            \/ /\ d = d0 /\ x = x0
               /\ Taken(d, x)' = Taken(d0, x0)' /\ Blind(d, x)' = Blind(d0, x0)'
      BY <1>1 DEF Taken, Blind
    <3>2. CapOvershoot'
      BY <1>13, <1>14, <2>1, <3>1 DEF CapOvershoot
    <3>3. CountersExact'
      BY <1>13, <1>14, <2>1, <3>1 DEF CountersExact
    <3>4. KeptBudget'
      BY <1>13, <1>14, <2>1, <3>1 DEF KeptBudget
    <3> QED
      BY <3>2, <3>3, <3>4
<1>16. HeldFresh'
  <2>1. SUFFICES ASSUME NEW c \in Calls, Held(c)', Untouched(day[c], cand[c])'
        PROVE  Fresh(c)'
    BY DEF HeldFresh
  <2>2. c # k /\ Held(c) /\ Untouched(day[c], cand[c])
    BY <1>0, <1>1, <2>1 DEF Held, Untouched
  <2>3. Fresh(c)
    BY <2>2 DEF LedgerInv, HeldFresh
  <2>4. CASE <<day[c], cand[c]>> # <<d0, x0>>
    <3>1. /\ Taken(day[c], cand[c])' = Taken(day[c], cand[c])
          /\ Blind(day[c], cand[c])' = Blind(day[c], cand[c])
      BY <1>1, <2>4 DEF Taken, Blind
    <3> QED
      BY <1>1, <2>3, <3>1 DEF Fresh
  <2>5. CASE <<day[c], cand[c]>> = <<d0, x0>>
    <3>1. lock[x0] # k
      BY <2>2, <2>5 DEF Held
    <3>2. T <= used[c] + Cap * B /\ used[c] \in Nat
      BY <1>0, <2>3, <2>5 DEF Fresh
    <3>3. /\ Taken(day[c], cand[c])' = Taken(d0, x0)'
          /\ Blind(day[c], cand[c])' = Blind(d0, x0)'
      BY <1>1, <2>5 DEF Taken, Blind
    <3> QED
      BY <1>0, <1>1, <1>6, <1>7, <1>8, <3>1, <3>2, <3>3 DEF Fresh
  <2> QED
    BY <2>4, <2>5
<1> QED
  BY <1>12, <1>15, <1>16 DEF LedgerInv

\* The rest of the world: a restart forgets the live calls, midnight makes
\* the kept days fewer, prune touches no kept day, and an operator's write
\* takes the counter out of what the ledger promises.
LEMMA WorldStep ==
    ASSUME TypeInv, TypeInv', LedgerInv,
           \/ Restart \/ Midnight \/ Operator \/ Prune \/ UNCHANGED vars
    PROVE  LedgerInv'
<1>0. /\ today \in Nat /\ KeepDays \in Nat /\ KeepDays > 0 /\ charged \in SUBSET Calls
      /\ pc \in [Calls -> PcStates] /\ day \in [Calls -> Nat] /\ \A d \in Days : d \in Nat
  BY DaysNat DEF TypeInv, TypeOK, Days
<1>1. CASE Restart
  <2>1. Quiet
    BY <1>0, <1>1 DEF Restart, Quiet, LedgerInv, OpenDays, ChargedPast, Live, Settled, walk, ghosts
  <2> QED
    BY <2>1, QuietKeepsLedger DEF TypeInv
<1>2. CASE Midnight
  <2>1. Quiet
    BY <1>0, <1>2 DEF Midnight, Quiet, LedgerInv, OpenDays, ChargedPast, Live, walk, ghosts
  <2> QED
    BY <2>1, QuietKeepsLedger DEF TypeInv
<1>3. CASE UNCHANGED vars
  <2>1. Quiet
    BY <1>0, <1>3 DEF vars, Quiet, LedgerInv, OpenDays, ChargedPast, Live, walk, world, ghosts
  <2> QED
    BY <2>1, QuietKeepsLedger DEF TypeInv
<1>4. ASSUME UNCHANGED <<walk, lock, today, charged, blind, pc>>,
             \A d \in Days, x \in DIDs : Untouched(d, x)' => Untouched(d, x),
             \A d \in Days, x \in DIDs : Untouched(d, x)' /\ Kept(d) => db'[d][x] = db[d][x]
      PROVE  LedgerInv'
  <2>1. \A d, x : Taken(d, x)' = Taken(d, x) /\ Blind(d, x)' = Blind(d, x) /\ Kept(d)' = Kept(d)
    BY <1>4 DEF Taken, Blind, Kept, Cutoff, walk
  <2>2. OpenDays' /\ ChargedPast' /\ CountBelowCap'
    BY <1>4 DEF LedgerInv, OpenDays, ChargedPast, CountBelowCap, Live, walk
  <2>3. CapOvershoot' /\ CountersExact' /\ KeptBudget'
    BY <1>4, <2>1 DEF LedgerInv, CapOvershoot, CountersExact, KeptBudget
  <2>4. HeldFresh'
    <3>1. SUFFICES ASSUME NEW c \in Calls, Held(c)', Untouched(day[c], cand[c])'
          PROVE  Fresh(c)'
      BY DEF HeldFresh
    <3>2. Held(c) /\ day'[c] = day[c] /\ cand'[c] = cand[c] /\ used'[c] = used[c]
      BY <1>4, <3>1 DEF Held, walk
    <3>3. day[c] \in Days /\ cand[c] \in DIDs
      BY <3>2 DEF Held, TypeInv, TypeOK, WalkShape, Walking
    <3>4. Untouched(day[c], cand[c])
      <4>1. Untouched(day[c], cand[c])' = (operator'[day[c]][cand[c]] = NoValue)
        BY <3>2 DEF Untouched
      <4> QED
        BY <1>4, <3>1, <3>3, <4>1 DEF Untouched
    <3>5. Fresh(c)
      BY <3>2, <3>4 DEF LedgerInv, HeldFresh
    <3>6. /\ Taken(day[c], cand[c])' = Taken(day[c], cand[c])
          /\ Blind(day[c], cand[c])' = Blind(day[c], cand[c])
      BY <1>4 DEF Taken, Blind, walk
    <3> QED
      BY <3>2, <3>5, <3>6 DEF Fresh
  <2> QED
    BY <2>2, <2>3, <2>4 DEF LedgerInv
<1>5. ASSUME NEW x \in DIDs, NEW n \in OperatorValues, OperatorSet(x, n) PROVE LedgerInv'
  <2>1. db \in [Days -> [DIDs -> Nat]] /\ operator \in [Days -> [DIDs -> Nat \cup {NoValue}]]
        /\ today \in Days /\ n # NoValue
    BY OperatorNat, Distinct DEF TypeInv, TypeOK
  <2> QED
    BY <1>4, <1>5, <2>1 DEF OperatorSet, Untouched, Kept, Cutoff
<1>6. CASE OperatorResetAll
  <2>1. db \in [Days -> [DIDs -> Nat]] /\ operator \in [Days -> [DIDs -> Nat \cup {NoValue}]]
        /\ today \in Days /\ 0 # NoValue
    BY Distinct DEF TypeInv, TypeOK
  <2> QED
    BY <1>4, <1>6, <2>1 DEF OperatorResetAll, Untouched, Kept, Cutoff
<1>7. CASE Prune
  <2>1. \A d \in Days, x \in DIDs : Untouched(d, x)' => Untouched(d, x)
    BY <1>7 DEF Prune, Untouched, ghosts
  <2>2. \A d \in Days, x \in DIDs : Kept(d) => db'[d][x] = db[d][x]
    BY <1>0, <1>7 DEF Prune, Kept, Cutoff
  <2> QED
    BY <1>4, <1>7, <2>1, <2>2 DEF Prune, ghosts
<1> QED
  BY <1>1, <1>2, <1>3, <1>5, <1>6, <1>7 DEF Operator

LEMMA LedgerStep == TypeInv /\ TypeInv' /\ LedgerInv /\ [Next]_vars => LedgerInv'
<1> SUFFICES ASSUME TypeInv, TypeInv', LedgerInv, [Next]_vars PROVE LedgerInv'
  OBVIOUS
<1>1. ASSUME NEW c \in Calls, Start(c) \/ Run(c) \/ Hangup(c) PROVE LedgerInv'
  BY <1>1, CallStepsQuiet, QuietKeepsLedger, ReadStep, WriteStep DEF Run, TypeInv
<1> QED
  BY <1>1, WorldStep DEF Next

LEMMA LedgerAlways == Spec => [](TypeInv /\ LedgerInv)
<1>1. Init => TypeInv /\ LedgerInv
  BY TypeInit, LedgerInit
<1>2. TypeInv /\ LedgerInv /\ [Next]_vars => TypeInv' /\ LedgerInv'
  BY TypeStep, LedgerStep
<1> QED
  BY <1>1, <1>2, PTL DEF Spec

\* The daily cap, with its one failure mode: a number no operator wrote
\* carries at most Cap calls a day, plus one more Cap for each pick that went
\* on unlocked.
THEOREM DailyCap == Spec => []CapOvershoot
<1>1. LedgerInv => CapOvershoot
  BY DEF LedgerInv
<1> QED
  BY LedgerAlways, <1>1, PTL

\* Without unlocked picks the stored counter is the number of calls carried.
THEOREM LedgerExact == Spec => []CountersExact
<1>1. LedgerInv => CountersExact
  BY DEF LedgerInv
<1> QED
  BY LedgerAlways, <1>1, PTL

-----------------------------------------------------------------------------
(* The locks.  OneLockAtATime is inductive beside the types.               *)

LEMMA LockStep == TypeInv /\ OneLockAtATime /\ [Next]_vars => OneLockAtATime'
<1> SUFFICES ASSUME TypeInv, OneLockAtATime, [Next]_vars PROVE OneLockAtATime'
  OBVIOUS
<1>0. /\ pc \in [Calls -> PcStates] /\ cand \in [Calls -> DIDs \cup {NoDid}]
      /\ lock \in [DIDs -> Calls \cup {NoCall}] /\ NoCall \notin Calls
      /\ \A c \in Calls : pc[c] \in Walking => cand[c] \in DIDs
  BY Distinct DEF TypeInv, TypeOK, WalkShape
<1> USE DEF OneLockAtATime, Walking
<1>1. ASSUME NEW c \in Calls, Start(c) \/ ReadRotor(c) \/ SetRotor(c) \/ Return(c) PROVE OneLockAtATime'
  <2>1. /\ lock' = lock /\ \A x \in DIDs : lock[x] # c
        /\ \A b \in Calls \ {c} : pc'[b] = pc[b] /\ cand'[b] = cand[b]
    BY <1>0, <1>1 DEF Start, ReadRotor, SetRotor, Return, Goto, world
  <2> QED
    BY <2>1
<1>2. ASSUME NEW c \in Calls, TryLock(c) PROVE OneLockAtATime'
  <2>1. CASE lock[cand[c]] = NoCall
    BY <1>0, <1>2, <2>1 DEF TryLock, Goto
  <2>2. CASE lock[cand[c]] # NoCall
    BY <1>0, <1>2, <2>2 DEF TryLock, Goto
  <2> QED
    BY <2>1, <2>2
<1>3. ASSUME NEW c \in Calls, ReadCount(c) \/ WriteCount(c) PROVE OneLockAtATime'
  BY <1>0, <1>3 DEF ReadCount, WriteCount, Goto, world, walk
<1>4. ASSUME NEW c \in Calls, Release(c) \/ Capped(c) PROVE OneLockAtATime'
  <2>1. /\ \A x \in DIDs : lock'[x] # c
        /\ \A x \in DIDs : lock'[x] = lock[x] \/ lock'[x] = NoCall
        /\ \A b \in Calls \ {c} : pc'[b] = pc[b] /\ cand'[b] = cand[b]
    BY <1>0, <1>4 DEF Release, Capped, Unlock, Goto
  <2> QED
    BY <1>0, <2>1
<1>5. ASSUME NEW c \in Calls, Hangup(c) PROVE OneLockAtATime'
  BY <1>0, <1>5 DEF Hangup, world, walk
<1>6. ASSUME NEW c \in Calls, Teardown(c) PROVE OneLockAtATime'
  <2>1. /\ \A x \in DIDs : lock'[x] # c
        /\ \A x \in DIDs : lock'[x] = lock[x] \/ lock'[x] = NoCall
        /\ \A b \in Calls \ {c} : pc'[b] = pc[b] /\ cand'[b] = cand[b]
    BY <1>0, <1>6 DEF Teardown, Goto, walk
  <2> QED
    BY <1>0, <2>1
<1>7. CASE Restart
  BY <1>0, <1>7 DEF Restart
<1>8. CASE Midnight \/ Operator \/ Prune \/ UNCHANGED vars
  BY <1>8 DEF Midnight, Operator, OperatorSet, OperatorResetAll, Prune, vars, world, walk
<1> QED
  BY <1>1, <1>2, <1>3, <1>4, <1>5, <1>6, <1>7, <1>8 DEF Next, Run

\* A channel holds at most the lock of the number it is looking at, so no
\* channel waits for a lock while holding one.
THEOREM NoHoldAndWait == Spec => []OneLockAtATime
<1>1. Init => OneLockAtATime
  BY Distinct DEF Init, OneLockAtATime
<1> QED
  BY TypeInit, TypeStep, LockStep, <1>1, PTL DEF Spec

-----------------------------------------------------------------------------
(***************************************************************************)
(* Refusals.  What a walk has found stays true while it goes on: a number  *)
(* that has carried its cap has carried it for the rest of the day.        *)
(***************************************************************************)

\* The days and numbers whose cap is used up, as far as the ledger can tell.
Spent ==
    {p \in Days \X DIDs :
        Untouched(p[1], p[2]) /\ Blind(p[1], p[2]) = {}
            => Cardinality(Taken(p[1], p[2])) >= Cap}

\* A walk has stepped over spent numbers only, a pool it returns from without a
\* number is spent, and the overflow pool is asked after the NPA's was.
Asking == Walking \cup {"read_rotor", "set_rotor", "return"}
Walked(c) ==
    /\ pc[c] = "set_rotor" => i[c] = 0
    /\ pc[c] \in Walking =>
          /\ cand[c] = Candidate(c, i[c]) /\ i[c] < Len(Pool[key[c]])
          /\ \A n \in 0 .. i[c] - 1 : <<day[c], Candidate(c, n)>> \in Spent
    /\ pc[c] = "capped" => <<day[c], cand[c]>> \in Spent
    /\ pc[c] = "return" /\ did[c] = NoDid =>
          \A x \in PoolMembers(key[c]) : <<day[c], x>> \in Spent
    /\ pc[c] \in Asking => key[c] \in {npa[c], Overflow}
    /\ pc[c] \in Asking /\ key[c] = Overflow =>
          \A x \in PoolMembers(npa[c]) : <<day[c], x>> \in Spent
    /\ pc[c] = "rejected" =>
          \A x \in PoolMembers(npa[c]) \cup PoolMembers(Overflow) : <<day[c], x>> \in Spent

WalkInv == \A c \in Calls : Walked(c)

\* q whole turns of a ring of size L and s steps more end at s.
LEMMA ModOfSum ==
    ASSUME NEW L \in Nat, L > 0, NEW q \in Nat, NEW s \in 0 .. L - 1
    PROVE  (q * L + s) % L = s
<1> DEFINE x == q * L + s
           a == x \div L
           r == x % L
<1>1. x \in Nat
  <2>1. q * L \in Nat
    OBVIOUS
  <2> QED
    BY <2>1
<1>2. a \in Nat /\ r \in 0 .. L - 1 /\ x = L * a + r
  <2> HIDE DEF x
  <2> QED
    BY <1>1
<1>3. L * a + r = L * q + s
  BY <1>2
<1> HIDE DEF a, r, x
<1>4. CASE a = q
  BY <1>2, <1>3, <1>4 DEF x, r
<1>5. ASSUME NEW d \in Nat, d > 0 PROVE L * d >= L
  BY <1>5
<1>6. CASE a < q
  <2>1. q - a \in Nat /\ q - a > 0 /\ L * q = L * a + L * (q - a)
    BY <1>2, <1>6
  <2>2. L * (q - a) >= L
    BY <1>5, <2>1
  <2>3. L * a \in Nat /\ L * (q - a) \in Nat
    BY <1>2, <2>1
  <2> QED
    BY <1>2, <1>3, <2>1, <2>2, <2>3
<1>7. CASE a > q
  <2>1. a - q \in Nat /\ a - q > 0 /\ L * a = L * q + L * (a - q)
    BY <1>2, <1>7
  <2>2. L * (a - q) >= L
    BY <1>5, <2>1
  <2>3. L * q \in Nat /\ L * (a - q) \in Nat
    BY <1>2, <2>1
  <2> QED
    BY <1>2, <1>3, <2>1, <2>2, <2>3
<1> QED
  BY <1>2, <1>4, <1>6, <1>7

\* The walk of a ring comes by every member of it.
LEMMA RingCovered ==
    ASSUME TypeOK, NEW c \in Calls, NEW x \in PoolMembers(key[c])
    PROVE  \E n \in 0 .. Len(Pool[key[c]]) - 1 : x = Candidate(c, n)
<1> DEFINE ring == Pool[key[c]]
           L == Len(ring)
<1>1. PICK m \in 1 .. L : x = ring[m]
  BY DEF PoolMembers
<1>2. L \in Nat /\ L > 0 /\ rot[c] \in Nat
  BY <1>1, PoolType DEF TypeOK
<1> DEFINE q == rot[c] \div L
           r == rot[c] % L
<1>3. q \in Nat /\ r \in 0 .. L - 1 /\ rot[c] = q * L + r
  <2> DEFINE R == rot[c]
  <2>1. L \in Nat /\ L > 0 /\ R \in Nat
    BY <1>2
  <2> HIDE DEF L, R
  <2>2. R \div L \in Nat /\ R % L \in 0 .. L - 1 /\ R = L * (R \div L) + (R % L)
    BY <2>1
  <2> QED
    BY <2>1, <2>2 DEF R
<1> HIDE DEF L, q, r
<1>4. CASE r <= m - 1
  <2>1. m - 1 - r \in 0 .. L - 1 /\ rot[c] + (m - 1 - r) = q * L + (m - 1) /\ m - 1 \in 0 .. L - 1
    BY <1>2, <1>3, <1>4
  <2>2. (rot[c] + (m - 1 - r)) % L = m - 1
    BY <1>2, <1>3, <2>1, ModOfSum
  <2> QED
    BY <1>1, <2>1, <2>2 DEF Candidate, L
<1>5. CASE r > m - 1
  <2> DEFINE n == L + m - 1 - r
  <2>1. /\ n \in 0 .. L - 1 /\ m - 1 \in 0 .. L - 1 /\ q + 1 \in Nat
        /\ rot[c] + n = (q + 1) * L + (m - 1)
    BY <1>2, <1>3, <1>5
  <2> HIDE DEF n
  <2>2. (rot[c] + n) % L = m - 1
    BY <1>2, <2>1, ModOfSum
  <2>3. Candidate(c, n) = ring[((rot[c] + n) % L) + 1]
    BY DEF Candidate, L
  <2>4. (m - 1) + 1 = m
    BY <1>1, <1>2
  <2>5. x = Candidate(c, n)
    BY <1>1, <2>2, <2>3, <2>4
  <2> QED
    BY <2>1, <2>5 DEF L
<1> QED
  BY <1>2, <1>3, <1>4, <1>5

\* Spent numbers stay spent: charged calls keep their day and their number, and
\* no operator's write is taken back.
LEMMA SpentStays == TypeInv /\ TypeInv' /\ LedgerInv /\ [Next]_vars => Spent \subseteq Spent'
<1> SUFFICES ASSUME TypeInv, TypeInv', LedgerInv, [Next]_vars,
                    NEW d \in Days, NEW x \in DIDs, <<d, x>> \in Spent
             PROVE  <<d, x>> \in Spent'
  BY DEF Spent
<1>1. ASSUME charged \subseteq charged', blind \subseteq blind',
             \A c \in charged : day'[c] = day[c] /\ cand'[c] = cand[c],
             Untouched(d, x)' => Untouched(d, x)
      PROVE  <<d, x>> \in Spent'
  <2>1. Taken(d, x) \subseteq Taken(d, x)' /\ Blind(d, x) \subseteq Blind(d, x)'
    BY <1>1 DEF Taken, Blind
  <2>2. IsFiniteSet(Taken(d, x)')
    <3>1. Taken(d, x)' \subseteq Calls
      BY DEF Taken, TypeInv, TypeOK
    <3> QED
      BY <3>1, CallsFinite, FS_Subset
  <2>3. /\ Cardinality(Taken(d, x)) <= Cardinality(Taken(d, x)')
        /\ Cardinality(Taken(d, x)) \in Nat /\ Cardinality(Taken(d, x)') \in Nat
    BY <2>1, <2>2, FS_Subset, FS_CardinalityType
  <2>4. Untouched(d, x) /\ Blind(d, x) = {} => Cardinality(Taken(d, x)) >= Cap
    BY DEF Spent
  <2>5. Untouched(d, x)' /\ Blind(d, x)' = {} => Cardinality(Taken(d, x)') >= Cap
    BY <1>1, <2>1, <2>3, <2>4, CapPositive
  <2> QED
    BY <2>5 DEF Spent
<1>2. ASSUME Quiet PROVE <<d, x>> \in Spent'
  BY <1>1, <1>2 DEF Quiet, ghosts, Untouched
<1>3. ASSUME NEW c \in Calls, ReadCount(c) \/ WriteCount(c) PROVE <<d, x>> \in Spent'
  BY <1>1, <1>3 DEF ReadCount, WriteCount, world, walk, ghosts, Untouched
<1>4. ASSUME NEW c \in Calls, Start(c) \/ Run(c) \/ Hangup(c) PROVE <<d, x>> \in Spent'
  BY <1>2, <1>3, <1>4, CallStepsQuiet DEF Run
<1>5. ASSUME UNCHANGED <<day, cand, charged, blind>>, Untouched(d, x)' => Untouched(d, x)
      PROVE  <<d, x>> \in Spent'
  BY <1>1, <1>5
<1>6. CASE Restart \/ Midnight \/ Prune \/ UNCHANGED vars
  BY <1>5, <1>6 DEF Restart, Midnight, Prune, vars, walk, ghosts, Untouched
<1>7. CASE Operator
  <2>1. operator \in [Days -> [DIDs -> Nat \cup {NoValue}]] /\ today \in Days
    BY DEF TypeInv, TypeOK
  <2>2. ASSUME NEW y \in DIDs, NEW n \in OperatorValues, OperatorSet(y, n)
        PROVE  Untouched(d, x)' => Untouched(d, x)
    BY <2>1, <2>2, OperatorNat, Distinct DEF OperatorSet, Untouched
  <2>3. ASSUME OperatorResetAll PROVE Untouched(d, x)' => Untouched(d, x)
    BY <2>1, <2>3, Distinct DEF OperatorResetAll, Untouched
  <2>4. UNCHANGED <<day, cand, charged, blind>>
    BY <1>7 DEF Operator, OperatorSet, OperatorResetAll, walk
  <2> QED
    BY <1>5, <1>7, <2>2, <2>3, <2>4 DEF Operator
<1> QED
  BY <1>4, <1>6, <1>7 DEF Next

\* Nothing a walk relies on is taken from it by other calls.
SameWalk(c) ==
    /\ day'[c] = day[c] /\ key'[c] = key[c] /\ npa'[c] = npa[c] /\ rot'[c] = rot[c]
    /\ i'[c] = i[c] /\ cand'[c] = cand[c] /\ did'[c] = did[c]

LEMMA OtherWalked ==
    ASSUME Spent \subseteq Spent', NEW c \in Calls, Walked(c), SameWalk(c),
           pc'[c] = pc[c] \/ pc'[c] \in {"hungup", "gone"}
    PROVE  Walked(c)'
<1>1. \A n \in Nat : Candidate(c, n)' = Candidate(c, n)
  BY DEF Candidate, SameWalk
<1>2. \A n \in 0 .. i[c] - 1 : n \in Nat
  OBVIOUS
<1>3. CASE pc'[c] \in {"hungup", "gone"}
  BY <1>3 DEF Walked, Asking, Walking
<1>4. CASE pc'[c] = pc[c]
  BY <1>4 DEF Walked, SameWalk, Candidate
<1> QED
  BY <1>3, <1>4

LEMMA WalkStep ==
    TypeInv /\ TypeInv' /\ LedgerInv /\ WalkInv /\ [Next]_vars => WalkInv'
<1> SUFFICES ASSUME TypeInv, TypeInv', LedgerInv, WalkInv, [Next]_vars PROVE WalkInv'
  OBVIOUS
<1>0. Spent \subseteq Spent'
  BY SpentStays
<1>a. /\ pc \in [Calls -> PcStates] /\ day \in [Calls -> Days] /\ key \in [Calls -> Keys]
      /\ npa \in [Calls -> Keys] /\ rot \in [Calls -> Nat] /\ i \in [Calls -> Nat]
      /\ cand \in [Calls -> DIDs \cup {NoDid}] /\ did \in [Calls -> DIDs \cup {NoDid}]
  BY DEF TypeInv, TypeOK
<1>1. ASSUME NEW k \in Calls, Walked(k)',
             \A c \in Calls \ {k} : SameWalk(c) /\ pc'[c] = pc[c]
      PROVE  WalkInv'
  BY <1>0, <1>1, OtherWalked DEF WalkInv
<1>2. ASSUME \A c \in Calls : SameWalk(c) /\ (pc'[c] = pc[c] \/ pc'[c] \in {"hungup", "gone"})
      PROVE  WalkInv'
  BY <1>0, <1>2, OtherWalked DEF WalkInv
<1> USE DEF Walking, Asking
<1>3. ASSUME NEW k \in Calls, Start(k) PROVE WalkInv'
  <2>1. \A c \in Calls \ {k} : SameWalk(c) /\ pc'[c] = pc[c]
    BY <1>a, <1>3 DEF Start, Goto, SameWalk
  <2>2. pc'[k] = "read_rotor" /\ key'[k] = npa'[k] /\ key'[k] # Overflow
    BY <1>a, <1>3 DEF Start, Goto, Npas
  <2> QED
    BY <1>1, <2>1, <2>2 DEF Walked
<1>4. ASSUME NEW k \in Calls, ReadRotor(k) PROVE WalkInv'
  <2>1. /\ pc[k] = "read_rotor" /\ UNCHANGED <<day, key, npa, cand, did>> /\ i'[k] = 0
        /\ \A c \in Calls \ {k} : SameWalk(c) /\ pc'[c] = pc[c]
        /\ \/ pc'[k] = "return" /\ Pool[key[k]] = <<>>
           \/ pc'[k] = "set_rotor"
    BY <1>a, <1>4 DEF ReadRotor, Goto, SameWalk
  <2>2. Pool[key[k]] = <<>> => PoolMembers(key[k]) = {}
    BY DEF PoolMembers
  <2>3. Walked(k)
    BY DEF WalkInv
  <2>4. Walked(k)'
    BY <1>0, <2>1, <2>2, <2>3 DEF Walked
  <2> QED
    BY <1>1, <2>1, <2>4
<1>5. ASSUME NEW k \in Calls, SetRotor(k) PROVE WalkInv'
  <2>1. /\ pc[k] = "set_rotor" /\ UNCHANGED <<day, key, npa, rot, i, did>>
        /\ cand'[k] = Candidate(k, 0) /\ pc'[k] = "trylock"
        /\ \A c \in Calls \ {k} : SameWalk(c) /\ pc'[c] = pc[c]
    BY <1>a, <1>5 DEF SetRotor, Goto, SameWalk
  <2>2. Walked(k) /\ Len(Pool[key[k]]) > 0
    BY <1>a, <2>1, PoolType DEF WalkInv, TypeInv, WalkShape
  <2>3. Walked(k)'
    BY <1>0, <2>1, <2>2 DEF Walked, Candidate
  <2> QED
    BY <1>1, <2>1, <2>3
<1>6. ASSUME NEW k \in Calls, TryLock(k) \/ ReadCount(k) \/ WriteCount(k) PROVE WalkInv'
  <2>1. /\ UNCHANGED <<day, key, npa, rot, i, cand, did>> /\ pc[k] \in Walking
        /\ pc'[k] \in {"trylock", "read_count", "write_count", "unlock", "capped"}
        /\ \A c \in Calls \ {k} : SameWalk(c) /\ pc'[c] = pc[c]
    BY <1>a, <1>6 DEF TryLock, ReadCount, WriteCount, Goto, SameWalk, walk
  <2>2. pc'[k] = "capped" => <<day[k], cand[k]>> \in Spent
    <3> SUFFICES ASSUME pc'[k] = "capped" PROVE <<day[k], cand[k]>> \in Spent
      OBVIOUS
    <3>1. pc[k] = "read_count" /\ db[day[k]][cand[k]] >= Cap
      BY <1>a, <1>6 DEF TryLock, ReadCount, WriteCount, Goto, TypeInv, TypeOK
    <3>2. Kept(day[k]) /\ day[k] \in Days /\ cand[k] \in DIDs
      BY <1>a, <3>1, LiveKept DEF LedgerInv, TypeInv, WalkShape, Live, Settled
    <3> QED
      BY <3>1, <3>2 DEF LedgerInv, CountersExact, Spent
  <2>3. Walked(k)
    BY DEF WalkInv
  <2>4. Walked(k)'
    BY <1>0, <2>1, <2>2, <2>3 DEF Walked, Candidate
  <2> QED
    BY <1>1, <2>1, <2>4
<1>7. ASSUME NEW k \in Calls, Release(k) PROVE WalkInv'
  <2>1. /\ pc[k] = "unlock" /\ UNCHANGED <<day, key, npa, cand>> /\ pc'[k] = "return"
        /\ did'[k] = cand[k]
        /\ \A c \in Calls \ {k} : SameWalk(c) /\ pc'[c] = pc[c]
    BY <1>a, <1>7 DEF Release, Goto, SameWalk
  <2>2. Walked(k) /\ did'[k] # NoDid
    BY <2>1, Distinct DEF WalkInv, TypeInv, WalkShape
  <2>3. Walked(k)'
    BY <1>0, <2>1, <2>2 DEF Walked
  <2> QED
    BY <1>1, <2>1, <2>3
<1>8. ASSUME NEW k \in Calls, Capped(k) PROVE WalkInv'
  <2> DEFINE L == Len(Pool[key[k]])
  <2>1. /\ pc[k] = "capped" /\ UNCHANGED <<day, key, npa, rot, did>> /\ i'[k] = i[k] + 1
        /\ \A c \in Calls \ {k} : SameWalk(c) /\ pc'[c] = pc[c]
        /\ i[k] + 1 >= L => pc'[k] = "return"
        /\ ~(i[k] + 1 >= L) => pc'[k] = "trylock" /\ cand'[k] = Candidate(k, i[k] + 1)
    BY <1>a, <1>8 DEF Capped, Goto, SameWalk
  <2>2. Walked(k) /\ L \in Nat /\ i[k] \in Nat
    BY <1>a, PoolType DEF WalkInv
  <2>3. \A n \in 0 .. i[k] : <<day[k], Candidate(k, n)>> \in Spent
    <3>1. \A n \in 0 .. i[k] : n \in 0 .. i[k] - 1 \/ n = i[k]
      BY <2>2
    <3> QED
      BY <2>1, <2>2, <3>1 DEF Walked
  <2>4. CASE i[k] + 1 >= L
    <3>1. \A x \in PoolMembers(key[k]) : <<day[k], x>> \in Spent
      <4> SUFFICES ASSUME NEW x \in PoolMembers(key[k]) PROVE <<day[k], x>> \in Spent
        OBVIOUS
      <4>1. PICK n \in 0 .. L - 1 : x = Candidate(k, n)
        BY RingCovered DEF TypeInv
      <4>2. n \in 0 .. i[k]
        BY <2>2, <2>4, <4>1
      <4> QED
        BY <2>3, <4>1, <4>2
    <3>2. Walked(k)'
      BY <1>0, <2>1, <2>2, <2>4, <3>1 DEF Walked
    <3> QED
      BY <1>1, <2>1, <3>2
  <2>5. CASE ~(i[k] + 1 >= L)
    <3>1. \A n \in 0 .. i'[k] - 1 : n \in 0 .. i[k]
      BY <2>1, <2>2
    <3>2. Walked(k)'
      BY <1>0, <2>1, <2>2, <2>3, <2>5, <3>1 DEF Walked, Candidate
    <3> QED
      BY <1>1, <2>1, <3>2
  <2> QED
    BY <2>4, <2>5
<1>9. ASSUME NEW k \in Calls, Return(k) PROVE WalkInv'
  <2>1. /\ pc[k] = "return" /\ UNCHANGED <<day, npa, did>>
        /\ \A c \in Calls \ {k} : SameWalk(c) /\ pc'[c] = pc[c]
        /\ \/ pc'[k] = "picked"
           \/ did[k] = NoDid /\ key'[k] = Overflow /\ key[k] = Overflow /\ pc'[k] = "rejected"
           \/ did[k] = NoDid /\ key'[k] = Overflow /\ key[k] # Overflow /\ pc'[k] = "read_rotor"
    BY <1>a, <1>9 DEF Return, Goto, SameWalk
  <2>2. Walked(k)
    BY DEF WalkInv
  <2>3. Walked(k)'
    BY <1>0, <2>1, <2>2 DEF Walked
  <2> QED
    BY <1>1, <2>1, <2>3
<1>10. ASSUME NEW k \in Calls, Hangup(k) \/ Teardown(k) PROVE WalkInv'
  BY <1>a, <1>2, <1>10 DEF Hangup, Teardown, Goto, SameWalk, walk
<1>11. CASE Restart \/ Midnight \/ Operator \/ Prune \/ UNCHANGED vars
  BY <1>a, <1>2, <1>11 DEF Restart, Midnight, Operator, OperatorSet, OperatorResetAll, Prune, vars,
     SameWalk, walk
<1> QED
  BY <1>3, <1>4, <1>5, <1>6, <1>7, <1>8, <1>9, <1>10, <1>11 DEF Next, Run

\* NO_DID_AVAILABLE means what it says: both pools have been walked from end to
\* end, and each of their numbers had carried its cap when the walk came by and
\* has carried it since (extensions.conf.tpl:654-660, 866-867).
THEOREM RefusalsAreExhaustion == Spec => []RejectedOnlyWhenExhausted
<1>1. Init => WalkInv
  BY DEF Init, WalkInv, Walked, Walking, Asking
<1>2. TypeInv /\ LedgerInv /\ WalkInv => RejectedOnlyWhenExhausted
  <2> SUFFICES ASSUME TypeInv, LedgerInv, WalkInv, NEW c \in Calls, pc[c] = "rejected",
                      NEW x \in PoolMembers(npa[c]) \cup PoolMembers(Overflow),
                      Untouched(day[c], x), Blind(day[c], x) = {}
               PROVE  Cardinality(Taken(day[c], x)) = Cap
    BY DEF RejectedOnlyWhenExhausted
  <2>1. day[c] \in Days /\ x \in DIDs /\ Cardinality(Taken(day[c], x)) >= Cap
    BY DEF WalkInv, Walked, Spent
  <2>2. Cardinality(Taken(day[c], x)) <= Cap * (1 + Cardinality(Blind(day[c], x)))
    BY <2>1 DEF LedgerInv, CapOvershoot
  <2>3. Cardinality(Blind(day[c], x)) = 0
    BY FS_EmptySet
  <2>4. Cardinality(Taken(day[c], x)) \in Nat
    BY LedgerFinite DEF TypeInv
  <2> QED
    BY <2>1, <2>2, <2>3, <2>4, CapPositive
<1> QED
  BY LedgerAlways, TypeStep, LedgerStep, WalkStep, <1>1, <1>2, PTL DEF Spec
-----------------------------------------------------------------------------
(***************************************************************************)
(* The book.  The walk implements DidBudget: what a number has been given  *)
(* is the ledger, and everything but the write of the counter, the return  *)
(* with nothing and the operator is out of sight.                          *)
(***************************************************************************)

\* The book counts as the ledger does.
LEMMA SameSize == ASSUME NEW S PROVE Book!Cardinality(S) = Cardinality(S)
  BY DEF Book!Cardinality, Cardinality

\* A step that neither charges a call nor refuses one, and leaves the days and
\* numbers of those charged, is none of the book's.
LEMMA OutOfSight ==
    ASSUME TypeOK, UNCHANGED ghosts,
           \A c \in charged : day'[c] = day[c] /\ cand'[c] = cand[c],
           \A c \in Calls : pc'[c] = "rejected" <=> pc[c] = "rejected"
    PROVE  UNCHANGED Book!vars
<1>1. \A d, x : Taken(d, x)' = Taken(d, x)
  BY DEF TypeOK, Taken, ghosts
<1>2. Entered' = Entered
  BY <1>1 DEF Entered
<1>3. \A d, x : Untouched(d, x)' = Untouched(d, x)
  BY DEF Untouched, ghosts
<1>4. Written' = Written
  BY <1>3 DEF Written
<1>5. Refused' = Refused
  BY DEF Refused
<1> QED
  BY <1>2, <1>4, <1>5 DEF Book!vars, ghosts

\* A call that was not charged and is under way waits for its entry.
LEMMA NotEntered ==
    ASSUME NEW c \in Calls, c \notin charged, pc[c] # "rejected"
    PROVE  Book!Waits(c)
<1>1. \A d \in Days, x \in DIDs : c \notin Entered[d][x]
  BY DEF Entered, Taken
<1>2. c \notin Refused
  BY DEF Refused
<1> QED
  BY <1>1, <1>2 DEF Book!Waits

\* The write of the counter is the entry.
LEMMA WriteIsTake ==
    ASSUME TypeInv, LedgerInv, NEW k \in Calls, WriteCount(k)
    PROVE  Book!Take(k, day[k], cand[k]) /\ day[k] \in Days /\ cand[k] \in DIDs
<1> DEFINE d0 == day[k]
           x0 == cand[k]
           T == Cardinality(Taken(d0, x0))
           B == Cardinality(Blind(d0, x0))
<1>0. /\ pc \in [Calls -> PcStates] /\ d0 \in Days /\ x0 \in DIDs /\ used[k] \in Nat
      /\ charged \in SUBSET Calls /\ blind \in SUBSET charged /\ Cap \in Nat
  BY CapPositive DEF TypeInv, TypeOK, WalkShape, Walking, WriteCount, Goto
<1>1. /\ pc[k] = "write_count" /\ pc' = [pc EXCEPT ![k] = "unlock"]
      /\ UNCHANGED <<day, cand, operator>>
      /\ charged' = charged \cup {k}
      /\ blind' = IF lock[x0] = k THEN blind ELSE blind \cup {k}
  BY DEF WriteCount, Goto, walk
<1>2. k \notin charged /\ used[k] < Cap
  BY <1>0, <1>1 DEF LedgerInv, ChargedPast, CountBelowCap
<1>3. Book!Waits(k)
  BY <1>1, <1>2, NotEntered
<1>4. \A d, x : Taken(d, x)' = IF d = d0 /\ x = x0 THEN Taken(d, x) \cup {k} ELSE Taken(d, x)
  <2>1. ASSUME NEW d, NEW x PROVE Taken(d, x)' = IF d = d0 /\ x = x0 THEN Taken(d, x) \cup {k} ELSE Taken(d, x)
    BY <1>1 DEF Taken
  <2> QED
    BY <2>1
<1>5. Entered' = [Entered EXCEPT ![d0] = [Entered[d0] EXCEPT ![x0] = Entered[d0][x0] \cup {k}]]
  BY <1>0, <1>4 DEF Entered
<1>6. Entered[d0][x0] = Taken(d0, x0) /\ Taken(d0, x0) \cap blind = Blind(d0, x0)
  BY <1>0 DEF Entered, Blind
<1>7. Refused' = Refused
  BY <1>0, <1>1 DEF Refused
<1>8. Written' = Written
  BY <1>1 DEF Written, Untouched
<1>9. \/ (<<d0, x0>> \in Written \/ T < Cap * (1 + B)) /\ blind' = blind
      \/ blind' = blind \cup {k}
  <2>1. CASE lock[x0] # k
    BY <1>1, <2>1
  <2>2. CASE lock[x0] = k /\ Untouched(d0, x0)
    <3>1. T <= used[k] + Cap * B
      BY <1>1, <2>2 DEF LedgerInv, HeldFresh, Held, Fresh
    <3>2. T \in Nat /\ B \in Nat
      BY LedgerFinite DEF TypeInv
    <3> HIDE DEF T, B
    <3>3. Cap * B \in Nat /\ Cap * (1 + B) = Cap + Cap * B
      BY <1>0, <3>2
    <3>4. T < Cap * (1 + B)
      BY <1>0, <1>2, <3>1, <3>2, <3>3
    <3> QED
      BY <1>1, <2>2, <3>4
  <2>3. CASE lock[x0] = k /\ ~Untouched(d0, x0)
    BY <1>0, <1>1, <2>3 DEF Written
  <2> QED
    BY <2>1, <2>2, <2>3
<1>10. Book!Budget(d0, x0) = Cap * (1 + B)
  BY <1>6, SameSize DEF Book!Budget
<1>11. Book!Cardinality(Entered[d0][x0]) = T
  BY <1>6, SameSize
<1> QED
  BY <1>0, <1>3, <1>5, <1>6, <1>7, <1>8, <1>9, <1>10, <1>11 DEF Book!Take

\* Of the returns with nothing the one from overflow is the refusal.
LEMMA ReturnIsRefuse ==
    ASSUME TypeInv, LedgerInv, RejectedOnlyWhenExhausted', NEW k \in Calls, Return(k)
    PROVE  Book!Refuse(k) \/ UNCHANGED Book!vars
<1>0. /\ pc \in [Calls -> PcStates] /\ day \in [Calls -> Days] /\ npa \in [Calls -> Keys]
      /\ charged \in SUBSET Calls
  BY DEF TypeInv, TypeOK
<1>1. /\ pc[k] = "return" /\ UNCHANGED <<day, cand, did, npa, charged, blind, operator>>
      /\ pc' = [pc EXCEPT ![k] = IF did[k] # NoDid THEN "picked"
                                 ELSE IF key[k] = Overflow THEN "rejected" ELSE "read_rotor"]
  BY DEF Return, Goto, ghosts
<1>2. CASE pc'[k] = "rejected"
  <2>1. did[k] = NoDid
    BY <1>0, <1>1, <1>2
  <2>2. Book!Waits(k)
    <3>1. k \notin charged
      BY <1>1, <2>1 DEF LedgerInv, ChargedPast
    <3> QED
      BY <1>1, <3>1, NotEntered
  <2>3. \A d, x : Taken(d, x)' = Taken(d, x) /\ Blind(d, x)' = Blind(d, x)
                  /\ Untouched(d, x)' = Untouched(d, x)
    BY <1>1 DEF Taken, Blind, Untouched
  <2>4. Entered' = Entered /\ Written' = Written
    BY <2>3 DEF Entered, Written
  <2>5. Refused' = Refused \cup {k}
    BY <1>0, <1>1, <1>2 DEF Refused
  <2>6. \A x \in AskedFor[npa[k]] :
          <<day[k], x>> \notin Written /\ Entered[day[k]][x] \cap blind = {}
             => Book!Cardinality(Entered[day[k]][x]) = Cap
    <3> SUFFICES ASSUME NEW x \in AskedFor[npa[k]],
                        <<day[k], x>> \notin Written, Entered[day[k]][x] \cap blind = {}
                 PROVE  Book!Cardinality(Entered[day[k]][x]) = Cap
      OBVIOUS
    <3>1. x \in PoolMembers(npa[k]) \cup PoolMembers(Overflow)
      BY <1>0 DEF AskedFor
    <3>2. x \in DIDs /\ day[k] \in Days
      BY <1>0, <3>1, PoolType, OverflowKey DEF PoolMembers
    <3>3. Entered[day[k]][x] = Taken(day[k], x)
      BY <3>2 DEF Entered
    <3>4. Untouched(day[k], x) /\ Blind(day[k], x) = {}
      BY <3>2, <3>3 DEF Written, Blind
    <3>5. Cardinality(Taken(day[k], x)') = Cap
      <4>1. npa'[k] = npa[k]
        BY <1>1
      <4>2. Untouched(day[k], x)' /\ Blind(day[k], x)' = {}
        BY <1>1, <3>4 DEF Untouched, Blind, Taken
      <4> QED
        BY <1>2, <3>1, <4>1, <4>2 DEF RejectedOnlyWhenExhausted
    <3>6. Taken(day[k], x)' = Taken(day[k], x)
      BY <1>1 DEF Taken
    <3> QED
      BY <3>3, <3>5, <3>6, SameSize
  <2> QED
    BY <1>0, <1>1, <2>2, <2>4, <2>5, <2>6 DEF Book!Refuse
<1>3. CASE pc'[k] # "rejected"
  <2>1. \A c \in Calls : pc'[c] = "rejected" <=> pc[c] = "rejected"
    BY <1>0, <1>1, <1>3
  <2> QED
    BY <1>1, <2>1, OutOfSight DEF TypeInv, ghosts
<1> QED
  BY <1>2, <1>3

\* What operators write is the book's too.
LEMMA OperatorIsWrite ==
    ASSUME TypeInv, Operator
    PROVE  \E counters \in SUBSET (Days \X DIDs) : Book!Write(counters)
<1>0. operator \in [Days -> [DIDs -> Nat \cup {NoValue}]] /\ today \in Days
  BY DEF TypeInv, TypeOK
<1>1. PICK S \in SUBSET DIDs :
        \A d \in Days, x \in DIDs :
          operator'[d][x] # NoValue <=> operator[d][x] # NoValue \/ (d = today /\ x \in S)
  <2>1. CASE OperatorResetAll
    <3>1. operator' = [operator EXCEPT ![today] = [x \in DIDs |-> 0]] /\ 0 # NoValue
      BY <2>1, Distinct DEF OperatorResetAll
    <3>2. \A d \in Days, x \in DIDs :
            operator'[d][x] # NoValue <=> operator[d][x] # NoValue \/ (d = today /\ x \in DIDs)
      BY <1>0, <3>1
    <3> QED
      BY <3>2
  <2>2. ASSUME NEW y \in DIDs, NEW n \in OperatorValues, OperatorSet(y, n)
        PROVE  \E S \in SUBSET DIDs : \A d \in Days, x \in DIDs :
                 operator'[d][x] # NoValue <=> operator[d][x] # NoValue \/ (d = today /\ x \in S)
    <3>1. operator' = [operator EXCEPT ![today] = [operator[today] EXCEPT ![y] = n]]
          /\ n # NoValue
      BY <2>2, OperatorNat, Distinct DEF OperatorSet
    <3>2. \A d \in Days, x \in DIDs :
            operator'[d][x] # NoValue <=> operator[d][x] # NoValue \/ (d = today /\ x \in {y})
      BY <1>0, <3>1
    <3> QED
      BY <3>2
  <2> QED
    BY <2>1, <2>2 DEF Operator
<1> DEFINE counters == {today} \X S
<1>2. Written' = Written \cup counters
  BY <1>0, <1>1 DEF Written, Untouched
<1>3. UNCHANGED <<day, cand, charged, blind, pc>>
  BY DEF Operator, OperatorSet, OperatorResetAll, walk
<1>4. Entered' = Entered
  <2>1. \A d, x : Taken(d, x)' = Taken(d, x)
    BY <1>3 DEF Taken
  <2> QED
    BY <2>1 DEF Entered
<1>5. Refused' = Refused
  BY <1>3 DEF Refused
<1>6. counters \in SUBSET (Days \X DIDs)
  BY <1>0
<1> QED
  BY <1>2, <1>3, <1>4, <1>5, <1>6 DEF Book!Write

\* Every step keeps the book.
LEMMA BookStep ==
    ASSUME TypeInv, LedgerInv, RejectedOnlyWhenExhausted', [Next]_vars
    PROVE  [Book!Next]_(Book!vars)
<1>0. TypeOK /\ pc \in [Calls -> PcStates]
  BY DEF TypeInv, TypeOK
<1>1. ASSUME NEW k \in Calls, Start(k) \/ Run(k) \/ Hangup(k) PROVE [Book!Next]_(Book!vars)
  <2>1. CASE WriteCount(k)
    BY <2>1, WriteIsTake DEF Book!Next
  <2>2. CASE Return(k)
    BY <2>2, ReturnIsRefuse DEF Book!Next
  <2>3. CASE ReadCount(k)
    <3>1. UNCHANGED <<day, cand, ghosts>>
          /\ \A c \in Calls : pc'[c] = "rejected" <=> pc[c] = "rejected"
      BY <1>0, <2>3 DEF ReadCount, Goto
    <3> QED
      BY <1>0, <3>1, OutOfSight
  <2>4. CASE \/ Start(k) \/ ReadRotor(k) \/ SetRotor(k) \/ TryLock(k) \/ Release(k)
             \/ Capped(k) \/ Hangup(k) \/ Teardown(k)
    <3>1. Quiet
      BY <2>4, CallStepsQuiet
    <3>2. \A c \in Calls : pc'[c] = "rejected" <=> pc[c] = "rejected"
      BY <1>0, <2>4 DEF Start, ReadRotor, SetRotor, TryLock, Release, Capped, Hangup, Teardown,
                        Goto, Live, Settled
    <3> QED
      BY <1>0, <3>1, <3>2, OutOfSight DEF Quiet
  <2> QED
    BY <1>1, <2>1, <2>2, <2>3, <2>4 DEF Run
<1>2. CASE Operator
  BY <1>2, OperatorIsWrite DEF Book!Next
<1>3. CASE Restart
  BY <1>0, <1>3, OutOfSight DEF Restart, Live, Settled, walk
<1>4. CASE Midnight \/ Prune \/ UNCHANGED vars
  <2>1. UNCHANGED <<walk, ghosts, pc>>
    BY <1>4 DEF Midnight, Prune, vars
  <2> QED
    BY <1>0, <2>1, OutOfSight DEF walk
<1> QED
  BY <1>1, <1>2, <1>3, <1>4 DEF Next

\* The pick does what the rest of the dialplan takes it for: whatever calls,
\* locks, restarts, midnights and prunes come between its steps, it enters
\* each call once, on a number with budget left, changes no entry, and refuses
\* a call only when there is no budget: DidPool implements DidBudget
\* (extensions.conf.tpl:792-805, 850-867).
THEOREM PickKeepsTheBook == Spec => KeepsTheBook
<1>1. Init => Book!Init
  <2> SUFFICES ASSUME Init PROVE Book!Init
    OBVIOUS
  <2>1. Entered = [d \in Days |-> [x \in DIDs |-> {}]]
    BY DEF Init, Entered, Taken
  <2>2. Written = {} /\ Refused = {} /\ blind = {}
    BY DEF Init, Written, Untouched, Refused
  <2> QED
    BY <2>1, <2>2 DEF Book!Init
<1>2. TypeInv /\ LedgerInv /\ RejectedOnlyWhenExhausted' /\ [Next]_vars
        => [Book!Next]_(Book!vars)
  BY BookStep
<1> QED
  BY <1>1, <1>2, LedgerAlways, RefusalsAreExhaustion, PTL DEF Spec, KeepsTheBook, Book!Spec
=============================================================================
