----------------------- MODULE TransferLearningProofs -----------------------
(***************************************************************************)
(* Proofs about TransferLearning for every number of calls, rows and days  *)
(* and every threshold: what a row says of the calls it was made from, and *)
(* what an operator decided.                                               *)
(***************************************************************************)
EXTENDS TransferLearning, FiniteSetTheorems, WellFoundedInduction, TLAPS

(***************************************************************************)
(* The seconds of a set of calls, counted as the members of a set.         *)
(***************************************************************************)

Marks(f, S) == {m \in S \X Nat : m[2] \in 1 .. f[m[1]]}
SumOf(f, S) == MapThenSumSet(LAMBDA c : f[c], S)

\* A set of finite sets has a least member.
LEMMA LeastSubset ==
    ASSUME NEW S, IsFiniteSet(S), NEW T \in SUBSET (SUBSET S), T # {}
    PROVE  \E s \in T : \A u \in T : u \subseteq s => u = s
<1>1. IsWellFoundedOn(StrictSubsetOrdering(S), SUBSET S)
  BY FS_StrictSubsetOrderingWellFounded, FS_FiniteSubsetsOfFinite
<1>2. PICK s \in T : \A u \in T : ~(<<u, s>> \in StrictSubsetOrdering(S))
  <2> HIDE DEF StrictSubsetOrdering
  <2> QED
    BY <1>1, WFMin
<1> QED
  BY <1>2 DEF StrictSubsetOrdering

LEMMA MarksAdd ==
    ASSUME NEW S, NEW f, NEW x \in S, f[x] \in Nat, IsFiniteSet(Marks(f, S \ {x}))
    PROVE  /\ IsFiniteSet(Marks(f, S))
           /\ Cardinality(Marks(f, S)) = f[x] + Cardinality(Marks(f, S \ {x}))
<1> DEFINE A == {x} \X (1 .. f[x])
           B == Marks(f, S \ {x})
<1>1. Marks(f, S) = A \cup B /\ A \cap B = {}
  BY DEF Marks
<1>2. IsFiniteSet(A) /\ Cardinality(A) = f[x]
  <2>1. IsFiniteSet(1 .. f[x]) /\ Cardinality(1 .. f[x]) = f[x]
    BY FS_Interval
  <2>2. IsFiniteSet({x}) /\ Cardinality({x}) = 1
    BY FS_Singleton
  <2>3. IsFiniteSet(A) /\ Cardinality(A) = Cardinality({x}) * Cardinality(1 .. f[x])
    BY <2>1, <2>2, FS_Product
  <2> QED
    BY <2>1, <2>2, <2>3
<1> HIDE DEF A, B
<1>3. Cardinality(A \cup B) = Cardinality(A) + Cardinality(B) - Cardinality(A \cap B)
      /\ IsFiniteSet(A \cup B) /\ Cardinality(B) \in Nat
  BY <1>2, FS_Union, FS_CardinalityType DEF B
<1>4. Cardinality(A \cap B) = 0
  BY <1>1, FS_EmptySet
<1> QED
  BY <1>1, <1>2, <1>3, <1>4 DEF B

LEMMA MarksFinite ==
    ASSUME NEW S, IsFiniteSet(S), NEW f, \A x \in S : f[x] \in Nat
    PROVE  IsFiniteSet(Marks(f, S))
<1> DEFINE T == {s \in SUBSET S : ~IsFiniteSet(Marks(f, s))}
<1>1. CASE T = {}
  BY <1>1
<1>2. CASE T # {}
  <2>1. PICK s \in T : \A u \in T : u \subseteq s => u = s
    <3>1. T \in SUBSET (SUBSET S)
      OBVIOUS
    <3> HIDE DEF T
    <3> QED
      BY <1>2, <3>1, LeastSubset
  <2>2. s # {}
    <3>1. Marks(f, {}) = {}
      BY DEF Marks
    <3> QED
      BY <3>1, FS_EmptySet
  <2>3. PICK x \in s : TRUE
    BY <2>2
  <2>4. IsFiniteSet(Marks(f, s \ {x}))
    BY <2>1, <2>3
  <2> QED
    BY <2>4, MarksAdd
<1> QED
  BY <1>1, <1>2

LEMMA SumIsMarks ==
    ASSUME NEW S, IsFiniteSet(S), NEW f, \A x \in S : f[x] \in Nat
    PROVE  SumOf(f, S) = Cardinality(Marks(f, S))
<1> DEFINE step(it, s) == IF s = {} THEN 0
                          ELSE f[CHOOSE x \in s : TRUE] + it[s \ {CHOOSE x \in s : TRUE}]
           iter == CHOOSE it : it = [s \in SUBSET S |-> step(it, s)]
           g == [s \in SUBSET S |-> Cardinality(Marks(f, s))]
<1>1. SumOf(f, S) = iter[S]
  BY DEF SumOf, MapThenSumSet, MapThenFoldSet
<1>2. ASSUME NEW s \in SUBSET S, s # {}, NEW x, x = CHOOSE y \in s : TRUE
      PROVE  x \in s /\ g[s] = f[x] + g[s \ {x}]
  <2>1. x \in s
    BY <1>2
  <2>2. IsFiniteSet(Marks(f, s \ {x}))
    BY MarksFinite, FS_Subset
  <2> QED
    BY <2>1, <2>2, MarksAdd
<1>3. g[{}] = 0
  <2>1. Marks(f, {}) = {}
    BY DEF Marks
  <2> QED
    BY <2>1, FS_EmptySet
<1> HIDE DEF g
<1>4. \A s \in SUBSET S : g[s] = step(g, s)
  BY <1>2, <1>3
<1>5. g = [s \in SUBSET S |-> step(g, s)]
  BY <1>4 DEF g
<1>6. iter = [s \in SUBSET S |-> step(iter, s)]
  BY <1>5
<1> HIDE DEF iter
<1> DEFINE T == {s \in SUBSET S : iter[s] # g[s]}
<1>7. T = {}
  <2> SUFFICES ASSUME T # {} PROVE FALSE
    OBVIOUS
  <2>1. PICK s \in T : \A u \in T : u \subseteq s => u = s
    <3>1. T \in SUBSET (SUBSET S)
      OBVIOUS
    <3> HIDE DEF T
    <3> QED
      BY <3>1, LeastSubset
  <2>2. iter[s] = step(iter, s)
    BY <1>6
  <2>3. CASE s = {}
    BY <1>3, <2>2, <2>3
  <2>4. CASE s # {}
    <3> DEFINE x == CHOOSE y \in s : TRUE
    <3>1. x \in s /\ g[s] = f[x] + g[s \ {x}]
      BY <1>2, <2>4
    <3>2. iter[s \ {x}] = g[s \ {x}]
      BY <2>1, <3>1
    <3> QED
      BY <2>2, <2>4, <3>1, <3>2
  <2> QED
    BY <2>3, <2>4
<1> QED
  BY <1>1, <1>7 DEF g

-----------------------------------------------------------------------------
(***************************************************************************)
(* Types.                                                                  *)
(***************************************************************************)

\* A call between its read of the row and its write has a row in hand, and it
\* is counted only by the write.
HandlerShape ==
    \A c \in Calls :
        /\ pc[c] \in {"counting", "writing"} => cur[c] \in Rows
        /\ c \in counted => pc[c] \in {"written", "done"}

Shape == TypeOK /\ HandlerShape

LEMMA RowType ==
    ASSUME NEW f \in {"L", "P", "S"}, NEW n \in Nat, NEW b \in Nat, NEW d \in Nat
    PROVE  /\ Row(f, n, b, d) \in Rows /\ Row(f, n, b, d) # NoRow
           /\ Row(f, n, b, d).flag = f /\ Row(f, n, b, d).n = n /\ Row(f, n, b, d).b = b
           /\ Row(f, n, b, d).seen = d
  BY NoRowFresh DEF Row, Rows

LEMMA StartedType ==
    ASSUME NEW r \in Rows \cup {NoRow} PROVE Started(r) \in Rows
  BY RowType DEF Started

LEMMA ClassifyType ==
    ASSUME NEW r PROVE Classify(r) \in {"pool", "pinned", "learned"}
  BY DEF Classify

LEMMA ShapeInit == Init => Shape
  BY DEF Init, Shape, TypeOK, HandlerShape

LEMMA ShapeStep == Shape /\ [Next]_vars => Shape'
<1> SUFFICES ASSUME Shape, [Next]_vars PROVE Shape'
  OBVIOUS
<1> USE DEF Shape, TypeOK, HandlerShape, Goto, ghosts, callVars
<1>1. ASSUME NEW c \in Calls, Dial(c) PROVE Shape'
  <2>1. Classify(db[key[c]]) \in {"pool", "pinned", "learned"}
    BY ClassifyType
  <2> QED
    BY <1>1, <2>1 DEF Dial
<1>2. ASSUME NEW c \in Calls, EndUnanswered(c) PROVE Shape'
  BY <1>2 DEF EndUnanswered
<1>3. ASSUME NEW c \in Calls, NEW t \in Durations, EndAnswered(c, t) PROVE Shape'
  BY <1>3, DurationsNat DEF EndAnswered
<1>4. ASSUME NEW c \in Calls, ReadRow(c) PROVE Shape'
  <2>1. Started(db[key[c]]) \in Rows
    BY StartedType
  <2>2. \/ pc' = [pc EXCEPT ![c] = "done"] /\ cur' = [cur EXCEPT ![c] = NoRow]
        \/ pc' = [pc EXCEPT ![c] = "counting"] /\ cur' = [cur EXCEPT ![c] = Started(db[key[c]])]
    BY <1>4 DEF ReadRow
  <2>3. pc[c] = "ended" /\ UNCHANGED <<db, lock, today, key, rule, bs, doomed, ghosts>>
    BY <1>4 DEF ReadRow
  <2> QED
    BY <2>1, <2>2, <2>3
<1>5. ASSUME NEW c \in Calls, TryLock(c) PROVE Shape'
  BY <1>5 DEF TryLock
<1>6. ASSUME NEW c \in Calls, WriteRow(c) PROVE Shape'
  <2>1. pc[c] = "writing" /\ cur[c] \in Rows
    BY <1>6 DEF WriteRow
  <2>2. Row(cur[c].flag, cur[c].n + 1, cur[c].b + bs[c], today) \in Rows
    <3>1. /\ cur[c].flag \in {"L", "P", "S"} /\ cur[c].n + 1 \in Nat
          /\ cur[c].b + bs[c] \in Nat /\ today \in Nat
      BY <2>1 DEF Rows
    <3> QED
      BY <3>1, RowType
  <2> QED
    BY <1>6, <2>2 DEF WriteRow
<1>7. ASSUME NEW c \in Calls, Unlock(c) PROVE Shape'
  BY <1>7 DEF Unlock
<1>8. ASSUME NEW k \in Keys, NEW f \in {"P", "S"}, OperatorPut(k, f) PROVE Shape'
  <2>1. Row(f, 0, 0, today) \in Rows
    BY RowType
  <2> QED
    BY <1>8, <2>1 DEF OperatorPut
<1>9. ASSUME NEW k \in Keys, PruneDelete(k) PROVE Shape'
  BY <1>9 DEF PruneDelete
<1>10. CASE TransfersReset
  BY <1>10 DEF TransfersReset
<1>11. CASE PruneList
  BY <1>11 DEF PruneList
<1>12. CASE Midnight
  BY <1>12 DEF Midnight
<1>13. CASE Restart
  BY <1>13 DEF Restart
<1>14. CASE UNCHANGED vars
  BY <1>14 DEF vars
<1> QED
  BY <1>1, <1>2, <1>3, <1>4, <1>5, <1>6, <1>7, <1>8, <1>9, <1>10, <1>11, <1>12, <1>13, <1>14
     DEF Next, Call, TransfersAdd, TransfersRemove

-----------------------------------------------------------------------------
(***************************************************************************)
(* What a row says is what some counted calls say together.                *)
(***************************************************************************)

\* Row r of key k is the count and the seconds of a set of counted calls.
Counts(r, k) ==
    \E S \in SUBSET CountedOn(k) : Cardinality(S) = r.n /\ Seconds(S) = r.b

\* Both the stored rows and the rows that handlers have in hand.
EvidenceInv ==
    /\ \A k \in Keys : db[k] # NoRow => Counts(db[k], k)
    /\ \A c \in Calls : pc[c] \in {"counting", "writing"} => Counts(cur[c], key[c])
    /\ LearnedHasEvidence

LEMMA SecondsIsSum == ASSUME NEW S PROVE Seconds(S) = SumOf(bs, S)
  BY DEF Seconds, SumOf

\* A set of counted calls stays one, and its seconds stay the same.
LEMMA CountedStay ==
    ASSUME Shape, key' = key, counted \subseteq counted',
           \A c \in counted : bs'[c] = bs[c],
           NEW k \in Keys, NEW S \in SUBSET CountedOn(k)
    PROVE  S \in SUBSET CountedOn(k)' /\ Seconds(S)' = Seconds(S)
<1>1. IsFiniteSet(S) /\ S \subseteq counted /\ \A x \in S : bs[x] \in Nat /\ bs'[x] \in Nat
  BY CallsFinite, FS_Subset DEF CountedOn, Shape, TypeOK
<1>2. Marks(bs', S) = Marks(bs, S)
  BY <1>1 DEF Marks
<1>3. SumOf(bs', S) = SumOf(bs, S)
  BY <1>1, <1>2, SumIsMarks
<1>4. Seconds(S)' = SumOf(bs', S)
  BY DEF Seconds, SumOf, MapThenSumSet, MapThenFoldSet
<1> QED
  BY <1>3, <1>4, SecondsIsSum DEF CountedOn

\* One more call adds one to the count and its seconds to the sum.
LEMMA CountedGrow ==
    ASSUME Shape, NEW k \in Keys, NEW S \in SUBSET CountedOn(k), NEW c \in Calls \ counted
    PROVE  /\ Cardinality(S \cup {c}) = Cardinality(S) + 1
           /\ SumOf(bs, S \cup {c}) = Seconds(S) + bs[c]
<1>1. IsFiniteSet(S) /\ IsFiniteSet(S \cup {c}) /\ c \notin S /\ (S \cup {c}) \ {c} = S
      /\ \A x \in S \cup {c} : bs[x] \in Nat
  BY CallsFinite, FS_Subset DEF CountedOn, Shape, TypeOK
<1>2. IsFiniteSet(Marks(bs, S))
  BY <1>1, MarksFinite
<1>3. Cardinality(Marks(bs, S \cup {c})) = bs[c] + Cardinality(Marks(bs, S))
  <2> DEFINE U == S \cup {c}
  <2>1. U \ {c} = S /\ c \in U /\ bs[c] \in Nat
    BY <1>1
  <2> HIDE DEF U
  <2>2. IsFiniteSet(Marks(bs, U \ {c}))
    BY <1>2, <2>1
  <2>3. Cardinality(Marks(bs, U)) = bs[c] + Cardinality(Marks(bs, U \ {c}))
    BY <2>1, <2>2, MarksAdd
  <2> QED
    BY <2>1, <2>3 DEF U
<1> QED
  BY <1>1, <1>2, <1>3, SumIsMarks, SecondsIsSum, FS_AddElement, FS_CardinalityType

LEMMA EvidenceInit == Init => EvidenceInv
  BY DEF Init, EvidenceInv, LearnedHasEvidence

LEMMA NoCallsNoSeconds == Cardinality({}) = 0 /\ SumOf(bs, {}) = 0 /\ SumOf(bs', {}) = 0
<1>1. ASSUME NEW f PROVE SumOf(f, {}) = 0
  <2>1. Marks(f, {}) = {}
    BY DEF Marks
  <2>2. SumOf(f, {}) = Cardinality(Marks(f, {}))
    BY SumIsMarks, FS_EmptySet
  <2> QED
    BY <2>1, <2>2, FS_EmptySet
<1> QED
  BY <1>1, FS_EmptySet

\* Nothing that was counted is forgotten or changed.
LEMMA HistoryStands ==
    ASSUME Shape, [Next]_vars
    PROVE  key' = key /\ counted \subseteq counted' /\ \A c \in counted : bs'[c] = bs[c]
<1> USE DEF Shape, TypeOK, HandlerShape, Goto, callVars, ghosts
<1>1. ASSUME NEW c \in Calls, NEW t \in Durations, EndAnswered(c, t)
      PROVE  key' = key /\ counted \subseteq counted' /\ \A d \in counted : bs'[d] = bs[d]
  BY <1>1 DEF EndAnswered
<1>2. ASSUME \/ \E c \in Calls : \/ Dial(c) \/ EndUnanswered(c) \/ ReadRow(c)
                                 \/ TryLock(c) \/ WriteRow(c) \/ Unlock(c)
             \/ \E k \in Keys : TransfersAdd(k) \/ TransfersRemove(k) \/ PruneDelete(k)
             \/ TransfersReset \/ PruneList \/ Midnight \/ Restart \/ UNCHANGED vars
      PROVE  UNCHANGED <<key, bs>> /\ counted \subseteq counted'
  BY <1>2 DEF Dial, EndUnanswered, ReadRow, TryLock, WriteRow, Unlock, TransfersAdd,
     TransfersRemove, OperatorPut, PruneDelete, TransfersReset, PruneList, Midnight, Restart, vars
<1> QED
  BY <1>1, <1>2 DEF Next, Call

\* The three ways a stored row comes about.
LEMMA RowsWritten ==
    ASSUME Shape, [Next]_vars, NEW k \in Keys
    PROVE  \/ db'[k] \in {db[k], NoRow}
           \/ db'[k] \in {Row("P", 0, 0, today), Row("S", 0, 0, today)}
           \/ \E c \in Calls : WriteRow(c) /\ key[c] = k
<1> USE DEF Shape, TypeOK
<1>1. ASSUME NEW c \in Calls, WriteRow(c) PROVE db'[k] = db[k] \/ key[c] = k
  BY <1>1 DEF WriteRow
<1>2. ASSUME NEW j \in Keys, NEW f \in {"P", "S"}, OperatorPut(j, f)
      PROVE  db'[k] \in {db[k], Row(f, 0, 0, today)}
  BY <1>2 DEF OperatorPut
<1>3. ASSUME NEW j \in Keys, PruneDelete(j) PROVE db'[k] \in {db[k], NoRow}
  BY <1>3 DEF PruneDelete
<1>4. ASSUME TransfersReset PROVE db'[k] = NoRow
  BY <1>4 DEF TransfersReset
<1>5. ASSUME \/ \E c \in Calls : \/ Dial(c) \/ EndUnanswered(c) \/ ReadRow(c) \/ TryLock(c)
                                 \/ Unlock(c) \/ \E t \in Durations : EndAnswered(c, t)
             \/ PruneList \/ Midnight \/ Restart \/ UNCHANGED vars
      PROVE  db' = db
  BY <1>5 DEF Dial, EndUnanswered, EndAnswered, ReadRow, TryLock, Unlock, PruneList, Midnight,
     Restart, vars
<1> QED
  BY <1>1, <1>2, <1>3, <1>4, <1>5 DEF Next, Call, TransfersAdd, TransfersRemove

\* The row in a handler's hand is the one it had, or the one it has just read.
LEMMA RowsInHand ==
    ASSUME Shape, [Next]_vars, NEW c \in Calls, pc'[c] \in {"counting", "writing"}
    PROVE  \/ pc[c] \in {"counting", "writing"} /\ cur'[c] = cur[c]
           \/ /\ cur'[c] = Started(db[key[c]]) /\ db' = db
              /\ db[key[c]] = NoRow \/ db[key[c]].flag # "S"
<1> USE DEF Shape, TypeOK, Goto, callVars
<1>1. ASSUME NEW d \in Calls,
             \/ Dial(d) \/ EndUnanswered(d) \/ WriteRow(d) \/ \E t \in Durations : EndAnswered(d, t)
      PROVE  pc[c] \in {"counting", "writing"} /\ cur'[c] = cur[c]
  BY <1>1 DEF Dial, EndUnanswered, EndAnswered, WriteRow
<1>2. ASSUME NEW d \in Calls, TryLock(d) PROVE pc[c] \in {"counting", "writing"} /\ cur'[c] = cur[c]
  BY <1>2 DEF TryLock
<1>3. ASSUME NEW d \in Calls, Unlock(d) PROVE pc[c] \in {"counting", "writing"} /\ cur'[c] = cur[c]
  BY <1>3 DEF Unlock
<1>4. ASSUME NEW d \in Calls, ReadRow(d), d # c
      PROVE  pc[c] \in {"counting", "writing"} /\ cur'[c] = cur[c]
  BY <1>4 DEF ReadRow
<1>5. ASSUME ReadRow(c)
      PROVE  /\ cur'[c] = Started(db[key[c]]) /\ db' = db
             /\ db[key[c]] = NoRow \/ db[key[c]].flag # "S"
  BY <1>5 DEF ReadRow
<1>6. ASSUME Restart PROVE FALSE
  BY <1>6 DEF Restart
<1>7. ASSUME \/ \E k \in Keys : TransfersAdd(k) \/ TransfersRemove(k) \/ PruneDelete(k)
             \/ TransfersReset \/ PruneList \/ Midnight \/ UNCHANGED vars
      PROVE  UNCHANGED <<pc, cur>>
  BY <1>7 DEF TransfersAdd, TransfersRemove, OperatorPut, PruneDelete, TransfersReset, PruneList,
     Midnight, vars
<1> QED
  BY <1>1, <1>2, <1>3, <1>4, <1>5, <1>6, <1>7 DEF Next, Call

LEMMA EvidenceStep == Shape /\ EvidenceInv /\ [Next]_vars => EvidenceInv'
<1> SUFFICES ASSUME Shape, EvidenceInv, [Next]_vars PROVE EvidenceInv'
  OBVIOUS
<1> DEFINE After(r, k) ==
        \E S \in SUBSET CountedOn(k)' : Cardinality(S) = r.n /\ Seconds(S)' = r.b
<1>1. key' = key /\ counted \subseteq counted' /\ \A c \in counted : bs'[c] = bs[c]
  BY HistoryStands
<1>2. ASSUME NEW k \in Keys, NEW r, Counts(r, k) PROVE After(r, k)
  <2>1. PICK S \in SUBSET CountedOn(k) : Cardinality(S) = r.n /\ Seconds(S) = r.b
    BY <1>2 DEF Counts
  <2> QED
    BY <1>1, <2>1, CountedStay
<1>3. ASSUME NEW k \in Keys, NEW r, r.n = 0, r.b = 0 PROVE After(r, k)
  <2>1. Seconds({})' = SumOf(bs', {})
    BY DEF Seconds, SumOf, MapThenSumSet, MapThenFoldSet
  <2> QED
    BY <1>3, <2>1, NoCallsNoSeconds
<1> HIDE DEF After
<1>4. ASSUME NEW k \in Keys, db'[k] # NoRow PROVE After(db'[k], k)
  <2>1. CASE db'[k] = db[k]
    BY <1>2, <1>4, <2>1 DEF EvidenceInv
  <2>2. CASE db'[k] \in {Row("P", 0, 0, today), Row("S", 0, 0, today)}
    <3>1. db'[k].n = 0 /\ db'[k].b = 0
      BY <2>2 DEF Row
    <3> QED
      BY <1>3, <3>1
  <2>3. ASSUME NEW c \in Calls, WriteRow(c), key[c] = k PROVE After(db'[k], k)
    <3>1. /\ pc[c] = "writing" /\ cur[c] \in Rows /\ bs' = bs /\ counted' = counted \cup {c}
          /\ db'[k] = Row(cur[c].flag, cur[c].n + 1, cur[c].b + bs[c], today)
      BY <2>3 DEF WriteRow, Goto, Shape, TypeOK, HandlerShape
    <3>2. db'[k].n = cur[c].n + 1 /\ db'[k].b = cur[c].b + bs[c]
      BY <3>1 DEF Row
    <3>3. PICK S \in SUBSET CountedOn(k) : Cardinality(S) = cur[c].n /\ Seconds(S) = cur[c].b
      BY <2>3, <3>1 DEF EvidenceInv, Counts
    <3>4. c \in Calls \ counted
      BY <3>1 DEF Shape, HandlerShape
    <3>5. S \cup {c} \in SUBSET CountedOn(k)'
      BY <1>1, <2>3, <3>1 DEF CountedOn
    <3>6. Cardinality(S \cup {c}) = db'[k].n
      BY <3>2, <3>3, <3>4, CountedGrow
    <3>7. Seconds(S \cup {c})' = SumOf(bs, S \cup {c})
      BY <3>1 DEF Seconds, SumOf, MapThenSumSet, MapThenFoldSet
    <3>8. Seconds(S \cup {c})' = db'[k].b
      BY <3>2, <3>3, <3>4, <3>7, CountedGrow
    <3> QED
      BY <3>5, <3>6, <3>8 DEF After
  <2> QED
    BY <1>4, <2>1, <2>2, <2>3, RowsWritten
<1>5. ASSUME NEW c \in Calls, pc'[c] \in {"counting", "writing"} PROVE After(cur'[c], key[c])
  <2>1. key[c] \in Keys
    BY DEF Shape, TypeOK
  <2>2. CASE pc[c] \in {"counting", "writing"} /\ cur'[c] = cur[c]
    BY <1>2, <2>1, <2>2 DEF EvidenceInv
  <2>3. CASE cur'[c] = Started(db[key[c]])
    <3>1. CASE db[key[c]] = NoRow
      BY <1>3, <2>1, <2>3, <3>1 DEF Started, Row
    <3>2. CASE db[key[c]] # NoRow
      BY <1>2, <2>1, <2>3, <3>2 DEF Started, EvidenceInv
    <3> QED
      BY <3>1, <3>2
  <2> QED
    BY <1>5, <2>2, <2>3, RowsInHand
<1>6. ASSUME NEW c \in Calls, rule'[c] = "learned" PROVE Cardinality(CountedOn(key[c])') >= MinCalls
  <2> DEFINE k == key[c]
  <2>1. k \in Keys /\ CountedOn(k) \subseteq CountedOn(k)'
    BY <1>1 DEF Shape, TypeOK, CountedOn
  <2>2. IsFiniteSet(CountedOn(k)')
    <3>1. CountedOn(k)' \subseteq Calls
      BY ShapeStep DEF Shape, TypeOK, CountedOn
    <3> QED
      BY <3>1, CallsFinite, FS_Subset
  <2>3. ASSUME NEW S \in SUBSET CountedOn(k), Cardinality(S) >= MinCalls
        PROVE  Cardinality(CountedOn(k)') >= MinCalls
    BY <2>1, <2>2, <2>3, FS_Subset, FS_CardinalityType, ThresholdsNat
  <2>4. CASE rule[c] = "learned"
    BY <2>3, <2>4 DEF EvidenceInv, LearnedHasEvidence
  <2>5. CASE Dial(c)
    <3>1. Classify(db[k]) = "learned"
      BY <1>6, <2>5 DEF Dial, Shape, TypeOK
    <3>2. db[k] # NoRow /\ db[k].n >= MinCalls
      BY <3>1 DEF Classify
    <3>3. PICK S \in SUBSET CountedOn(k) : Cardinality(S) = db[k].n
      BY <2>1, <3>2 DEF EvidenceInv, Counts
    <3> QED
      BY <2>3, <3>2, <3>3
  <2>6. rule'[c] = rule[c] \/ Dial(c)
    <3>1. ASSUME NEW d \in Calls, Dial(d), d # c PROVE rule'[c] = rule[c]
      BY <3>1 DEF Dial, Shape, TypeOK
    <3> QED
      BY <3>1 DEF Next, Call, EndUnanswered, EndAnswered, ReadRow, TryLock, WriteRow, Unlock,
         TransfersAdd, TransfersRemove, OperatorPut, PruneDelete, TransfersReset, PruneList,
         Midnight, Restart, vars, callVars
  <2> QED
    BY <1>6, <2>4, <2>5, <2>6
<1> QED
  BY <1>1, <1>4, <1>5, <1>6 DEF After, EvidenceInv, Counts, LearnedHasEvidence, CountedOn

-----------------------------------------------------------------------------
(***************************************************************************)
(* The operator's word.                                                    *)
(***************************************************************************)

\* Where nobody held the row when the operator spoke, the row is the operator's,
\* prune has not listed it, and a handler that reads it takes its flag along.
DecisionInv ==
    \A k \in Keys : decision[k] # "none" /\ k \notin raced =>
        /\ db[k] # NoRow /\ db[k].flag = decision[k]
        /\ k \notin doomed
        /\ \A c \in Calls : pc[c] \in {"counting", "writing"} /\ key[c] = k =>
              cur[c].flag = decision[k]

LEMMA DecisionInit == Init => DecisionInv
  BY DEF Init, DecisionInv

LEMMA DecisionStep == Shape /\ DecisionInv /\ [Next]_vars => DecisionInv'
<1> SUFFICES ASSUME Shape, DecisionInv, [Next]_vars,
                    NEW k \in Keys, decision'[k] # "none", k \notin raced'
             PROVE  /\ db'[k] # NoRow /\ db'[k].flag = decision'[k] /\ k \notin doomed'
                    /\ \A c \in Calls : pc'[c] \in {"counting", "writing"} /\ key'[c] = k =>
                          cur'[c].flag = decision'[k]
  BY DEF DecisionInv
<1> USE DEF Shape, TypeOK
<1>0. key' = key
  BY HistoryStands
<1>1. ASSUME NEW f \in {"P", "S"}, OperatorPut(k, f)
      PROVE  /\ db'[k] # NoRow /\ db'[k].flag = decision'[k] /\ k \notin doomed'
             /\ \A c \in Calls : pc'[c] \in {"counting", "writing"} /\ key'[c] = k => FALSE
  <2>1. ~StaleReader(k) /\ doomed' = doomed /\ pc' = pc
    BY <1>1 DEF OperatorPut, callVars
  <2>2. db'[k] = Row(f, 0, 0, today) /\ decision'[k] = f
    BY <1>1 DEF OperatorPut
  <2>3. Row(f, 0, 0, today) # NoRow /\ Row(f, 0, 0, today).flag = f
    BY RowType
  <2> QED
    BY <1>0, <2>1, <2>2, <2>3 DEF StaleReader
<1>2. CASE decision'[k] = decision[k] /\ (k \in raced' <=> k \in raced)
  <2>1. /\ db[k] # NoRow /\ db[k].flag = decision[k] /\ k \notin doomed
        /\ \A c \in Calls : pc[c] \in {"counting", "writing"} /\ key[c] = k =>
              cur[c].flag = decision[k]
    BY <1>2 DEF DecisionInv
  <2>2. decision[k] \in {"P", "S"}
    BY <1>2
  <2>3. ASSUME NEW c \in Calls, pc'[c] \in {"counting", "writing"}, key'[c] = k
        PROVE  cur'[c].flag = decision[k]
    BY <1>0, <2>1, <2>3, RowsInHand DEF Started
  <2>4. k \notin doomed'
    <3>1. CASE PruneList
      BY <2>1, <2>2, <3>1 DEF PruneList, Expired
    <3>2. CASE ~PruneList
      BY <2>1, <3>2 DEF Next, Call, Dial, EndUnanswered, EndAnswered, ReadRow, TryLock, WriteRow,
         Unlock, TransfersAdd, TransfersRemove, OperatorPut, PruneDelete, TransfersReset, Midnight,
         Restart, vars
    <3> QED
      BY <3>1, <3>2
  <2>5. CASE db'[k] = db[k]
    BY <1>2, <2>1, <2>3, <2>4, <2>5
  <2>6. ASSUME NEW c \in Calls, WriteRow(c), key[c] = k
        PROVE  db'[k] # NoRow /\ db'[k].flag = decision[k]
    <3>1. /\ pc[c] = "writing" /\ cur[c] \in Rows
          /\ db'[k] = Row(cur[c].flag, cur[c].n + 1, cur[c].b + bs[c], today)
      BY <2>6 DEF WriteRow, Goto, HandlerShape
    <3>2. /\ cur[c].flag \in {"L", "P", "S"} /\ cur[c].n + 1 \in Nat /\ cur[c].b + bs[c] \in Nat
          /\ today \in Nat
      BY <3>1 DEF Rows
    <3>3. Row(cur[c].flag, cur[c].n + 1, cur[c].b + bs[c], today) # NoRow
      BY <3>2, NoRowFresh DEF Row, Rows
    <3>4. db'[k].flag = cur[c].flag
      BY <3>1 DEF Row
    <3> QED
      BY <2>1, <2>6, <3>1, <3>3, <3>4
  <2>7. ASSUME NEW j \in Keys, PruneDelete(j) PROVE db'[k] = db[k]
    BY <2>1, <2>7 DEF PruneDelete
  <2>8. ASSUME NEW j \in Keys, NEW f \in {"P", "S"}, OperatorPut(j, f), j # k PROVE db'[k] = db[k]
    BY <2>8 DEF OperatorPut
  <2>9. ~TransfersReset
    BY <1>2, <2>2 DEF TransfersReset
  <2>10. ASSUME NEW c \in Calls, WriteRow(c), key[c] # k PROVE db'[k] = db[k]
    BY <2>10 DEF WriteRow
  <2>11. ASSUME \/ \E c \in Calls : \/ Dial(c) \/ EndUnanswered(c) \/ ReadRow(c) \/ TryLock(c)
                                    \/ Unlock(c) \/ \E t \in Durations : EndAnswered(c, t)
                \/ PruneList \/ Midnight \/ Restart \/ UNCHANGED vars
         PROVE  db' = db
    BY <2>11 DEF Dial, EndUnanswered, EndAnswered, ReadRow, TryLock, Unlock, PruneList, Midnight,
       Restart, vars
  <2> QED
    BY <1>1, <1>2, <2>3, <2>4, <2>5, <2>6, <2>7, <2>8, <2>9, <2>10, <2>11
       DEF Next, Call, TransfersAdd, TransfersRemove
<1>3. ASSUME NEW j \in Keys, NEW f \in {"P", "S"}, OperatorPut(j, f), j # k
      PROVE  decision'[k] = decision[k] /\ (k \in raced' <=> k \in raced)
  BY <1>3 DEF OperatorPut
<1>4. ~TransfersReset
  BY DEF TransfersReset
<1>5. ASSUME \/ \E c \in Calls : Call(c)
             \/ \E j \in Keys : PruneDelete(j)
             \/ PruneList \/ Midnight \/ Restart \/ UNCHANGED vars
      PROVE  UNCHANGED <<decision, raced>>
  BY <1>5 DEF Call, Dial, EndUnanswered, EndAnswered, ReadRow, TryLock, WriteRow, Unlock,
     PruneDelete, PruneList, Midnight, Restart, vars, ghosts
<1> QED
  BY <1>1, <1>2, <1>3, <1>4, <1>5 DEF Next, TransfersAdd, TransfersRemove

-----------------------------------------------------------------------------
LearningInv == Shape /\ EvidenceInv /\ DecisionInv

LEMMA LearningInvHolds == Spec => []LearningInv
  BY ShapeInit, EvidenceInit, DecisionInit, ShapeStep, EvidenceStep, DecisionStep, PTL
     DEF Spec, LearningInv

\* The rows, the locks and the handlers keep their types: every flag stored is
\* one of those the call path knows (extensions.conf.tpl:375-380, 720-746).
THEOREM LearningTypeCorrect == Spec => []TypeOK
<1>1. LearningInv => TypeOK
  BY DEF LearningInv, Shape
<1> QED
  BY LearningInvHolds, <1>1, PTL

\* For any number of handlers that read and write a row without regard to the
\* lock, a stored row is the count and the seconds of some set of answered
\* calls (extensions.conf.tpl:720-746).
THEOREM RowsCountWholeCalls == Spec => []RowIsASetOfCalls
<1>1. LearningInv => RowIsASetOfCalls
  BY DEF LearningInv, EvidenceInv, Counts, RowIsASetOfCalls
<1> QED
  BY LearningInvHolds, <1>1, PTL

\* A caller ID passes through as a learned transfer only to a destination with
\* MinCalls answered calls (extensions.conf.tpl:375-380).
THEOREM LearnedHasEvidenceHolds == Spec => []LearnedHasEvidence
<1>1. LearningInv => LearnedHasEvidence
  BY DEF LearningInv, EvidenceInv
<1> QED
  BY LearningInvHolds, <1>1, PTL

\* Only a reader that held the row while the operator wrote it undoes what the
\* operator decided (extensions.conf.tpl:732-734, didctl.sh:376-391).
THEOREM DecisionStandsHolds == Spec => []DecisionStands
<1>1. LearningInv => DecisionStands
  BY DEF LearningInv, DecisionInv, DecisionStands
<1> QED
  BY LearningInvHolds, <1>1, PTL
=============================================================================
