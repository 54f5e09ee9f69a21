--------------------------- MODULE DaemonProofs ---------------------------
(***************************************************************************)
(* What TLAPS proves of the daemon, for any phrase lists, words and        *)
(* vocabularies, any thresholds, windows and limits, any clock, and any    *)
(* number of words, edits, reloads, starts, stops and crashes.             *)
(***************************************************************************)
EXTENDS Daemon, FiniteSetTheorems, WellFoundedInduction, TLAPS

Spec == Init /\ [][Next]_vars

ProcFields == {"st", "live", "list", "seen", "grammar", "counters", "base", "hup",
               "reading", "raced", "known", "calls", "sess"}
Started == {"built", "opening", "running"}

-----------------------------------------------------------------------------
(* The phrase list and the lock.                                           *)

\* What a process believes of the phrase list file: it has seen no write that
\* has not happened; what it is reading is the file, if the file was not
\* written since; the list it works with loads, and is the file if it takes it
\* to be and no write raced the reload.
ListKept(r) ==
    /\ DOMAIN r = ProcFields
    /\ r.seen \in Nat /\ r.seen <= mtime
    /\ r.reading # None => /\ r.reading.at \in Nat /\ r.reading.at <= mtime
                           /\ r.reading.at = mtime => r.reading.file = file
    /\ r.st \in Started => Loads(Files[r.list])
    /\ r.st \in Started /\ r.seen = mtime /\ Loads(Files[file]) /\ ~r.raced => r.list = file

\* A live copy that runs holds the lock.
LockHeld(q) == proc[q].live /\ Up(q) => lock = q

\* The inductive invariant.
ListInv ==
    /\ mtime \in Nat /\ DOMAIN proc = Procs
    /\ \A q \in Procs : ListKept(proc[q]) /\ LockHeld(q)

\* A process that has not started believes nothing wrong.
LEMMA NoProcKept == mtime \in Nat => ListKept(NoProc) /\ NoProc.st = "off"
  BY DEF ListKept, NoProc, ProcFields, Started

\* The invariant of list and lock holds at the start.
LEMMA ListInvInit == Init => ListInv
<1> SUFFICES ASSUME Init PROVE ListInv OBVIOUS
<1> DEFINE e == [NoProc EXCEPT !.st = "exec"]
<1>1. /\ mtime = 0 /\ DOMAIN proc = Procs
      /\ \A q \in Procs : proc[q] = NoProc \/ proc[q] = e
  BY DEF Init
<1>2. ListKept(NoProc) /\ NoProc.st = "off" /\ NoProc.st \notin Started
  BY <1>1, NoProcKept DEF Started
<1>3. ListKept(e) /\ e.st = "exec"
  BY <1>1, <1>2 DEF ListKept, ProcFields, Started
<1> QED BY <1>1, <1>2, <1>3, Zenon DEF ListInv, LockHeld, Up

\* One process takes a step and no file is written: what has to be looked at.
LEMMA OneProcess ==
    ASSUME ListInv, NEW p \in Procs, NEW r, Goes(p, r), UNCHANGED <<file, mtime>>,
           ListKept(r), r.live /\ r.st \in {"opening", "running"} => lock' = p,
           lock' = lock \/ (lock = None /\ lock' = p) \/ (lock = p /\ lock' = None)
    PROVE  ListInv'
<1>1. DOMAIN proc' = Procs /\ proc'[p] = r
      /\ \A q \in Procs \ {p} : proc'[q] = proc[q]
  BY DEF Goes, ListInv
<1>2. ListKept(r)' /\ \A q \in Procs : ListKept(proc[q])'
  <2>1. ASSUME NEW q \in Procs PROVE ListKept(proc[q])'
    <3>1. CASE q = p
      BY <1>1, <3>1 DEF ListKept
    <3>2. CASE q # p
      BY <1>1, <3>2 DEF ListKept, ListInv
    <3> QED BY <3>1, <3>2
  <2> QED BY <2>1 DEF ListKept
<1>3. ASSUME NEW q \in Procs PROVE LockHeld(q)'
  BY <1>1, NoneIsNothing DEF ListInv, LockHeld, Up
<1> QED BY <1>1, <1>2, <1>3 DEF ListInv

\* A step that leaves st, live, list, seen, reading and raced of its process,
\* or makes its start of running.
LEMMA SameList ==
    ASSUME ListInv, NEW p \in Procs, NEW r, DOMAIN r = ProcFields,
           /\ r.live = proc[p].live /\ r.list = proc[p].list /\ r.seen = proc[p].seen
           /\ r.reading = proc[p].reading /\ r.raced = proc[p].raced,
           \/ r.st = proc[p].st
           \/ r.st \in Started /\ proc[p].st \in Started
    PROVE  ListKept(r)
  BY DEF ListInv, ListKept, Started

\* A process ends.
LEMMA ProcessGone ==
    ASSUME ListInv, NEW p \in Procs, Goes(p, NoProc), UNCHANGED <<file, mtime>>,
           lock' = IF lock = p THEN None ELSE lock
    PROVE  ListInv'
<1>1. ListKept(NoProc) /\ NoProc.st = "off"
  BY NoProcKept DEF ListInv
<1> QED BY <1>1, OneProcess

\* Hearing leaves list and lock.
LEMMA ListOnAudio ==
    ASSUME ListInv, NEW p \in Procs, NEW w, NEW final, OnAudio(p, w, final)
    PROVE  ListInv'
<1>1. PICK r : /\ Goes(p, r) /\ DOMAIN r = ProcFields
               /\ r.live = proc[p].live /\ r.list = proc[p].list /\ r.seen = proc[p].seen
               /\ r.reading = proc[p].reading /\ r.raced = proc[p].raced /\ r.st = proc[p].st
  <2> DEFINE o == Opened(p)
  <2>1. /\ DOMAIN o = ProcFields
        /\ o.live = proc[p].live /\ o.list = proc[p].list /\ o.seen = proc[p].seen
        /\ o.reading = proc[p].reading /\ o.raced = proc[p].raced /\ o.st = proc[p].st
    BY DEF ListInv, ListKept, ProcFields, Opened
  <2> HIDE DEF o
  <2>2. PICK c, s : Goes(p, [o EXCEPT !.counters = c, !.sess = s]) \/ Goes(p, [o EXCEPT !.sess = s])
    BY Zenon DEF OnAudio, o
  <2> DEFINE a == [o EXCEPT !.counters = c, !.sess = s]
             b == [o EXCEPT !.sess = s]
             As(x) == /\ DOMAIN x = ProcFields
                      /\ x.live = proc[p].live /\ x.list = proc[p].list /\ x.seen = proc[p].seen
                      /\ x.reading = proc[p].reading /\ x.raced = proc[p].raced
                      /\ x.st = proc[p].st
  <2>3. As(a) /\ As(b)
    BY <2>1 DEF ProcFields
  <2> HIDE DEF a, b
  <2>4. PICK r : Goes(p, r) /\ As(r)
    BY <2>2, <2>3 DEF a, b
  <2> QED BY <2>4
<1>2. UNCHANGED <<file, mtime, lock>>
  BY DEF OnAudio
<1>3. ListKept(r)
  BY <1>1, SameList
<1> QED BY <1>1, <1>2, <1>3, OneProcess DEF ListInv, LockHeld, Up

\* A reload reads the file.
LEMMA ListReloadReads ==
    ASSUME ListInv, NEW p \in Procs, ReloadReads(p) PROVE ListInv'
<1> DEFINE r == [proc[p] EXCEPT !.hup = FALSE, !.reading = [file |-> file, at |-> mtime]]
<1>1. ListKept(r) /\ r.live = proc[p].live /\ r.st = proc[p].st
  BY DEF ListInv, ListKept, ProcFields
<1>2. Goes(p, r) /\ UNCHANGED <<file, mtime, lock>>
  BY DEF ReloadReads, env
<1> QED BY <1>1, <1>2, OneProcess DEF ListInv, LockHeld, Up

\* A reload ends: the list is what was read, or stays.
LEMMA ListHousekeep ==
    ASSUME ListInv, NEW p \in Procs, Housekeep(p) PROVE ListInv'
<1> DEFINE r == Reloaded(proc[p])
<1> DEFINE o == proc[p]
           a == [o EXCEPT !.list = o.reading.file, !.seen = mtime, !.reading = None,
                          !.raced = o.reading.at # mtime]
           b == [o EXCEPT !.seen = o.reading.at, !.reading = None]
<1>0. ListKept(o) /\ mtime \in Nat /\ o.st \in {"opening", "running"}
  BY DEF ListInv, Housekeep, Up
<1>1. ListKept(r) /\ r.live = proc[p].live /\ r.st = proc[p].st
  <2>1. CASE o.reading = None
    BY <1>0, <2>1 DEF Reloaded
  <2>2. CASE o.reading # None /\ Loads(Files[o.reading.file])
    <3>1. r = a
      BY <2>2, Zenon DEF Reloaded
    <3>2. /\ DOMAIN a = ProcFields /\ a.list = o.reading.file /\ a.seen = mtime
          /\ a.reading = None /\ a.raced = (o.reading.at # mtime)
          /\ a.live = o.live /\ a.st = o.st
      BY <1>0 DEF ListKept, ProcFields
    <3>3. a.list = file \/ a.raced
      BY <1>0, <2>2, <3>2, Zenon DEF ListKept
    <3> HIDE DEF r, a
    <3>4. DOMAIN r = ProcFields /\ r.seen = mtime /\ r.reading = None /\ Loads(Files[r.list])
      BY <2>2, <3>1, <3>2
    <3>5. r.list = file \/ r.raced
      BY <3>1, <3>3
    <3>6. ListKept(r)
      BY <1>0, <3>4, <3>5 DEF ListKept
    <3> QED BY <3>1, <3>2, <3>6
  <2>3. CASE o.reading # None /\ ~Loads(Files[o.reading.file])
    <3>1. r = b
      BY <2>3, Zenon DEF Reloaded
    <3>2. /\ DOMAIN b = ProcFields /\ b.list = o.list /\ b.seen = o.reading.at
          /\ b.reading = None /\ b.raced = o.raced /\ b.live = o.live /\ b.st = o.st
      BY <1>0 DEF ListKept, ProcFields
    <3> HIDE DEF r, b
    <3> QED BY <1>0, <2>3, <3>1, <3>2 DEF ListKept
  <2> QED BY <2>1, <2>2, <2>3
<1> HIDE DEF r, o
<1>2. PICK c, d, s : Goes(p, [r EXCEPT !.counters = c, !.base = d, !.sess = s])
  BY Zenon DEF Housekeep, r
<1> DEFINE q == [r EXCEPT !.counters = c, !.base = d, !.sess = s]
<1>3. ListKept(q) /\ q.live = proc[p].live /\ q.st = proc[p].st
  BY <1>1 DEF ListKept, ProcFields
<1>4. UNCHANGED <<file, mtime, lock>>
  BY DEF Housekeep, env
<1> HIDE DEF q
<1> QED BY <1>2, <1>3, <1>4, OneProcess DEF ListInv, LockHeld, Up, q

\* The constructor reads the list.
LEMMA ListBuild ==
    ASSUME ListInv, NEW p \in Procs, Build(p) PROVE ListInv'
<1>1. UNCHANGED <<file, mtime>>
  BY DEF Build, env
<1>2. CASE Loads(Files[file])
  <2>1. PICK g, b, c : Goes(p, [proc[p] EXCEPT !.st = "built", !.list = file, !.seen = mtime,
                                   !.grammar = g, !.base = b, !.counters = c])
    <3>1. PICK base \in Readable :
              Goes(p, [proc[p] EXCEPT !.st = "built", !.list = file, !.seen = mtime,
                         !.grammar = Grammar(file), !.base = base,
                         !.counters = LoadCounters(base, clock)])
      BY <1>2, Zenon DEF Build
    <3> QED BY <3>1
  <2> DEFINE r == [proc[p] EXCEPT !.st = "built", !.list = file, !.seen = mtime,
                                   !.grammar = g, !.base = b, !.counters = c]
  <2>2. ListKept(r) /\ r.st = "built"
    BY <1>2 DEF ListInv, ListKept, ProcFields
  <2>3. lock' = lock
    BY <1>2 DEF Build
  <2> HIDE DEF r
  <2> QED BY <1>1, <2>1, <2>2, <2>3, OneProcess DEF r
<1>3. CASE ~Loads(Files[file])
  BY <1>1, <1>3, ProcessGone DEF Build, Gone
<1> QED BY <1>2, <1>3

\* The lock is taken by one live process.
LEMMA ListTakeLock ==
    ASSUME ListInv, NEW p \in Procs, TakeLock(p) PROVE ListInv'
<1>1. UNCHANGED <<file, mtime>> /\ proc[p].st = "built"
  BY DEF TakeLock, env
<1> DEFINE Moved(s) == [proc[p] EXCEPT !.st = s]
<1>2. ASSUME NEW s \in {"opening", "running"}
      PROVE  ListKept(Moved(s)) /\ Moved(s).st = s /\ Moved(s).live = proc[p].live
  BY <1>1 DEF ListInv, ListKept, ProcFields, Started
<1>3. CASE ~proc[p].live /\ Goes(p, Moved("running")) /\ UNCHANGED lock
  <2>1. ListKept(Moved("running")) /\ ~Moved("running").live
    BY <1>2, <1>3
  <2> HIDE DEF Moved
  <2> QED BY <1>1, <1>3, <2>1, OneProcess
<1>4. CASE lock = None /\ Goes(p, Moved("opening")) /\ lock' = p
  <2>1. ListKept(Moved("opening"))
    BY <1>2
  <2> HIDE DEF Moved
  <2> QED BY <1>1, <1>4, <2>1, OneProcess
<1>5. CASE Gone(p, 1, "refused")
  BY <1>1, <1>5, ProcessGone DEF Gone
<1> QED BY <1>3, <1>4, <1>5 DEF TakeLock

\* The capture has opened.
LEMMA ListOpens ==
    ASSUME ListInv, NEW p \in Procs, Opens(p) PROVE ListInv'
<1> DEFINE r == [proc[p] EXCEPT !.st = "running"]
<1>1. ListKept(r) /\ r.live = proc[p].live /\ r.st = "running" /\ proc[p].st = "opening"
  BY DEF ListInv, ListKept, ProcFields, Opens, Started
<1>2. Goes(p, r) /\ UNCHANGED <<file, mtime, lock>>
  BY DEF Opens, env
<1> QED BY <1>1, <1>2, OneProcess DEF ListInv, LockHeld, Up

\* What leaves the phrase list and the life of its process alone.
LEMMA ListFlags ==
    ASSUME ListInv, NEW p \in Procs, Hup(p) \/ Attributed(p) \/ StreamEnds(p) PROVE ListInv'
<1>1. PICK r : /\ Goes(p, r) /\ DOMAIN r = ProcFields
               /\ r.live = proc[p].live /\ r.list = proc[p].list /\ r.seen = proc[p].seen
               /\ r.reading = proc[p].reading /\ r.raced = proc[p].raced /\ r.st = proc[p].st
  <2>1. PICK s : \/ Goes(p, [proc[p] EXCEPT !.hup = TRUE])
                 \/ Goes(p, [proc[p] EXCEPT !.known = TRUE])
                 \/ Goes(p, [proc[p] EXCEPT !.sess = s])
    BY Zenon DEF Hup, Attributed, StreamEnds
  <2> QED BY <2>1 DEF ListInv, ListKept, ProcFields
<1>2. UNCHANGED <<file, mtime, lock>>
  BY DEF Hup, Attributed, StreamEnds
<1>3. ListKept(r)
  BY <1>1, SameList
<1> QED BY <1>1, <1>2, <1>3, OneProcess DEF ListInv, LockHeld, Up

\* A process starts.
LEMMA ListStarts ==
    ASSUME ListInv, UnitStarts \/ HandStarts PROVE ListInv'
<1>1. PICK p \in Procs, live \in BOOLEAN :
          Goes(p, [NoProc EXCEPT !.st = "exec", !.live = live]) \/ Goes(p, [NoProc EXCEPT !.st = "exec"])
  BY DEF UnitStarts, HandStarts, Procs
<1> DEFINE a == [NoProc EXCEPT !.st = "exec", !.live = live]
           b == [NoProc EXCEPT !.st = "exec"]
<1>2. ListKept(NoProc)
  BY NoProcKept DEF ListInv
<1>3. ListKept(a) /\ ListKept(b) /\ a.st = "exec" /\ b.st = "exec"
  BY <1>2 DEF ListKept, ProcFields, Started
<1>4. UNCHANGED <<file, mtime, lock>>
  BY DEF UnitStarts, HandStarts
<1> HIDE DEF a, b
<1> QED BY <1>1, <1>3, <1>4, OneProcess DEF a, b

\* The file is written: who has seen it before has seen less than all writes.
LEMMA ListEdit == ASSUME ListInv, Edit PROVE ListInv'
<1>1. mtime' = mtime + 1 /\ UNCHANGED <<proc, lock>>
  BY DEF Edit
<1> QED BY <1>1 DEF ListInv, ListKept, LockHeld, Up

\* Every step keeps it.
LEMMA ListInvNext == ListInv /\ [Next]_vars => ListInv'
<1> SUFFICES ASSUME ListInv, [Next]_vars PROVE ListInv' OBVIOUS
<1>1. CASE UNCHANGED vars
  BY <1>1 DEF ListInv, ListKept, LockHeld, Up, vars, env
<1>2. ASSUME NEW p \in Procs, Run(p) PROVE ListInv'
  <2>1. CASE CaptureEnds(p)
    BY <2>1, ProcessGone DEF CaptureEnds, Gone
  <2> QED
    BY <1>2, <2>1, ListOnAudio, ListReloadReads, ListHousekeep, ListBuild, ListTakeLock,
       ListOpens DEF Run
<1>3. ASSUME NEW p \in Procs, CaptureFails(p) \/ Stop(p) \/ Crash(p) PROVE ListInv'
  BY <1>3, ProcessGone DEF CaptureFails, Stop, Crash, Gone
<1>4. CASE GivesUp \/ Tick \/ DiskChanges
  BY <1>4 DEF GivesUp, Tick, DiskChanges, ListInv, ListKept, LockHeld, Up, env
<1> QED BY <1>1, <1>2, <1>3, <1>4, ListFlags, ListStarts, ListEdit DEF Next

\* A running copy works with a phrase list that loads, and with the file's
\* content when it takes itself to be up to date, however edits, reloads,
\* signals and restarts fall, unless a write raced the reload.
THEOREM ListFollowsTheFile == Spec => []ListIsTheFile
<1>1. ListInv => ListIsTheFile
  BY DEF ListInv, ListKept, ListIsTheFile, Up, Started
<1> QED BY <1>1, ListInvInit, ListInvNext, PTL DEF Spec

\* Two live copies never run at once, whichever is started, crashes or is
\* restarted in between.
OneLiveCopy == \A p, q \in Procs : proc[p].live /\ Up(p) /\ proc[q].live /\ Up(q) => p = q

\* ... because a live copy that runs holds the lock.
THEOREM LockKeepsOthersOut == Spec => []OneLiveCopy
<1>1. ListInv => OneLiveCopy
  BY DEF ListInv, LockHeld, OneLiveCopy
<1> QED BY <1>1, ListInvInit, ListInvNext, PTL DEF Spec

-----------------------------------------------------------------------------
(* Induction and recursion.                                                *)

\* A family of subsets of a finite set has one that contains no other.
LEMMA LeastSubset ==
    ASSUME NEW S, IsFiniteSet(S), NEW T \in SUBSET (SUBSET S), T # {}
    PROVE  \E s \in T : \A u \in T : u \subseteq s => u = s
<1>1. IsWellFoundedOn(StrictSubsetOrdering(S), SUBSET S)
  BY FS_StrictSubsetOrderingWellFounded, FS_FiniteSubsetsOfFinite
<1>2. PICK s \in T : \A u \in T : ~(<<u, s>> \in StrictSubsetOrdering(S))
  <2> HIDE DEF StrictSubsetOrdering
  <2> QED BY <1>1, WFMin
<1> QED BY <1>2 DEF StrictSubsetOrdering

\* What holds at 0 and is passed on holds up to n.
LEMMA Induct ==
    ASSUME NEW n \in Nat, NEW T, 0 \in T, \A i \in 1 .. n : i - 1 \in T => i \in T
    PROVE  0 .. n \subseteq T
<1> SUFFICES ASSUME NEW k \in 0 .. n, k \notin T PROVE FALSE OBVIOUS
<1> DEFINE D == 0 .. n
           F == {0 .. i : i \in D \ T}
<1>1. IsFiniteSet(D)
  BY FS_Interval
<1>6. F \in SUBSET (SUBSET D) /\ F # {} OBVIOUS
<1>2. PICK s \in F : \A u \in F : u \subseteq s => u = s
  <2> HIDE DEF F, D
  <2> QED BY <1>1, <1>6, LeastSubset
<1>3. PICK i \in (0 .. n) \ T : s = 0 .. i OBVIOUS
<1>4. i \in 1 .. n /\ i - 1 \in (0 .. n) \ T OBVIOUS
<1>5. 0 .. (i - 1) \in F /\ 0 .. (i - 1) \subseteq s /\ i \in s /\ i \notin 0 .. (i - 1)
  BY <1>3, <1>4
<1> QED BY <1>2, <1>5

\* The sizes of the two parts of a finite set.
LEMMA SplitCardinality ==
    ASSUME NEW S, IsFiniteSet(S), NEW T, T \subseteq S
    PROVE  Cardinality(S) = Cardinality(T) + Cardinality(S \ T)
<1> DEFINE rest == S \ T
<1>1. IsFiniteSet(T) /\ IsFiniteSet(rest)
  BY FS_Subset
<1>2. S = T \cup rest /\ T \cap rest = {} OBVIOUS
<1> HIDE DEF rest
<1>3. Cardinality(T \cup rest) = Cardinality(T) + Cardinality(rest) - Cardinality(T \cap rest)
  BY <1>1, FS_Union
<1>4. Cardinality(T) \in Nat /\ Cardinality(rest) \in Nat /\ Cardinality({}) = 0
  BY <1>1, FS_CardinalityType, FS_EmptySet
<1>5. Cardinality(T \cup rest) = Cardinality(S) /\ Cardinality(T \cap rest) = 0
  <2>1. T \cup rest = S /\ T \cap rest = {}
    BY <1>2
  <2> QED BY <1>4, <2>1, Zenon
<1>6. Cardinality(S) = Cardinality(T) + Cardinality(rest)
  BY <1>3, <1>4, <1>5
<1> QED BY <1>6 DEF rest

\* f is the recursion that starts from base and whose i-th step is g.
Recursion(f, n, S, base, g) ==
    f \in [0 .. n -> S] /\ f[0] = base /\ \A i \in 1 .. n : f[i] = g[<<i, f[i - 1]>>]

\* A recursion on 1 .. n whose steps stay in S has a solution.
LEMMA RecExists ==
    ASSUME NEW n \in Nat, NEW S, NEW base \in S, NEW g \in [(1 .. n) \X S -> S]
    PROVE  \E f : Recursion(f, n, S, base, g)
<1> DEFINE Solves(f, k) == Recursion(f, k, S, base, g)
           T == {k \in 0 .. n : \E f : Solves(f, k)}
<1> USE DEF Recursion
<1>1. 0 \in T
  <2> DEFINE z == [i \in 0 .. 0 |-> base]
  <2>1. z \in [0 .. 0 -> S] /\ z[0] = base OBVIOUS
  <2>2. Solves(z, 0)
    BY <2>1
  <2> HIDE DEF z, Solves
  <2> QED BY <2>2
<1>2. ASSUME NEW k \in 1 .. n, k - 1 \in T PROVE k \in T
  <2>1. PICK f : Solves(f, k - 1)
    BY <1>2
  <2> DEFINE h == [i \in 0 .. k |-> IF i = k THEN g[<<k, f[k - 1]>>] ELSE f[i]]
  <2>2. g[<<k, f[k - 1]>>] \in S
    BY <2>1
  <2>3. h \in [0 .. k -> S]
    BY <2>1, <2>2
  <2>4. h[0] = base /\ \A i \in 0 .. k - 1 : h[i] = f[i]
    BY <2>1
  <2>5. ASSUME NEW i \in 1 .. k PROVE h[i] = g[<<i, h[i - 1]>>]
    <3>1. CASE i = k
      <4>1. h[k] = g[<<k, f[k - 1]>>] OBVIOUS
      <4>2. h[k - 1] = f[k - 1]
        BY <2>4
      <4> HIDE DEF h
      <4> QED BY <3>1, <4>1, <4>2
    <3>2. CASE i # k
      <4>1. i \in 1 .. k - 1 /\ i \in 0 .. k - 1 /\ i - 1 \in 0 .. k - 1
        BY <3>2
      <4>2. f[i] = g[<<i, f[i - 1]>>]
        BY <2>1, <4>1
      <4> HIDE DEF h
      <4> QED BY <2>4, <4>1, <4>2
    <3> QED BY <3>1, <3>2
  <2> HIDE DEF h
  <2> QED BY <2>3, <2>4, <2>5
<1> HIDE DEF T
<1>3. 0 .. n \subseteq T
  BY <1>1, <1>2, Induct
<1>4. n \in T
  BY <1>3
<1> QED BY <1>4 DEF T

-----------------------------------------------------------------------------
(* Edit distances and scores are whole numbers.                            *)

\* What words are spelled with.
Letters == {" "} \cup UNION {ToSet(Spelling[w]) : w \in Words}

\* Words written one after the other are a text, and not an empty one.
LEMMA JoinedIsText ==
    ASSUME NEW tokens \in Seq(Words)
    PROVE  Joined(tokens) \in Seq(Letters) /\ (tokens # <<>> => Joined(tokens) # <<>>)
<1> DEFINE n == Len(tokens)
           Step(i, x) == x \o (IF i = 1 THEN <<>> ELSE <<" ">>) \o Spelling[tokens[i]]
           Solves(f) == f = [i \in 0 .. n |-> IF i = 0 THEN <<>> ELSE Step(i, f[i - 1])]
           join == CHOOSE f : Solves(f)
           S == Seq(Letters)
           e == <<>>
           g == [y \in (1 .. n) \X S |-> Step(y[1], y[2])]
<1>1. n \in Nat /\ \A i \in 1 .. n : tokens[i] \in Words OBVIOUS
<1>2. ASSUME NEW w \in Words PROVE Spelling[w] \in S /\ Spelling[w] # <<>>
  <2>1. Spelling[w] \in Seq(ToSet(Spelling[w])) /\ Spelling[w] # <<>>
    BY WordsSpelled
  <2>2. ToSet(Spelling[w]) \subseteq Letters
    BY DEF Letters
  <2> QED BY <2>1, <2>2
<1>3. ASSUME NEW i \in 1 .. n, NEW x \in S PROVE Step(i, x) \in S /\ Step(i, x) # <<>>
  <2> DEFINE m == IF i = 1 THEN <<>> ELSE <<" ">>
  <2>1. " " \in Letters
    BY DEF Letters
  <2>6. <<>> \in Seq(Letters) /\ <<" ">> \in Seq(Letters)
    <3> DEFINE blank == " "
    <3>1. blank \in Letters
      BY <2>1
    <3> HIDE DEF blank
    <3>2. <<>> \in Seq(Letters) /\ <<blank>> \in Seq(Letters)
      BY <3>1
    <3> QED BY <3>2 DEF blank
  <2>2. m \in S
    BY <2>6, Zenon
  <2>3. Spelling[tokens[i]] \in S /\ Spelling[tokens[i]] # <<>>
    BY <1>1, <1>2
  <2>4. Step(i, x) = x \o m \o Spelling[tokens[i]] OBVIOUS
  <2> HIDE DEF Step, S, m
  <2>5. \A a, b \in S : a \o b \in S /\ (b # <<>> => a \o b # <<>>)
    BY DEF S
  <2> QED BY <2>2, <2>3, <2>4, <2>5
<1>4. e \in S OBVIOUS
<1> HIDE DEF Step, S
<1>5. g \in [(1 .. n) \X S -> S]
  BY <1>3
<1>6. PICK h : Recursion(h, n, S, e, g)
  <2> HIDE DEF g, n, e
  <2> QED BY <1>1, <1>4, <1>5, RecExists
<1> HIDE DEF n
<1>7. Solves(h)
  <2>1. ASSUME NEW i \in 1 .. n PROVE h[i] = Step(i, h[i - 1])
    <3>1. i - 1 \in 0 .. n
      BY <1>1
    <3>2. h[i - 1] \in S /\ h[i] = g[<<i, h[i - 1]>>]
      <4> HIDE DEF g
      <4> QED BY <1>6, <3>1 DEF Recursion
    <3> QED BY <3>2
  <2> QED BY <1>1, <1>6, <2>1 DEF Recursion
<1>8. Solves(join)
  BY <1>7
<1> HIDE DEF join
<1> DEFINE T == {i \in 0 .. n : join[i] \in S /\ (i > 0 => join[i] # <<>>)}
<1>9. 0 .. n \subseteq T
  <2>1. 0 \in T
    BY <1>1, <1>4, <1>8
  <2>2. ASSUME NEW i \in 1 .. n, i - 1 \in T PROVE i \in T
    <3>1. join[i] = Step(i, join[i - 1])
      BY <1>1, <1>8
    <3> QED BY <1>1, <1>3, <2>2, <3>1
  <2> HIDE DEF T
  <2> QED BY <1>1, <2>1, <2>2, Induct
<1>10. Joined(tokens) = join[n]
  BY DEF Joined, join, n, Step
<1> QED BY <1>1, <1>9, <1>10 DEF S, n

-----------------------------------------------------------------------------
(* The banded distance of the matcher and the distance it stands for.      *)

\* What a number is worth when all beyond cap is the same.
Capped(x, cap) == Min2(x, cap + 1)

\* A table of edit distances: every cell from its three neighbours.
Steps(d, a, b, i, j) ==
    Min2(d[<<i - 1, j - 1>>] + (IF a[i] = b[j] THEN 0 ELSE 1), Min2(d[<<i - 1, j>>] + 1, d[<<i, j - 1>>] + 1))
DistanceTable(d, a, b) ==
    /\ d \in [(0 .. Len(a)) \X (0 .. Len(b)) -> Nat]
    /\ \A i \in 0 .. Len(a) : d[<<i, 0>>] = i
    /\ \A j \in 0 .. Len(b) : d[<<0, j>>] = j
    /\ \A i \in 1 .. Len(a), j \in 1 .. Len(b) : d[<<i, j>>] = Steps(d, a, b, i, j)

\* What a cell is made of: x above to the left, y above, z to the left.
LEMMA StepsAre ==
    ASSUME NEW d, NEW a, NEW b, NEW i, NEW j, d[<<i - 1, j - 1>>] \in Nat,
           d[<<i - 1, j>>] \in Nat, d[<<i, j - 1>>] \in Nat
    PROVE  LET x == d[<<i - 1, j - 1>>]
               y == d[<<i - 1, j>>]
               z == d[<<i, j - 1>>]
           IN /\ Steps(d, a, b, i, j) \in Nat
              /\ Steps(d, a, b, i, j) \in {x, x + 1, y + 1, z + 1}
              /\ Steps(d, a, b, i, j) <= x + 1
              /\ a[i] = b[j] => Steps(d, a, b, i, j) <= x
<1> DEFINE x == d[<<i - 1, j - 1>>]
           y == d[<<i - 1, j>>]
           z == d[<<i, j - 1>>]
           c == IF a[i] = b[j] THEN 0 ELSE 1
<1>1. x \in Nat /\ y \in Nat /\ z \in Nat /\ Steps(d, a, b, i, j) = Min2(x + c, Min2(y + 1, z + 1))
  BY Zenon DEF Steps
<1>2. c \in {0, 1} /\ (a[i] = b[j] <=> c = 0) OBVIOUS
<1> HIDE DEF x, y, z, c
<1>3. /\ Steps(d, a, b, i, j) \in Nat
      /\ Steps(d, a, b, i, j) \in {x, x + 1, y + 1, z + 1}
      /\ Steps(d, a, b, i, j) <= x + 1
      /\ a[i] = b[j] => Steps(d, a, b, i, j) <= x
  BY <1>1, <1>2 DEF Min2
<1> QED BY <1>1, <1>3 DEF x, y, z

\* r is row i of such a table, of n + 1 columns, below row p.
RowBelow(p, r, a, b, n, i) ==
    /\ r[0] = i
    /\ \A j \in 1 .. n : r[j] = Min2(p[j - 1] + (IF a[i] = b[j] THEN 0 ELSE 1),
                                    Min2(p[j] + 1, r[j - 1] + 1))

\* There is one.
LEMMA NextRowExists ==
    ASSUME NEW a, NEW b, NEW n \in Nat, NEW i \in Nat, NEW p \in [0 .. n -> Nat]
    PROVE  \E r \in [0 .. n -> Nat] : RowBelow(p, r, a, b, n, i)
<1> DEFINE c(j) == IF a[i] = b[j] THEN 0 ELSE 1
           New(j, x) == Min2(p[j - 1] + c(j), Min2(p[j] + 1, x + 1))
           g == [y \in (1 .. n) \X Nat |-> New(y[1], y[2])]
<1>1. ASSUME NEW j \in 1 .. n, NEW x \in Nat PROVE New(j, x) \in Nat
  <2>1. c(j) \in Nat /\ p[j - 1] \in Nat /\ p[j] \in Nat OBVIOUS
  <2> HIDE DEF c
  <2> QED BY <2>1 DEF Min2
<1>2. g \in [(1 .. n) \X Nat -> Nat]
  <2> HIDE DEF New
  <2> QED BY <1>1
<1>3. PICK r : Recursion(r, n, Nat, i, g)
  <2> HIDE DEF g
  <2> QED BY <1>2, RecExists
<1>4. r \in [0 .. n -> Nat] /\ r[0] = i
  BY <1>3 DEF Recursion
<1>5. ASSUME NEW j \in 1 .. n PROVE r[j] = New(j, r[j - 1])
  <2>1. r[j] = g[<<j, r[j - 1]>>] /\ r[j - 1] \in Nat
    <3> HIDE DEF g
    <3> QED BY <1>3, <1>4 DEF Recursion
  <2> HIDE DEF New
  <2> QED BY <2>1
<1>6. RowBelow(p, r, a, b, n, i)
  BY <1>4, <1>5, Zenon DEF RowBelow
<1> QED BY <1>4, <1>6

\* Such a table exists, row by row.
LEMMA TableExists ==
    ASSUME NEW a, NEW b, Len(a) \in Nat, Len(b) \in Nat
    PROVE  \E d : DistanceTable(d, a, b)
<1> DEFINE m == Len(a)
           n == Len(b)
           Row == [0 .. n -> Nat]
           Next1(i, p, r) == RowBelow(p, r, a, b, n, i)
           first == [j \in 0 .. n |-> j]
           g == [y \in (1 .. m) \X Row |-> CHOOSE r \in Row : Next1(y[1], y[2], r)]
<1>1. ASSUME NEW i \in 1 .. m, NEW p \in Row
      PROVE  g[<<i, p>>] \in Row /\ Next1(i, p, g[<<i, p>>])
  <2>1. \E r \in Row : Next1(i, p, r)
    <3>1. n \in Nat /\ i \in Nat /\ p \in [0 .. n -> Nat] OBVIOUS
    <3> HIDE DEF n
    <3> QED BY <3>1, NextRowExists
  <2>2. g[<<i, p>>] = CHOOSE r \in Row : Next1(i, p, r) OBVIOUS
  <2> HIDE DEF g, Row, Next1
  <2> QED BY <2>1, <2>2
<1>2. first \in Row OBVIOUS
<1>3. g \in [(1 .. m) \X Row -> Row]
  <2> DEFINE Pick(y) == CHOOSE r \in Row : Next1(y[1], y[2], r)
  <2>1. \A y \in (1 .. m) \X Row : g[y] \in Row
    <3> SUFFICES ASSUME NEW y \in (1 .. m) \X Row PROVE g[y] \in Row OBVIOUS
    <3> PICK i \in 1 .. m, p \in Row : y = <<i, p>>
      <4> HIDE DEF Row
      <4> QED OBVIOUS
    <3> HIDE DEF g, Row
    <3> QED BY <1>1
  <2>2. g = [y \in (1 .. m) \X Row |-> g[y]]
    <3> DEFINE E(y) == CHOOSE r \in Row : Next1(y[1], y[2], r)
    <3>1. g = [y \in (1 .. m) \X Row |-> E(y)] OBVIOUS
    <3> HIDE DEF g, Row, E
    <3> QED BY <3>1
  <2> HIDE DEF g, Row
  <2> QED BY <2>1, <2>2
<1>4. PICK h : Recursion(h, m, Row, first, g)
  <2> HIDE DEF g, Row, first, m
  <2> QED BY <1>2, <1>3, RecExists DEF m
<1>5. h \in [0 .. m -> Row] /\ h[0] = first
  <2> HIDE DEF g, Row, first
  <2> QED BY <1>4 DEF Recursion
<1>6. ASSUME NEW i \in 1 .. m PROVE Next1(i, h[i - 1], h[i])
  <2>1. h[i] = g[<<i, h[i - 1]>>] /\ h[i - 1] \in Row
    <3> HIDE DEF g, Row, first, Next1
    <3> QED BY <1>4, <1>5 DEF Recursion
  <2> HIDE DEF g, Row, Next1
  <2> QED BY <1>1, <2>1
<1> DEFINE d == [x \in (0 .. m) \X (0 .. n) |-> h[x[1]][x[2]]]
<1>7. \A i \in 0 .. m, j \in 0 .. n : d[<<i, j>>] = h[i][j] OBVIOUS
<1>8. d \in [(0 .. m) \X (0 .. n) -> Nat]
  <2>1. \A x \in (0 .. m) \X (0 .. n) : h[x[1]][x[2]] \in Nat
    BY <1>5
  <2> QED BY <2>1
<1>9. \A i \in 0 .. m : h[i][0] = i
  <2> SUFFICES ASSUME NEW i \in 0 .. m PROVE h[i][0] = i OBVIOUS
  <2>1. CASE i = 0
    BY <2>1, <1>5
  <2>2. CASE i # 0
    BY <2>2, <1>6 DEF RowBelow
  <2> QED BY <2>1, <2>2
<1> HIDE DEF d
<1>10. \A j \in 0 .. n : d[<<0, j>>] = j
  BY <1>5, <1>7
<1>11. ASSUME NEW i \in 1 .. m, NEW j \in 1 .. n PROVE d[<<i, j>>] = Steps(d, a, b, i, j)
  <2>1. h[i][j] = Min2(h[i - 1][j - 1] + (IF a[i] = b[j] THEN 0 ELSE 1),
                       Min2(h[i - 1][j] + 1, h[i][j - 1] + 1))
    BY <1>6 DEF RowBelow
  <2>2. /\ d[<<i, j>>] = h[i][j] /\ d[<<i - 1, j - 1>>] = h[i - 1][j - 1]
        /\ d[<<i - 1, j>>] = h[i - 1][j] /\ d[<<i, j - 1>>] = h[i][j - 1]
    BY <1>7
  <2> QED BY <2>1, <2>2, Zenon DEF Steps
<1> QED
  <2>1. \A i \in 0 .. m : d[<<i, 0>>] = i
    BY <1>7, <1>9
  <2>2. \A i \in 1 .. m, j \in 1 .. n : d[<<i, j>>] = Steps(d, a, b, i, j)
    BY <1>11
  <2>3. DistanceTable(d, a, b)
    BY <1>8, <1>10, <2>1, <2>2, Zenon DEF DistanceTable
  <2> QED BY <2>3

\* The reference is such a table's last cell.
LEMMA EditDistanceTable ==
    ASSUME NEW a, NEW b, Len(a) \in Nat, Len(b) \in Nat
    PROVE  \E d : DistanceTable(d, a, b) /\ EditDistance(a, b) = d[<<Len(a), Len(b)>>]
<1> DEFINE D == (0 .. Len(a)) \X (0 .. Len(b))
           Cell(f, x) ==
               LET i == x[1]
                   j == x[2]
               IN IF i = 0 \/ j = 0 THEN i + j
                  ELSE Min2(f[<<i - 1, j - 1>>] + (IF a[i] = b[j] THEN 0 ELSE 1),
                            Min2(f[<<i - 1, j>>] + 1, f[<<i, j - 1>>] + 1))
           Solves(f) == f = [x \in D |-> Cell(f, x)]
           d == CHOOSE f : Solves(f)
<1>1. PICK h : DistanceTable(h, a, b)
  BY TableExists
<1>2. ASSUME NEW x \in D PROVE h[x] = Cell(h, x)
  <2>1. PICK i \in 0 .. Len(a), j \in 0 .. Len(b) : x = <<i, j>> OBVIOUS
  <2>2. x[1] = i /\ x[2] = j
    BY <2>1
  <2>3. CASE i = 0 \/ j = 0
    <3>1. h[x] = i + j
      BY <1>1, <2>1, <2>3 DEF DistanceTable
    <3> QED BY <2>2, <2>3, <3>1, Zenon
  <2>4. CASE ~(i = 0 \/ j = 0)
    <3>1. i \in 1 .. Len(a) /\ j \in 1 .. Len(b)
      BY <2>1, <2>4
    <3>2. h[x] = Steps(h, a, b, i, j)
      BY <1>1, <2>1, <3>1, Zenon DEF DistanceTable
    <3> QED BY <2>2, <2>4, <3>2, Zenon DEF Steps
  <2> QED BY <2>3, <2>4
<1> HIDE DEF Cell
<1>3. Solves(h)
  <2>1. h = [x \in D |-> h[x]]
    BY <1>1 DEF DistanceTable
  <2> HIDE DEF D
  <2> QED BY <1>2, <2>1
<1>4. Solves(d)
  BY <1>3
<1> HIDE DEF d
<1> DEFINE A == Len(a)
           B == Len(b)
           P(i, j) == d[<<i, j>>] \in Nat
<1>5. \A x \in D : d[x] = Cell(d, x)
  BY <1>4
<1>6. \A i \in 0 .. A : d[<<i, 0>>] = i
  <2> SUFFICES ASSUME NEW i \in 0 .. A PROVE d[<<i, 0>>] = i OBVIOUS
  <2>1. d[<<i, 0>>] = Cell(d, <<i, 0>>)
    BY <1>5
  <2>2. Cell(d, <<i, 0>>) = i + 0
    BY Zenon DEF Cell
  <2> QED BY <2>1, <2>2
<1>7. \A j \in 0 .. B : d[<<0, j>>] = j
  <2> SUFFICES ASSUME NEW j \in 0 .. B PROVE d[<<0, j>>] = j OBVIOUS
  <2>1. d[<<0, j>>] = Cell(d, <<0, j>>)
    BY <1>5
  <2>2. Cell(d, <<0, j>>) = 0 + j
    BY Zenon DEF Cell
  <2> QED BY <2>1, <2>2
<1>8. ASSUME NEW i \in 1 .. A, NEW j \in 1 .. B PROVE d[<<i, j>>] = Steps(d, a, b, i, j)
  <2>1. d[<<i, j>>] = Cell(d, <<i, j>>)
    BY <1>5
  <2>2. ~(i = 0 \/ j = 0) OBVIOUS
  <2> QED BY <2>1, <2>2, Zenon DEF Cell, Steps
<1>9. \A i \in 0 .. A : \A j \in 0 .. B : P(i, j)
  <2> DEFINE T == {i \in 0 .. A : \A j \in 0 .. B : P(i, j)}
  <2>1. 0 \in T
    BY <1>7
  <2>2. ASSUME NEW i \in 1 .. A, i - 1 \in T PROVE i \in T
    <3> DEFINE U == {j \in 0 .. B : P(i, j)}
    <3>1. 0 \in U
      BY <1>6
    <3>2. ASSUME NEW j \in 1 .. B, j - 1 \in U PROVE j \in U
      <4>1. d[<<i - 1, j - 1>>] \in Nat /\ d[<<i - 1, j>>] \in Nat /\ d[<<i, j - 1>>] \in Nat
        BY <2>2, <3>2
      <4>2. Steps(d, a, b, i, j) \in Nat
        BY <4>1, StepsAre
      <4> QED BY <1>8, <4>2
    <3> HIDE DEF U
    <3>3. 0 .. B \subseteq U
      BY <3>1, <3>2, Induct
    <3> QED BY <3>3 DEF U
  <2> HIDE DEF T
  <2>3. 0 .. A \subseteq T
    BY <2>1, <2>2, Induct
  <2> QED BY <2>3 DEF T
<1>10. d \in [D -> Nat]
  <2>1. d = [x \in D |-> d[x]]
    <3> DEFINE E(x) == Cell(d, x)
    <3>1. d = [x \in D |-> E(x)]
      BY <1>4
    <3> HIDE DEF E, D
    <3> QED BY <3>1
  <2>2. \A x \in D : d[x] \in Nat
    BY <1>9
  <2> HIDE DEF D
  <2> QED BY <2>1, <2>2
<1>11. DistanceTable(d, a, b)
  BY <1>6, <1>7, <1>8, <1>10, Zenon DEF DistanceTable
<1>12. EditDistance(a, b) = d[<<Len(a), Len(b)>>]
  BY Zenon DEF EditDistance, d, Cell
<1> QED BY <1>11, <1>12

\* Distance is at least the difference in length, and equal texts have none.
LEMMA TableBounds ==
    ASSUME NEW a, NEW b, Len(a) \in Nat, Len(b) \in Nat, NEW d, DistanceTable(d, a, b)
    PROVE  /\ \A i \in 0 .. Len(a), j \in 0 .. Len(b) :
                  d[<<i, j>>] \in Nat /\ d[<<i, j>>] >= i - j /\ d[<<i, j>>] >= j - i
           /\ a = b => d[<<Len(a), Len(b)>>] = 0
<1> DEFINE A == Len(a)
           B == Len(b)
           P(i, j) == d[<<i, j>>] >= i - j /\ d[<<i, j>>] >= j - i
<1>1. ASSUME NEW i \in 0 .. A, NEW j \in 0 .. B PROVE d[<<i, j>>] \in Nat
  BY DEF DistanceTable
<1>2. \A i \in 0 .. A : \A j \in 0 .. B : P(i, j)
  <2> DEFINE T == {i \in 0 .. A : \A j \in 0 .. B : P(i, j)}
  <2>1. 0 \in T
    BY DEF DistanceTable
  <2>2. ASSUME NEW i \in 1 .. A, i - 1 \in T PROVE i \in T
    <3> DEFINE U == {j \in 0 .. B : P(i, j)}
    <3>1. 0 \in U
      BY DEF DistanceTable
    <3>2. ASSUME NEW j \in 1 .. B, j - 1 \in U PROVE j \in U
      <4>1. d[<<i - 1, j - 1>>] \in Nat /\ d[<<i - 1, j>>] \in Nat /\ d[<<i, j - 1>>] \in Nat
        BY <1>1
      <4>2. P(i - 1, j - 1) /\ P(i - 1, j) /\ P(i, j - 1)
        BY <2>2, <3>2
      <4>3. d[<<i, j>>] = Steps(d, a, b, i, j)
        BY DEF DistanceTable
      <4> DEFINE s == Steps(d, a, b, i, j)
                 x == d[<<i - 1, j - 1>>]
                 y == d[<<i - 1, j>>]
                 z == d[<<i, j - 1>>]
      <4>4. s \in Nat /\ s \in {x, x + 1, y + 1, z + 1}
        BY <4>1, StepsAre
      <4>5. /\ x \in Nat /\ x >= (i - 1) - (j - 1) /\ x >= (j - 1) - (i - 1)
            /\ y \in Nat /\ y >= (i - 1) - j /\ y >= j - (i - 1)
            /\ z \in Nat /\ z >= i - (j - 1) /\ z >= (j - 1) - i
        BY <4>1, <4>2
      <4> HIDE DEF s, x, y, z
      <4>6. s >= i - j /\ s >= j - i
        BY <4>4, <4>5
      <4> QED BY <4>3, <4>6 DEF s
    <3> HIDE DEF U
    <3>3. 0 .. B \subseteq U
      BY <3>1, <3>2, Induct
    <3> QED BY <3>3 DEF U
  <2> HIDE DEF T
  <2>3. 0 .. A \subseteq T
    BY <2>1, <2>2, Induct
  <2> QED BY <2>3 DEF T
<1>3. ASSUME a = b PROVE d[<<A, B>>] = 0
  <2> DEFINE T == {i \in 0 .. A : d[<<i, i>>] = 0}
  <2>1. 0 \in T
    BY DEF DistanceTable
  <2>2. ASSUME NEW i \in 1 .. A, i - 1 \in T PROVE i \in T
    <3>1. i \in 1 .. B /\ a[i] = b[i]
      BY <1>3
    <3>2. d[<<i - 1, i - 1>>] = 0 /\ d[<<i - 1, i>>] \in Nat /\ d[<<i, i - 1>>] \in Nat
      BY <1>1, <2>2, <3>1
    <3>3. d[<<i, i>>] = Steps(d, a, b, i, i)
      BY <3>1 DEF DistanceTable
    <3>4. Steps(d, a, b, i, i) \in Nat /\ Steps(d, a, b, i, i) <= d[<<i - 1, i - 1>>]
      BY <3>1, <3>2, StepsAre
    <3> QED BY <3>1, <3>2, <3>3, <3>4
  <2> HIDE DEF T
  <2>3. 0 .. A \subseteq T
    BY <2>1, <2>2, Induct
  <2> QED BY <1>3, <2>3 DEF T
<1> QED BY <1>1, <1>2, <1>3

\* A row that is everywhere further than cap is never made good.
LEMMA FarStaysFar ==
    ASSUME NEW a, NEW b, Len(a) \in Nat, Len(b) \in Nat, NEW d, DistanceTable(d, a, b),
           NEW cap \in Nat, NEW i \in 1 .. Len(a),
           \A j \in 0 .. Len(b) : d[<<i - 1, j>>] > cap
    PROVE  \A j \in 0 .. Len(b) : d[<<i, j>>] > cap
<1> DEFINE B == Len(b)
           U == {j \in 0 .. B : d[<<i, j>>] > cap}
<1>1. 0 \in U
  <2>1. d[<<i - 1, 0>>] = i - 1 /\ d[<<i, 0>>] = i
    BY DEF DistanceTable
  <2> QED BY <2>1
<1>2. ASSUME NEW j \in 1 .. B, j - 1 \in U PROVE j \in U
  <2>1. d[<<i - 1, j - 1>>] \in Nat /\ d[<<i - 1, j>>] \in Nat /\ d[<<i, j - 1>>] \in Nat
    <3>1. i - 1 \in 0 .. Len(a) /\ i \in 0 .. Len(a) /\ j - 1 \in 0 .. B /\ j \in 0 .. B
      OBVIOUS
    <3> QED BY <3>1 DEF DistanceTable
  <2>2. d[<<i - 1, j - 1>>] > cap /\ d[<<i - 1, j>>] > cap /\ d[<<i, j - 1>>] > cap
    BY <1>2
  <2>3. d[<<i, j>>] = Steps(d, a, b, i, j)
    BY DEF DistanceTable
  <2> DEFINE s == Steps(d, a, b, i, j)
  <2>4. s \in {d[<<i - 1, j - 1>>], d[<<i - 1, j - 1>>] + 1, d[<<i - 1, j>>] + 1,
               d[<<i, j - 1>>] + 1}
    BY <2>1, StepsAre
  <2> HIDE DEF s
  <2>5. s > cap
    BY <2>1, <2>2, <2>4
  <2> QED BY <2>3, <2>5 DEF s
<1> HIDE DEF U
<1>3. 0 .. B \subseteq U
  BY <1>1, <1>2, Induct
<1> QED BY <1>3 DEF U

\* What BandRow writes at column j of row r: closed at the edges of the band,
\* from the neighbours within.
BandCell(r, prev, a, b, cap, i, j) ==
    LET lo == Max2(1, i - cap)
        hi == Min2(Len(b), i + cap)
    IN /\ j \in {lo - 1, hi + 1} => r[j + 1] = cap + 1
       /\ j \in lo .. hi =>
            r[j + 1] = Min2(prev[j] + (IF a[i] = b[j] THEN 0 ELSE 1), Min2(prev[j + 1], r[j]) + 1)

\* r is the buffer after row i.
RowDone(r, prev, a, b, cap, i) ==
    /\ r \in [1 .. Len(b) + 1 -> Int]
    /\ r[1] = i
    /\ \A j \in 1 .. Len(b) : BandCell(r, prev, a, b, cap, i, j)

\* The row is what its cells say.
LEMMA BandRowCells ==
    ASSUME NEW a, NEW b, Len(b) \in Nat, NEW cap \in Nat, NEW i \in Nat,
           NEW prev \in [1 .. Len(b) + 1 -> Int], NEW old \in [1 .. Len(b) + 1 -> Int]
    PROVE  RowDone(BandRow(a, b, cap, i, prev, old), prev, a, b, cap, i)
<1> DEFINE r == BandRow(a, b, cap, i, prev, old)
           n == Len(b)
           lo == Max2(1, i - cap)
           hi == Min2(Len(b), i + cap)
           c(j) == IF a[i] = b[j] THEN 0 ELSE 1
           m(j, x) == Min2(prev[j] + c(j), Min2(prev[j + 1], x[j]) + 1)
           Cell(j, before) ==
               CASE j = 0 -> i
                 [] j > 0 /\ j \in {lo - 1, hi + 1} -> cap + 1
                 [] j \in lo .. hi ->
                      Min2(prev[j] + (IF a[i] = b[j] THEN 0 ELSE 1),
                           Min2(prev[j + 1], before[j]) + 1)
                 [] OTHER -> old[j + 1]
           Step(j, x) == Append(x, Cell(j, x))
           Solves(f) == f = [j \in 0 .. n |-> Step(j, IF j = 0 THEN <<>> ELSE f[j - 1])]
           row == CHOOSE f : Solves(f)
           Row(j) == {x \in Seq(Int) : Len(x) = j + 1}
           S == Seq(Int)
           e == Step(0, <<>>)
           g == [y \in (1 .. n) \X S |-> IF y[2] \in Row(y[1] - 1) THEN Step(y[1], y[2]) ELSE e]
<1> HIDE DEF r
<1>1. n \in Nat /\ lo \in Int /\ hi \in Int /\ lo >= 1 /\ hi <= n
  BY DEF Max2, Min2
<1>2. e = <<i>>
  <2>1. Cell(0, <<>>) = i
    <3> HIDE DEF lo, hi
    <3>1. ~(0 > 0) OBVIOUS
    <3>2. 0 \notin lo .. hi
      BY <1>1
    <3> QED BY <3>1, <3>2, Zenon
  <2> HIDE DEF Cell
  <2>2. e = Append(<<>>, i)
    BY <2>1
  <2> QED BY <2>2
<1>3. e \in Row(0) /\ e[1] = i
  BY <1>2
<1>4. ASSUME NEW j \in 1 .. n, NEW x
      PROVE  /\ j \in {lo - 1, hi + 1} => Cell(j, x) = cap + 1
             /\ j \in lo .. hi => Cell(j, x) = m(j, x)
             /\ Cell(j, x) \in {cap + 1, m(j, x), old[j + 1]}
  <2>1. j > 0 /\ ~(j = 0) /\ (j \in lo .. hi <=> j \in Int /\ lo <= j /\ j <= hi)
    BY <1>1
  <2> HIDE DEF lo, hi
  <2>2. CASE j \in {lo - 1, hi + 1}
    <3>1. j \notin lo .. hi
      BY <1>1, <2>1, <2>2
    <3>2. Cell(j, x) = cap + 1
      BY <2>1, <2>2, <3>1, Zenon
    <3> HIDE DEF Cell
    <3> QED BY <2>2, <3>1, <3>2
  <2>3. CASE j \notin {lo - 1, hi + 1} /\ j \in lo .. hi
    <3>1. Cell(j, x) = m(j, x)
      BY <2>1, <2>3, Zenon
    <3> HIDE DEF Cell, m
    <3> QED BY <2>3, <3>1
  <2>4. CASE j \notin {lo - 1, hi + 1} /\ j \notin lo .. hi
    <3>1. Cell(j, x) = old[j + 1]
      BY <2>1, <2>4, Zenon
    <3> HIDE DEF Cell, m
    <3> QED BY <2>4, <3>1
  <2> QED BY <2>2, <2>3, <2>4
<1> HIDE DEF Cell, lo, hi
<1>5. ASSUME NEW j \in 1 .. n, NEW x \in Row(j - 1) PROVE Cell(j, x) \in Int
  <2>1. x[j] \in Int /\ prev[j] \in Int /\ prev[j + 1] \in Int /\ old[j + 1] \in Int
    <3>1. j \in 1 .. n + 1 /\ j + 1 \in 1 .. n + 1
      BY <1>1
    <3>2. x \in Seq(Int) /\ Len(x) = j OBVIOUS
    <3>3. prev[j] \in Int /\ prev[j + 1] \in Int /\ old[j + 1] \in Int
      BY <3>1
    <3>4. x[j] \in Int
      BY <3>2
    <3> QED BY <3>3, <3>4
  <2>2. c(j) \in Int OBVIOUS
  <2>3. m(j, x) \in Int
    <3> HIDE DEF c
    <3>1. \A u, v \in Int : Min2(u, v) \in Int
      BY DEF Min2
    <3>2. Min2(prev[j + 1], x[j]) \in Int
      BY <2>1, <3>1
    <3>3. prev[j] + c(j) \in Int /\ Min2(prev[j + 1], x[j]) + 1 \in Int
      BY <2>1, <2>2, <3>2
    <3> QED BY <3>1, <3>3
  <2> HIDE DEF m
  <2> QED BY <1>4, <2>1, <2>3
<1>6. ASSUME NEW j \in 1 .. n, NEW x \in Row(j - 1) PROVE Step(j, x) \in Row(j)
  BY <1>5
<1>7. g \in [(1 .. n) \X S -> S] /\ e \in S
  <2> HIDE DEF e, Step
  <2> QED BY <1>1, <1>3, <1>6
<1>8. PICK h : Recursion(h, n, S, e, g)
  <2> HIDE DEF n, S, e, g
  <2> QED BY <1>1, <1>7, RecExists
<1> HIDE DEF Step, e, n
<1>9. \A j \in 0 .. n : h[j] \in Row(j)
  <2> DEFINE T == {j \in 0 .. n : h[j] \in Row(j)}
  <2>1. 0 \in T
    BY <1>1, <1>3, <1>8 DEF Recursion
  <2>2. ASSUME NEW j \in 1 .. n, j - 1 \in T PROVE j \in T
    <3>1. h[j] = g[<<j, h[j - 1]>>]
      BY <1>8 DEF Recursion
    <3>2. h[j - 1] \in Row(j - 1) /\ h[j - 1] \in S
      BY <2>2
    <3>3. h[j] = Step(j, h[j - 1])
      BY <3>1, <3>2
    <3> QED BY <1>6, <3>2, <3>3
  <2> HIDE DEF T
  <2>3. 0 .. n \subseteq T
    BY <1>1, <2>1, <2>2, Induct
  <2> QED BY <2>3 DEF T
<1>10. \A j \in 1 .. n : h[j] = Step(j, h[j - 1])
  <2> SUFFICES ASSUME NEW j \in 1 .. n PROVE h[j] = Step(j, h[j - 1]) OBVIOUS
  <2>1. h[j] = g[<<j, h[j - 1]>>]
    BY <1>8 DEF Recursion
  <2>2. h[j - 1] \in Row(j - 1) /\ h[j - 1] \in S
    BY <1>1, <1>9
  <2> QED BY <2>1, <2>2
<1>11. Solves(h)
  BY <1>1, <1>8, <1>10 DEF Recursion, e
<1>12. Solves(row)
  BY <1>11
<1> HIDE DEF row
<1> DEFINE Good(k, x) == /\ k \in {lo - 1, hi + 1} => x[k + 1] = cap + 1
                         /\ k \in lo .. hi => x[k + 1] = m(k, x)
<1>13. row[n] \in Row(n) /\ row[n][1] = i /\ \A k \in 1 .. n : Good(k, row[n])
  <2> DEFINE T == {j \in 0 .. n : row[j] \in Row(j) /\ row[j][1] = i
                                  /\ \A k \in 1 .. j : Good(k, row[j])}
  <2>1. row[0] = e /\ \A j \in 1 .. n : row[j] = Step(j, row[j - 1])
    BY <1>1, <1>12 DEF e
  <2>2. 0 \in T
    BY <1>1, <1>3, <2>1
  <2>3. ASSUME NEW j \in 1 .. n, j - 1 \in T PROVE j \in T
    <3> DEFINE x == row[j - 1]
    <3>1. x \in Row(j - 1) /\ x[1] = i /\ \A k \in 1 .. j - 1 : Good(k, x)
      BY <2>3
    <3>2. row[j] = Append(x, Cell(j, x)) /\ row[j] \in Row(j)
      <4>1. row[j] = Step(j, x)
        BY <2>1
      <4> HIDE DEF Row, x
      <4> QED BY <1>6, <3>1, <4>1 DEF Step
    <3> HIDE DEF x
    <3>3. Len(x) = j /\ x \in Seq(Int)
      BY <3>1
    <3>4. /\ \A k \in 1 .. j : row[j][k] = x[k]
          /\ row[j][j + 1] = Cell(j, x)
      BY <3>2, <3>3
    <3>5. row[j][1] = i
      BY <3>1, <3>4
    <3>6. ASSUME NEW k \in 1 .. j PROVE Good(k, row[j])
      <4>1. row[j][k] = x[k]
        BY <3>4
      <4>2. m(k, row[j]) = m(k, x)
        BY <4>1
      <4> HIDE DEF m
      <4>3. CASE k = j
        BY <1>4, <3>4, <4>2, <4>3
      <4>4. CASE k # j
        <5>1. k \in 1 .. j - 1 /\ k + 1 \in 1 .. j
          BY <4>4
        <5> QED BY <3>1, <3>4, <4>2, <5>1
      <4> QED BY <4>3, <4>4
    <3> HIDE DEF Good, Row, x
    <3>7. j \in 0 .. n
      BY <1>1
    <3> QED BY <3>2, <3>5, <3>6, <3>7
  <2> HIDE DEF T
  <2>4. 0 .. n \subseteq T
    BY <1>1, <2>2, <2>3, Induct
  <2>5. n \in T
    BY <1>1, <2>4
  <2> HIDE DEF Good
  <2> QED BY <2>5 DEF T
<1>14. r = row[n]
  BY Zenon DEF r, BandRow, row, n, Step, Cell, lo, hi
<1>15. r \in [1 .. Len(b) + 1 -> Int]
  BY <1>1, <1>13, <1>14 DEF n
<1>16. ASSUME NEW j \in 1 .. Len(b) PROVE BandCell(r, prev, a, b, cap, i, j)
  <2>1. Good(j, r)
    <3>1. j \in 1 .. n
      BY DEF n
    <3> HIDE DEF Good
    <3> QED BY <1>13, <1>14, <3>1
  <2> QED BY <2>1, Zenon DEF BandCell, lo, hi
<1> QED BY <1>13, <1>14, <1>15, <1>16 DEF RowDone, r

\* r is as good as row i of table d: within the band, and next to it, its cells
\* are the table's, as far as the cap.
BandHolds(r, d, n, cap, i) ==
    \A j \in 0 .. n : i - j <= cap + 1 /\ j - i <= cap + 1
                        => Capped(r[j + 1], cap) = Capped(d[<<i, j>>], cap)

\* A row computed from one that is as good as the table's is.
LEMMA BandHoldsOn ==
    ASSUME NEW a, NEW b, Len(a) \in Nat, Len(b) \in Nat \ {0}, NEW cap \in Nat,
           Len(a) - Len(b) <= cap, NEW i \in 1 .. Len(a),
           NEW d, DistanceTable(d, a, b),
           NEW prev \in [1 .. Len(b) + 1 -> Int], NEW old \in [1 .. Len(b) + 1 -> Int],
           BandHolds(prev, d, Len(b), cap, i - 1)
    PROVE  BandHolds(BandRow(a, b, cap, i, prev, old), d, Len(b), cap, i)
<1> DEFINE n == Len(b)
           r == BandRow(a, b, cap, i, prev, old)
           Good(j) == i - j <= cap + 1 /\ j - i <= cap + 1
                        => Capped(r[j + 1], cap) = Capped(d[<<i, j>>], cap)
           T == {j \in 0 .. n : Good(j)}
<1>1. /\ r \in [1 .. n + 1 -> Int] /\ r[1] = i
      /\ \A j \in 1 .. n : BandCell(r, prev, a, b, cap, i, j)
  <2>1. r = BandRow(a, b, cap, i, prev, old) /\ i \in Nat /\ Len(b) \in Nat OBVIOUS
  <2> HIDE DEF T
  <2>2. RowDone(BandRow(a, b, cap, i, prev, old), prev, a, b, cap, i)
    BY <2>1, BandRowCells
  <2>3. RowDone(r, prev, a, b, cap, i)
    BY <2>2
  <2> HIDE DEF r
  <2> QED BY <2>1, <2>3 DEF RowDone
<1> HIDE DEF r
<1>2. 0 \in T
  BY <1>1 DEF DistanceTable
<1>3. ASSUME NEW j \in 1 .. n, j - 1 \in T, i - j <= cap + 1, j - i <= cap + 1
      PROVE  Capped(r[j + 1], cap) = Capped(d[<<i, j>>], cap)
  <2> DEFINE lo == Max2(1, i - cap)
             hi == Min2(Len(b), i + cap)
  <2>1. \/ j \in {lo - 1, hi + 1} /\ (i - j = cap + 1 \/ j - i = cap + 1)
        \/ j \in lo .. hi /\ i - j <= cap /\ j - i <= cap
    <3> HIDE DEF T
    <3>1. i \in Nat /\ j \in Nat /\ n \in Nat /\ 1 <= i /\ 1 <= j /\ j <= n OBVIOUS
    <3> HIDE DEF n
    <3>2. CASE i - j = cap + 1
      <4>1. lo = i - cap
        BY <3>1, <3>2 DEF Max2
      <4> QED BY <3>1, <3>2, <4>1
    <3>3. CASE j - i = cap + 1
      <4>1. hi = i + cap
        BY <3>1, <3>3 DEF Min2, n
      <4> QED BY <3>1, <3>3, <4>1
    <3>4. CASE i - j <= cap /\ j - i <= cap
      <4>1. lo \in Int /\ lo <= j /\ hi \in Int /\ j <= hi
        BY <3>1, <3>4 DEF Max2, Min2, n
      <4> QED BY <3>1, <3>4, <4>1
    <3> QED BY <1>3, <3>1, <3>2, <3>3, <3>4
  <2>2. BandCell(r, prev, a, b, cap, i, j)
    BY <1>1
  <2>3. CASE j \in {lo - 1, hi + 1} /\ (i - j = cap + 1 \/ j - i = cap + 1)
    <3>1. r[j + 1] = cap + 1
      BY <2>2, <2>3 DEF BandCell
    <3>2. d[<<i, j>>] \in Nat /\ d[<<i, j>>] >= i - j /\ d[<<i, j>>] >= j - i
      <4>1. i \in 0 .. Len(a) /\ j \in 0 .. Len(b) OBVIOUS
      <4> QED BY <4>1, TableBounds
    <3> QED BY <2>3, <3>1, <3>2 DEF Capped, Min2
  <2>4. CASE j \in lo .. hi /\ i - j <= cap /\ j - i <= cap
    <3> DEFINE x == d[<<i - 1, j - 1>>]
               y == d[<<i - 1, j>>]
               z == d[<<i, j - 1>>]
               u == prev[j]
               v == prev[j + 1]
               w == r[j]
               c == IF a[i] = b[j] THEN 0 ELSE 1
    <3>1. r[j + 1] = Min2(u + c, Min2(v, w) + 1)
      BY <2>2, <2>4, Zenon DEF BandCell
    <3>2. d[<<i, j>>] = Min2(x + c, Min2(y + 1, z + 1))
      <4>1. d[<<i, j>>] = Steps(d, a, b, i, j)
        BY DEF DistanceTable
      <4> QED BY <4>1, Zenon DEF Steps
    <3>3. c \in {0, 1} OBVIOUS
    <3>4. x \in Nat /\ y \in Nat /\ z \in Nat
      <4>1. i - 1 \in 0 .. Len(a) /\ i \in 0 .. Len(a) /\ j - 1 \in 0 .. n /\ j \in 0 .. n
        OBVIOUS
      <4> QED BY <4>1 DEF DistanceTable
    <3>5. u \in Int /\ v \in Int /\ w \in Int
      <4>1. j \in 1 .. n + 1 /\ j + 1 \in 1 .. n + 1 OBVIOUS
      <4>2. prev[j] \in Int /\ prev[j + 1] \in Int
        BY <4>1
      <4> QED BY <1>1, <4>1, <4>2
    <3>6. Capped(u, cap) = Capped(x, cap)
      <4>1. j - 1 \in 0 .. n /\ (i - 1) - (j - 1) <= cap + 1 /\ (j - 1) - (i - 1) <= cap + 1
            /\ (j - 1) + 1 = j
        BY <2>4
      <4> QED BY <4>1 DEF BandHolds
    <3>7. Capped(v, cap) = Capped(y, cap)
      <4>1. j \in 0 .. n /\ (i - 1) - j <= cap + 1 /\ j - (i - 1) <= cap + 1
        BY <2>4
      <4> QED BY <4>1 DEF BandHolds
    <3>8. Capped(w, cap) = Capped(z, cap)
      <4>1. i - (j - 1) <= cap + 1 /\ (j - 1) - i <= cap + 1 /\ (j - 1) + 1 = j
        BY <2>4
      <4>2. Good(j - 1)
        BY <1>3
      <4> QED BY <4>1, <4>2
    <3> HIDE DEF x, y, z, u, v, w, c
    <3>9. Capped(Min2(u + c, Min2(v, w) + 1), cap) = Capped(Min2(x + c, Min2(y + 1, z + 1)), cap)
      BY <3>3, <3>4, <3>5, <3>6, <3>7, <3>8 DEF Capped, Min2
    <3> QED BY <3>1, <3>2, <3>9
  <2> QED BY <2>1, <2>3, <2>4
<1>4. ASSUME NEW j \in 1 .. n, j - 1 \in T PROVE j \in T
  BY <1>3, <1>4
<1> HIDE DEF T
<1>5. 0 .. n \subseteq T
  BY <1>2, <1>4, Induct
<1> QED BY <1>5 DEF BandHolds, T, r

\* If all of the band is beyond the cap, so is the whole row: what is left of
\* the band is, and column 0 would have made column 1 near.
LEMMA FarBandIsFar ==
    ASSUME NEW a, NEW b, Len(a) \in Nat, Len(b) \in Nat \ {0}, NEW cap \in Nat,
           NEW i \in 1 .. Len(a), NEW d, DistanceTable(d, a, b), NEW r \in [1 .. Len(b) + 1 -> Int],
           BandHolds(r, d, Len(b), cap, i),
           \A j \in Max2(1, i - cap) .. Min2(Len(b), i + cap) : r[j + 1] > cap
    PROVE  \A j \in 0 .. Len(b) : d[<<i, j>>] > cap
<1> DEFINE n == Len(b)
<1>1. \A j \in 0 .. n : d[<<i, j>>] \in Nat /\ d[<<i, j>>] >= i - j /\ d[<<i, j>>] >= j - i
  <2>1. i \in 0 .. Len(a) OBVIOUS
  <2> QED BY <2>1, TableBounds
<1>2. ASSUME NEW j \in 1 .. n PROVE d[<<i, j>>] > cap
  <2>1. CASE i - j <= cap /\ j - i <= cap
    <3>1. j \in Max2(1, i - cap) .. Min2(Len(b), i + cap)
      BY <2>1 DEF Max2, Min2
    <3>2. r[j + 1] > cap /\ r[j + 1] \in Int
      BY <3>1
    <3>3. Capped(r[j + 1], cap) = Capped(d[<<i, j>>], cap)
      BY <2>1 DEF BandHolds
    <3> QED BY <1>1, <3>2, <3>3 DEF Capped, Min2
  <2>2. CASE ~(i - j <= cap /\ j - i <= cap)
    BY <1>1, <2>2
  <2> QED BY <2>1, <2>2
<1>3. d[<<i, 0>>] > cap
  <2>1. d[<<i, 0>>] = i /\ d[<<i - 1, 0>>] = i - 1
    BY DEF DistanceTable
  <2>2. d[<<i, 1>>] = Steps(d, a, b, i, 1)
    BY DEF DistanceTable
  <2>3. d[<<i, 1>>] <= i
    <3>1. i - 1 \in 0 .. Len(a) /\ i \in 0 .. Len(a) /\ 1 - 1 \in 0 .. n /\ 1 \in 0 .. n /\ 1 - 1 = 0
      OBVIOUS
    <3>2. d[<<i - 1, 1 - 1>>] \in Nat /\ d[<<i - 1, 1>>] \in Nat /\ d[<<i, 1 - 1>>] \in Nat
      BY <3>1 DEF DistanceTable
    <3>3. Steps(d, a, b, i, 1) <= d[<<i - 1, 1 - 1>>] + 1
      BY <3>2, StepsAre
    <3> QED BY <2>1, <2>2, <3>1, <3>3
  <2>4. d[<<i, 1>>] > cap
    BY <1>2
  <2>5. d[<<i, 1>>] \in Nat
    BY <1>1
  <2> QED BY <2>1, <2>3, <2>4, <2>5
<1> QED BY <1>2, <1>3

\* The banded distance, computed in two rows used in turn and given up early,
\* is the edit distance as far as the cap, for any two texts.
THEOREM LevenshteinIsDistance ==
    ASSUME NEW L, NEW a \in Seq(L), NEW b \in Seq(L), NEW cap \in Nat
    PROVE  /\ EditDistance(a, b) \in Nat
           /\ Levenshtein(a, b, cap) = Min2(EditDistance(a, b), Far(cap))
<1> DEFINE width == Len(b) + 1
           n == Len(a)
           start == [prev |-> [j \in 1 .. width |-> j - 1], old |-> [j \in 1 .. width |-> 0],
                     near |-> TRUE]
           Near(i, row) ==
               \E j \in Max2(1, i - cap) .. Min2(Len(b), i + cap) : row[j + 1] <= cap
           Step(i, r) ==
               IF ~r.near THEN r
               ELSE LET row == BandRow(a, b, cap, i, r.prev, r.old)
                    IN [prev |-> row, old |-> r.prev, near |-> Near(i, row)]
           Solves(f) == f = [i \in 0 .. n |-> IF i = 0 THEN start ELSE Step(i, f[i - 1])]
           rows == CHOOSE f : Solves(f)
           Row == [1 .. width -> Int]
           S == [prev : Row, old : Row, near : BOOLEAN]
           g == [y \in (1 .. n) \X S |-> Step(y[1], y[2])]
<1>1. n \in Nat /\ width \in Nat /\ width >= 1 /\ Len(b) \in Nat OBVIOUS
<1>2. start \in S OBVIOUS
<1>3. ASSUME NEW i \in 1 .. n, NEW r \in S PROVE Step(i, r) \in S
  <2> DEFINE row == BandRow(a, b, cap, i, r.prev, r.old)
  <2>1. row \in Row /\ r.prev \in Row
    <3>1. r.prev \in [1 .. Len(b) + 1 -> Int] /\ r.old \in [1 .. Len(b) + 1 -> Int] /\ i \in Nat
      OBVIOUS
    <3>2. row = BandRow(a, b, cap, i, r.prev, r.old) /\ Len(b) \in Nat OBVIOUS
    <3>3. r.prev \in Row OBVIOUS
    <3> HIDE DEF row
    <3>4. row \in Row
      BY <3>1, <3>2, BandRowCells DEF RowDone
    <3> QED BY <3>3, <3>4
  <2>2. Near(i, row) \in BOOLEAN OBVIOUS
  <2> HIDE DEF row, Near, Row
  <2>3. [prev |-> row, old |-> r.prev, near |-> Near(i, row)] \in S
    BY <2>1, <2>2
  <2> QED BY <2>3 DEF row
<1> HIDE DEF Step, start
<1>4. g \in [(1 .. n) \X S -> S]
  <2> HIDE DEF S
  <2> QED BY <1>3
<1>5. PICK h : Recursion(h, n, S, start, g)
  <2> HIDE DEF n, S, g
  <2> QED BY <1>1, <1>2, <1>4, RecExists
<1> HIDE DEF n, S
<1>6. \A i \in 1 .. n : h[i] = Step(i, h[i - 1])
  <2> SUFFICES ASSUME NEW i \in 1 .. n PROVE h[i] = Step(i, h[i - 1]) OBVIOUS
  <2>1. i - 1 \in 0 .. n
    BY <1>1
  <2>2. h[i - 1] \in S /\ h[i] = g[<<i, h[i - 1]>>]
    <3> HIDE DEF g
    <3> QED BY <1>5, <2>1 DEF Recursion
  <2> QED BY <2>2
<1>7. Solves(h)
  BY <1>1, <1>5, <1>6 DEF Recursion
<1>8. Solves(rows)
  BY <1>7
<1> HIDE DEF rows
<1>9. PICK d : DistanceTable(d, a, b) /\ EditDistance(a, b) = d[<<Len(a), Len(b)>>]
  BY <1>1, EditDistanceTable DEF n
<1> DEFINE D == d[<<n, Len(b)>>]
<1>10. D \in Nat /\ D >= n - Len(b) /\ D >= Len(b) - n /\ (a = b => D = 0)
  <2>1. Len(a) \in 0 .. Len(a) /\ Len(b) \in 0 .. Len(b)
    BY <1>1 DEF n
  <2> QED BY <1>1, <1>9, <2>1, TableBounds DEF n
<1>11. ASSUME Len(b) # 0, n - Len(b) <= cap, Len(b) - n <= cap
       PROVE  /\ rows[n] \in S
              /\ rows[n].near => Capped(rows[n].prev[width], cap) = Capped(D, cap)
              /\ ~rows[n].near => D > cap
  <2> DEFINE Inv(i) == /\ rows[i] \in S
                       /\ rows[i].near => BandHolds(rows[i].prev, d, Len(b), cap, i)
                       /\ ~rows[i].near => \A j \in 0 .. Len(b) : d[<<i, j>>] > cap
             T == {i \in 0 .. n : Inv(i)}
  <2>1. rows[0] = start /\ \A i \in 1 .. n : rows[i] = Step(i, rows[i - 1])
    BY <1>1, <1>8
  <2>2. 0 \in T
    <3>1. start.near /\ \A j \in 0 .. Len(b) : start.prev[j + 1] = j
      BY <1>1 DEF start
    <3>2. BandHolds(start.prev, d, Len(b), cap, 0)
      BY <1>9, <3>1 DEF BandHolds, DistanceTable
    <3> QED BY <1>1, <1>2, <2>1, <3>1, <3>2
  <2>3. ASSUME NEW i \in 1 .. n, i - 1 \in T PROVE i \in T
    <3> DEFINE r == rows[i - 1]
               row == BandRow(a, b, cap, i, r.prev, r.old)
    <3>1. /\ r \in S
          /\ r.near => BandHolds(r.prev, d, Len(b), cap, i - 1)
          /\ ~r.near => \A j \in 0 .. Len(b) : d[<<i - 1, j>>] > cap
      BY <2>3
    <3>2. rows[i] = Step(i, r) /\ rows[i] \in S
      BY <1>3, <2>1, <3>1
    <3>3. CASE ~r.near
      <4>1. rows[i] = r
        BY <3>2, <3>3, Zenon DEF Step
      <4>2. \A j \in 0 .. Len(b) : d[<<i, j>>] > cap
        BY <1>1, <1>9, <3>1, <3>3, FarStaysFar DEF n
      <4> HIDE DEF r
      <4> QED BY <1>1, <3>2, <3>3, <4>1, <4>2
    <3>4. CASE r.near
      <4>1. rows[i] = [prev |-> row, old |-> r.prev, near |-> Near(i, row)]
        BY <3>2, <3>4, Zenon DEF Step
      <4>2. r.prev \in [1 .. Len(b) + 1 -> Int] /\ r.old \in [1 .. Len(b) + 1 -> Int]
        BY <3>1 DEF S
      <4>3. BandHolds(row, d, Len(b), cap, i)
        <5>1. Len(a) \in Nat /\ Len(b) \in Nat \ {0} /\ Len(a) - Len(b) <= cap /\ i \in 1 .. Len(a)
          BY <1>1, <1>11 DEF n
        <5> HIDE DEF r
        <5> QED BY <1>9, <3>1, <3>4, <4>2, <5>1, BandHoldsOn
      <4>4. row \in [1 .. Len(b) + 1 -> Int]
        <5>1. row = BandRow(a, b, cap, i, r.prev, r.old) /\ i \in Nat OBVIOUS
        <5> HIDE DEF row, r
        <5> QED BY <1>1, <4>2, <5>1, BandRowCells DEF RowDone
      <4> HIDE DEF row, r
      <4>5. rows[i].prev = row /\ rows[i].near = Near(i, row)
        BY <4>1
      <4>6. ASSUME ~Near(i, row) PROVE \A j \in 0 .. Len(b) : d[<<i, j>>] > cap
        <5>1. \A j \in Max2(1, i - cap) .. Min2(Len(b), i + cap) : row[j + 1] > cap
          <6> SUFFICES ASSUME NEW j \in Max2(1, i - cap) .. Min2(Len(b), i + cap)
                       PROVE  row[j + 1] > cap
            OBVIOUS
          <6>1. ~(row[j + 1] <= cap)
            BY <4>6
          <6>2. j + 1 \in 1 .. Len(b) + 1
            BY <1>1 DEF Max2, Min2
          <6> QED BY <4>4, <6>1, <6>2
        <5>2. Len(a) \in Nat /\ Len(b) \in Nat \ {0} /\ i \in 1 .. Len(a)
          BY <1>1, <1>11 DEF n
        <5> QED BY <1>9, <4>3, <4>4, <5>1, <5>2, FarBandIsFar
      <4> HIDE DEF Near
      <4> QED BY <1>1, <3>2, <4>3, <4>5, <4>6
    <3> QED BY <3>3, <3>4
  <2> HIDE DEF T
  <2>4. 0 .. n \subseteq T
    BY <1>1, <2>2, <2>3, Induct
  <2>5. Inv(n)
    BY SMTT(30), <1>1, <2>4 DEF T
  <2>6. rows[n].near => Capped(rows[n].prev[width], cap) = Capped(D, cap)
    BY <1>1, <1>11, <2>5 DEF BandHolds
  <2> QED BY <1>1, <2>5, <2>6
<1> DEFINE last == rows[n]
           far == Far(cap)
           end == IF a = <<>> \/ b = <<>> THEN Max2(Len(a), Len(b))
                  ELSE IF last.near THEN Min2(last.prev[width], far) ELSE far
<1>12. Levenshtein(a, b, cap) =
          CASE a = b -> 0
            [] a # b /\ (Len(a) - Len(b) > cap \/ Len(b) - Len(a) > cap) -> far
            [] OTHER -> end
  BY Zenon DEF Levenshtein, rows, start, Step, n
<1>13. far = cap + 1
  BY DEF Far
<1>14. CASE a = b
  <2>1. Levenshtein(a, b, cap) = 0
    BY <1>12, <1>14
  <2> QED BY <1>9, <1>10, <1>13, <1>14, <2>1 DEF Min2, n
<1>15. CASE a # b /\ (Len(a) - Len(b) > cap \/ Len(b) - Len(a) > cap)
  <2>1. Levenshtein(a, b, cap) = far
    BY <1>12, <1>15
  <2> QED BY <1>1, <1>9, <1>10, <1>13, <1>15, <2>1 DEF Min2, n
<1>16. CASE a # b /\ ~(Len(a) - Len(b) > cap \/ Len(b) - Len(a) > cap)
  <2>1. Levenshtein(a, b, cap) = end
    BY <1>12, <1>16, Zenon
  <2>2. Len(a) - Len(b) <= cap /\ Len(b) - Len(a) <= cap
    BY <1>1, <1>16 DEF n
  <2>3. CASE a = <<>> \/ b = <<>>
    <3>1. D = Max2(Len(a), Len(b))
      BY <1>1, <1>9, <2>3 DEF Max2, n, DistanceTable
    <3> QED BY <1>1, <1>9, <1>10, <1>13, <2>1, <2>2, <2>3, <3>1 DEF Max2, Min2, n
  <2>4. CASE ~(a = <<>> \/ b = <<>>)
    <3>1. Len(b) # 0
      BY <2>4
    <3>2. /\ last \in S
          /\ last.near => Capped(last.prev[width], cap) = Capped(D, cap)
          /\ ~last.near => D > cap
      BY <1>11, <2>2, <3>1 DEF n
    <3>3. last.prev[width] \in Int
      <4>1. last.prev \in [1 .. width -> Int]
        BY <3>2 DEF S
      <4>2. width \in 1 .. width
        BY <1>1
      <4> HIDE DEF last, width
      <4> QED BY <4>1, <4>2
    <3>4. end = Min2(D, far)
      BY <1>10, <1>13, <2>4, <3>2, <3>3 DEF Capped, Min2
    <3> QED BY <1>9, <1>10, <2>1, <3>4 DEF n
  <2> QED BY <2>3, <2>4
<1> QED BY <1>9, <1>10, <1>14, <1>15, <1>16 DEF n

\* On the words the run spells, the two agree.
THEOREM DistanceHolds == Spec => []DistanceIsExact
<1>1. DistanceErrors = {}
  <2> DEFINE L == {"x", "y"}
             Spelt == UNION {[1 .. n -> L] : n \in 0 .. DistanceBound}
  <2>1. DistanceBound \in Nat
    BY ThresholdsNat
  <2>2. \A w \in Spelt : w \in Seq(L)
    BY <2>1
  <2>3. ASSUME NEW v \in Spelt, NEW w \in Spelt, NEW cap \in 0 .. DistanceBound - 1
        PROVE  Levenshtein(v, w, cap) = Min2(EditDistance(v, w), Far(cap))
    <3>1. v \in Seq(L) /\ w \in Seq(L) /\ cap \in Nat
      BY <2>1, <2>2
    <3> HIDE DEF L
    <3> QED BY <3>1, LevenshteinIsDistance
  <2>4. \A x \in Spelt \X Spelt \X (0 .. DistanceBound - 1) :
           Levenshtein(x[1], x[2], x[3]) = Min2(EditDistance(x[1], x[2]), Far(x[3]))
    <3> HIDE DEF Spelt
    <3> QED BY <2>3
  <2> QED BY <2>4, Zenon DEF DistanceErrors
<1>2. DistanceIsExact
  BY <1>1 DEF DistanceIsExact
<1> QED BY <1>2, PTL

-----------------------------------------------------------------------------
(* The types of what the matcher computes.                                 *)

\* A phrase of a list that loads.
Phrases == [tier : STRING, category : STRING, anchor : STRING, tokens : Seq(Words) \ {<<>>},
            row : Nat]
LoadedFiles == {n \in FileNames : Loads(Files[n])}

\* The phrases of a list that loads, one a row.
LEMMA PhrasesType ==
    ASSUME NEW n \in LoadedFiles
    PROVE  /\ PhrasesOf[n] \subseteq Phrases
           /\ \A p, q \in PhrasesOf[n] : p.row = q.row => p = q
<1> DEFINE f == Files[n]
           P(i) == [tier |-> f[i].tier, category |-> f[i].category, anchor |-> f[i].anchor,
                    tokens |-> f[i].tokens, row |-> i]
<1>1. n \in FileNames /\ Loads(f) /\ PhrasesOf[n] = {P(i) : i \in Spoken(f)}
  BY DEF LoadedFiles, PhrasesOf
<1>2. ASSUME NEW i \in Spoken(f) PROVE P(i) \in Phrases
  <2>1. f \in Seq([comment : BOOLEAN, tier : STRING, category : STRING, lang : STRING,
                   anchor : STRING, tokens : Seq(Words)])
    BY <1>1, PhrasesGiven DEF FileNames
  <2>2. i \in DOMAIN f /\ ~BadRow(f[i])
    BY <1>1 DEF Loads, Spoken, Rows
  <2> HIDE DEF f
  <2>3. i \in Nat /\ f[i].tier \in STRING /\ f[i].category \in STRING /\ f[i].anchor \in STRING
        /\ f[i].tokens \in Seq(Words)
    <3> DEFINE Lines == [comment : BOOLEAN, tier : STRING, category : STRING, lang : STRING,
                         anchor : STRING, tokens : Seq(Words)]
    <3>1. f[i] \in Lines /\ i \in Nat
      <4>1. f \in Seq(Lines) /\ i \in DOMAIN f
        BY <2>1, <2>2
      <4> HIDE DEF Lines
      <4> QED BY <4>1
    <3> QED BY <3>1
  <2>4. f[i].tokens # <<>>
    BY <2>2 DEF BadRow
  <2> QED BY <2>3, <2>4 DEF Phrases
<1> QED BY <1>1, <1>2

\* The score of a phrase against as many words is a whole number.
LEMMA ScoreSeqType ==
    ASSUME NEW p \in Phrases, NEW span \in Seq(Words)
    PROVE  ScoreSeq(p, span) \in Int
<1> DEFINE target == Joined(p.tokens)
           size == Len(target)
           budget == (size + EditRatio - 1) \div EditRatio
           d == Levenshtein(target, Joined(span), budget)
<1>1. target \in Seq(Letters) /\ target # <<>> /\ Joined(span) \in Seq(Letters)
  BY JoinedIsText DEF Phrases
<1>2. size \in Nat /\ size > 0 /\ Len(Joined(span)) \in Nat
  <2> HIDE DEF target
  <2> QED BY <1>1
<1>3. EditRatio \in Nat /\ EditRatio > 0
  BY ThresholdsNat
<1>4. budget \in Nat
  <2> HIDE DEF target, size
  <2> QED BY <1>2, <1>3
<1>5. d \in Int
  <2> DEFINE said == Joined(span)
  <2>1. target \in Seq(Letters) /\ said \in Seq(Letters)
    BY <1>1
  <2> HIDE DEF budget, target, said
  <2>2. EditDistance(target, said) \in Nat
        /\ Levenshtein(target, said, budget) = Min2(EditDistance(target, said), Far(budget))
    BY <1>4, <2>1, LevenshteinIsDistance
  <2>3. Levenshtein(target, said, budget) \in Int
    BY <1>4, <2>2 DEF Min2, Far
  <2> QED BY <2>3 DEF said
<1>6. ScoreSeq(p, span) = IF d > budget THEN 0 ELSE (Exact * (size - d)) \div size
  BY DEF ScoreSeq
<1> HIDE DEF d, budget, size
<1> QED BY <1>2, <1>4, <1>5, <1>6 DEF Exact

\* The score of a phrase against any span is.
LEMMA ScoreType ==
    ASSUME NEW p \in AllPhrases, p \in Phrases, NEW span \in Spans(p), span \in Seq(Words)
    PROVE  Score[p][span] \in Int
<1>1. Kill \in Int /\ Review \in Int /\ PairKill \in Int /\ PairReview \in Int
  BY ThresholdsNat
<1>2. ScoreSeq(p, span) \in Int
  BY ScoreSeqType
<1>3. ScoreBrand(p, span) \in Int
  BY <1>1, <1>2 DEF ScoreBrand, Exact, Min2, ReviewFor
<1> QED BY <1>2, <1>3 DEF Score

-----------------------------------------------------------------------------
(* What is matched.                                                        *)

\* The words heard on one call are words of one vocabulary.
Heeded(tokens) == tokens \in Seq(Words) /\ \E V \in Vocabularies : tokens \in Seq(V)

\* A match of list n in tokens: a phrase of the list, a place, and the score
\* and the tier these two have.
Tiers == STRING \cup {"A-near", "none"}
Matches(n, tokens) ==
    {m \in [phrase : PhrasesOf[n], tier : Tiers, score : Int, from : Nat, to : Nat] :
        /\ m.from < m.to /\ m.to <= Len(tokens)
        /\ m.score = Score[m.phrase][SubSeq(tokens, m.from + 1, m.to)]
        /\ m.tier = Tier(m.phrase, m.score)}

\* What a phrase is read as in tokens is a set of scored places.
LEMMA ReadingsType ==
    ASSUME NEW n \in LoadedFiles, NEW p \in PhrasesOf[n], NEW tokens, Heeded(tokens),
           NEW since \in Nat, NEW r \in Readings(p, tokens, since)
    PROVE  /\ r.from \in Nat /\ r.to \in Nat /\ r.from < r.to /\ r.to <= Len(tokens)
           /\ r.score \in Int /\ r.score = Score[p][SubSeq(tokens, r.from + 1, r.to)]
<1>1. p \in Phrases /\ p \in AllPhrases /\ Len(p.tokens) \in Nat
  BY PhrasesType DEF AllPhrases, LoadedFiles, Phrases
<1>2. PICK V \in Vocabularies : tokens \in Seq(V)
  BY DEF Heeded
<1>3. tokens \in Seq(Words) /\ Len(tokens) \in Nat
  BY DEF Heeded
<1>0. PICK w \in Widths(p) :
          r \in {[from |-> s, to |-> s + w, score |-> Score[p][SubSeq(tokens, s + 1, s + w)]] :
                   s \in Max2(0, since - w + 1) .. Len(tokens) - w}
  BY DEF Readings
<1>4. PICK s \in Max2(0, since - w + 1) .. Len(tokens) - w :
          r = [from |-> s, to |-> s + w, score |-> Score[p][SubSeq(tokens, s + 1, s + w)]]
  BY <1>0
<1>5. w \in Nat /\ w >= 1
  BY <1>1, <1>4, ThresholdsNat DEF Widths, Max2
<1>6. s \in Nat /\ s + w <= Len(tokens)
  BY <1>3, <1>4, <1>5 DEF Max2
<1> DEFINE span == SubSeq(tokens, s + 1, s + w)
<1>7. span \in [1 .. w -> V]
  <2>1. span = [i \in 1 .. w |-> tokens[s + i]]
    BY <1>2, <1>3, <1>5, <1>6
  <2>2. \A i \in 1 .. w : tokens[s + i] \in V
    BY <1>2, <1>5, <1>6
  <2> QED BY <2>1, <2>2
<1>8. span \in Spans(p)
  <2> DEFINE A == [1 .. w -> V]
             W == Widths(p)
  <2>1. w \in W /\ V \in Vocabularies /\ span \in A
    BY <1>0, <1>2, <1>7
  <2> HIDE DEF span
  <2>2. A \in {[1 .. k -> U] : k \in W, U \in Vocabularies}
    <3> HIDE DEF W
    <3> QED BY <2>1, SMT
  <2>3. Spans(p) = UNION {[1 .. k -> U] : k \in W, U \in Vocabularies}
    BY DEF Spans
  <2> HIDE DEF A, W
  <2> QED BY <2>1, <2>2, <2>3
<1>9. span \in Seq(Words)
  BY <1>3, <1>5, <1>6
<1>10. Score[p][span] \in Int
  <2> HIDE DEF span
  <2> QED BY <1>1, <1>8, <1>9, ScoreType
<1> QED BY <1>4, <1>5, <1>6, <1>10

\* There are finitely many matches of a list in tokens.
LEMMA MatchesFinite ==
    ASSUME NEW n \in LoadedFiles, NEW tokens, Heeded(tokens)
    PROVE  /\ IsFiniteSet(Matches(n, tokens))
           /\ \A m, o \in Matches(n, tokens) :
                  m.phrase.row = o.phrase.row /\ m.from = o.from /\ m.to = o.to => m = o
<1> DEFINE M == Matches(n, tokens)
           size == Len(Files[n])
           L == Len(tokens)
           R == 1 .. size
           P == 0 .. L
           T == (R \X P) \X P
           f == [m \in M |-> << <<m.phrase.row, m.from>>, m.to>>]
<1>1. \A m, o \in M : m.phrase.row = o.phrase.row /\ m.from = o.from /\ m.to = o.to => m = o
  <2> SUFFICES ASSUME NEW m \in M, NEW o \in M, m.phrase.row = o.phrase.row, m.from = o.from,
                      m.to = o.to
               PROVE  m = o
    OBVIOUS
  <2>1. m.phrase = o.phrase
    BY PhrasesType DEF Matches
  <2>2. m.score = o.score
    BY <2>1 DEF Matches
  <2>3. m.tier = o.tier
    BY <2>1, <2>2 DEF Matches
  <2> QED BY <2>1, <2>2, <2>3 DEF Matches
<1>2. L \in Nat /\ size \in Nat
  BY PhrasesGiven DEF Heeded, LoadedFiles, FileNames
<1>3. ASSUME NEW m \in M PROVE m.phrase.row \in R /\ m.from \in P /\ m.to \in P
  <2>1. m.phrase \in PhrasesOf[n] /\ n \in FileNames
    BY DEF Matches, LoadedFiles
  <2>2. m.phrase.row \in DOMAIN Files[n]
    BY <2>1 DEF PhrasesOf, Spoken, Rows
  <2>3. m.phrase.row \in R
    BY <2>1, <2>2, PhrasesGiven DEF FileNames
  <2> QED BY <1>2, <2>3 DEF Matches
<1> HIDE DEF M, R, P
<1>4. IsFiniteSet(T)
  <2>1. IsFiniteSet(R) /\ IsFiniteSet(P)
    BY <1>2, FS_Interval DEF R, P
  <2>2. IsFiniteSet(R \X P)
    BY <2>1, FS_Product
  <2> QED BY <2>1, <2>2, FS_Product
<1>5. f \in Injection(M, T)
  <2>1. f \in [M -> T]
    BY <1>3
  <2>2. \A m, o \in M : f[m] = f[o] => m = o
    BY <1>1
  <2> HIDE DEF f, T
  <2> QED BY <2>1, <2>2 DEF Injection, IsInjective
<1>6. IsFiniteSet(M)
  <2> HIDE DEF f, T
  <2> QED BY <1>4, <1>5, FS_Injection
<1> QED BY <1>1, <1>6 DEF M

\* The matches before overlap suppression are some of them.
LEMMA RawType ==
    ASSUME NEW n \in LoadedFiles, NEW tokens, Heeded(tokens), NEW since \in Nat
    PROVE  Raw(n, tokens, since) \subseteq Matches(n, tokens)
<1> SUFFICES ASSUME NEW m \in Raw(n, tokens, since) PROVE m \in Matches(n, tokens)
  OBVIOUS
<1>1. PICK p \in Woken(n, tokens, since) : m \in MatchesOf(p, tokens, since)
  BY DEF Raw
<1>2. p \in PhrasesOf[n]
  <2>1. PICK i \in DOMAIN tokens : p \in Index[n][tokens[i]]
    BY <1>1 DEF Woken
  <2>2. tokens[i] \in Words /\ n \in FileNames
    BY DEF Heeded, LoadedFiles
  <2> QED BY <2>1, <2>2 DEF Index
<1>3. PICK r \in Readings(p, tokens, since) :
          m = [phrase |-> p, tier |-> Tier(p, r.score), score |-> r.score,
               from |-> r.from, to |-> r.to]
  BY <1>1 DEF MatchesOf
<1>4. /\ r.from \in Nat /\ r.to \in Nat /\ r.from < r.to /\ r.to <= Len(tokens)
      /\ r.score \in Int /\ r.score = Score[p][SubSeq(tokens, r.from + 1, r.to)]
  BY <1>2, ReadingsType
<1>5. Tier(p, r.score) \in Tiers
  <2>1. p.tier \in STRING
    BY <1>2, PhrasesType DEF Phrases
  <2> QED BY <2>1 DEF Tier, Tiers
<1> QED BY <1>2, <1>3, <1>4, <1>5 DEF Matches

\* In a strict order of a finite set every rank is taken.
LEMMA RanksAreTaken ==
    ASSUME NEW S, IsFiniteSet(S), NEW R,
           \A x \in S : <<x, x>> \notin R,
           \A x, y \in S : x # y => <<x, y>> \in R \/ <<y, x>> \in R,
           \A x, y, z \in S : <<x, y>> \in R /\ <<y, z>> \in R => <<x, z>> \in R
    PROVE  \A i \in 1 .. Cardinality(S) :
               \E x \in S : i = 1 + Cardinality({y \in S : <<y, x>> \in R})
<1> DEFINE N == Cardinality(S)
           Pred(x) == {y \in S : <<y, x>> \in R}
           T == 1 .. N
           c == [x \in S |-> Cardinality(Pred(x))]
           f == [x \in S |-> 1 + c[x]]
<1>1. N \in Nat /\ IsFiniteSet(T) /\ Cardinality(T) = N
  BY FS_CardinalityType, FS_Interval
<1>2. ASSUME NEW x \in S
      PROVE  /\ IsFiniteSet(Pred(x)) /\ Cardinality(Pred(x)) \in Nat
             /\ IsFiniteSet(Pred(x) \cup {x})
             /\ Cardinality(Pred(x) \cup {x}) = Cardinality(Pred(x)) + 1
             /\ Cardinality(Pred(x)) + 1 <= N
  <2>1. Pred(x) \in SUBSET S /\ x \notin Pred(x) /\ Pred(x) \cup {x} \in SUBSET S
    OBVIOUS
  <2> HIDE DEF Pred
  <2>2. IsFiniteSet(Pred(x)) /\ Cardinality(Pred(x)) \in Nat
    BY <2>1, FS_Subset, FS_CardinalityType
  <2>3. /\ IsFiniteSet(Pred(x) \cup {x})
        /\ Cardinality(Pred(x) \cup {x}) = Cardinality(Pred(x)) + 1
    BY <2>1, <2>2, FS_AddElement
  <2>4. Cardinality(Pred(x) \cup {x}) <= N
    BY <2>1, FS_Subset
  <2> QED BY <2>2, <2>3, <2>4
<1>8. \A x \in S : c[x] = Cardinality(Pred(x)) /\ c[x] \in Nat /\ c[x] + 1 <= N
  <2> SUFFICES ASSUME NEW x \in S
               PROVE  c[x] = Cardinality(Pred(x)) /\ c[x] \in Nat /\ c[x] + 1 <= N
    OBVIOUS
  <2>1. c[x] = Cardinality(Pred(x)) OBVIOUS
  <2> HIDE DEF Pred, c
  <2> QED BY <1>2, <2>1
<1>4. ASSUME NEW x \in S, NEW y \in S, <<x, y>> \in R PROVE c[x] < c[y]
  <2>1. Pred(x) \cup {x} \in SUBSET Pred(y)
    BY <1>4
  <2>2. /\ IsFiniteSet(Pred(y))
        /\ Cardinality(Pred(x) \cup {x}) = Cardinality(Pred(x)) + 1
    BY <1>2
  <2>3. c[x] = Cardinality(Pred(x)) /\ c[y] = Cardinality(Pred(y)) /\ c[x] \in Nat /\ c[y] \in Nat
    BY <1>8
  <2> HIDE DEF Pred, c
  <2>4. Cardinality(Pred(x) \cup {x}) <= Cardinality(Pred(y))
    BY <2>1, <2>2, FS_Subset
  <2> QED BY <2>2, <2>3, <2>4
<1> HIDE DEF c, Pred, N
<1>3. f \in [S -> T]
  BY <1>1, <1>8
<1>5. f \in Injection(S, T)
  <2>1. ASSUME NEW x \in S, NEW y \in S, f[x] = f[y] PROVE x = y
    <3>1. c[x] = c[y] /\ c[x] \in Nat
      BY <1>8, <2>1
    <3> HIDE DEF f
    <3>2. ~(c[x] < c[y]) /\ ~(c[y] < c[x])
      BY <3>1
    <3>3. <<x, y>> \notin R /\ <<y, x>> \notin R
      BY <1>4, <3>2
    <3> QED BY <3>3
  <2> HIDE DEF f
  <2> QED BY <1>3, <2>1 DEF Injection, IsInjective
<1>6. f \in Surjection(S, T)
  <2> HIDE DEF f, T
  <2> QED BY <1>1, <1>5, FS_Injection DEF N
<1>7. \A i \in T : \E x \in S : f[x] = i
  <2> HIDE DEF f, T
  <2> QED BY <1>6 DEF Surjection
<1> QED
  <2>1. \A i \in T : \E x \in S : i = 1 + Cardinality(Pred(x))
    BY <1>7, <1>8
  <2> QED BY <2>1 DEF Pred, T, N

\* The order of overlap suppression, key by key.
LEMMA OutranksKeys ==
    ASSUME NEW m, NEW o
    PROVE  Outranks(m, o) <=>
             \/ 0 - m.score < 0 - o.score
             \/ 0 - m.score = 0 - o.score /\ m.from - m.to < o.from - o.to
             \/ /\ 0 - m.score = 0 - o.score /\ m.from - m.to = o.from - o.to
                /\ m.from < o.from
             \/ /\ 0 - m.score = 0 - o.score /\ m.from - m.to = o.from - o.to
                /\ m.from = o.from /\ m.phrase.row < o.phrase.row
<1> DEFINE key(x) == <<0 - x.score, x.from - x.to, x.from, x.phrase.row>>
           Less(i) == key(m)[i] < key(o)[i] /\ \A j \in 1 .. i - 1 : key(m)[j] = key(o)[j]
<1>1. Outranks(m, o) <=> Less(1) \/ Less(2) \/ Less(3) \/ Less(4)
  <2>1. Outranks(m, o) <=> \E i \in 1 .. 4 : Less(i)
    BY DEF Outranks
  <2> HIDE DEF Less
  <2> QED BY <2>1
<1>2. /\ \A j \in 1 .. 1 - 1 : FALSE
      /\ \A j : j \in 1 .. 2 - 1 <=> j = 1
      /\ \A j : j \in 1 .. 3 - 1 <=> j = 1 \/ j = 2
      /\ \A j : j \in 1 .. 4 - 1 <=> j = 1 \/ j = 2 \/ j = 3
  OBVIOUS
<1> QED BY <1>1, <1>2

\* The order of overlap suppression is a strict order of the matches.
LEMMA OutranksOrders ==
    ASSUME NEW n \in LoadedFiles, NEW tokens, Heeded(tokens),
           NEW S \in SUBSET Matches(n, tokens)
    PROVE  /\ \A x \in S : ~Outranks(x, x)
           /\ \A x, y \in S : x # y => Outranks(x, y) \/ Outranks(y, x)
           /\ \A x, y, z \in S : Outranks(x, y) /\ Outranks(y, z) => Outranks(x, z)
<1>1. \A x \in S : x.score \in Int /\ x.from \in Int /\ x.to \in Int /\ x.phrase.row \in Int
  BY PhrasesType DEF Matches, Phrases
<1>2. \A x, y \in S : x.phrase.row = y.phrase.row /\ x.from = y.from /\ x.to = y.to => x = y
  BY MatchesFinite
<1> QED BY <1>1, <1>2, OutranksKeys

\* Putting matches in order of rank makes a list of them.
LEMMA RankedType ==
    ASSUME NEW n \in LoadedFiles, NEW tokens, Heeded(tokens),
           NEW S \in SUBSET Matches(n, tokens)
    PROVE  Cardinality(S) \in Nat /\ InOrder(S, Outranks) \in [1 .. Cardinality(S) -> S]
<1> DEFINE R == {z \in S \X S : Outranks(z[1], z[2])}
           At(i) == CHOOSE x \in S : i = 1 + Cardinality({y \in S : Outranks(y, x)})
<1>1. IsFiniteSet(S) /\ Cardinality(S) \in Nat
  BY MatchesFinite, FS_Subset, FS_CardinalityType
<1>2. \A x, y \in S : <<x, y>> \in R <=> Outranks(x, y) OBVIOUS
<1>3. /\ \A x \in S : <<x, x>> \notin R
      /\ \A x, y \in S : x # y => <<x, y>> \in R \/ <<y, x>> \in R
      /\ \A x, y, z \in S : <<x, y>> \in R /\ <<y, z>> \in R => <<x, z>> \in R
  <2> HIDE DEF R
  <2> QED BY <1>2, OutranksOrders
<1>4. \A x \in S : {y \in S : <<y, x>> \in R} = {y \in S : Outranks(y, x)}
  BY <1>2
<1> HIDE DEF R
<1>5. \A i \in 1 .. Cardinality(S) : \E x \in S : i = 1 + Cardinality({y \in S : <<y, x>> \in R})
  BY <1>1, <1>3, RanksAreTaken
<1>6. \A i \in 1 .. Cardinality(S) : At(i) \in S
  BY <1>4, <1>5
<1> HIDE DEF At
<1>7. InOrder(S, Outranks) = [i \in 1 .. Cardinality(S) |-> At(i)]
  BY DEF InOrder, At
<1> QED BY <1>1, <1>6, <1>7

\* So does putting them in the order they were said.
LEMMA ReportedOrderType ==
    ASSUME NEW n \in LoadedFiles, NEW tokens, Heeded(tokens),
           NEW S \in SUBSET Matches(n, tokens)
    PROVE  Cardinality(S) \in Nat /\ InOrder(S, Before) \in [1 .. Cardinality(S) -> S]
<1> DEFINE R == {z \in S \X S : Before(z[1], z[2])}
           At(i) == CHOOSE x \in S : i = 1 + Cardinality({y \in S : Before(y, x)})
<1>1. IsFiniteSet(S) /\ Cardinality(S) \in Nat
  BY MatchesFinite, FS_Subset, FS_CardinalityType
<1>2. \A x, y \in S : <<x, y>> \in R <=> Before(x, y) OBVIOUS
<1>3. /\ \A x \in S : <<x, x>> \notin R
      /\ \A x, y \in S : x # y => <<x, y>> \in R \/ <<y, x>> \in R
      /\ \A x, y, z \in S : <<x, y>> \in R /\ <<y, z>> \in R => <<x, z>> \in R
  <2> HIDE DEF R
  <2>1. \A x \in S : x.from \in Int
    BY DEF Matches
  <2> QED BY <1>2, <2>1, OutranksOrders DEF Before
<1>4. \A x \in S : {y \in S : <<y, x>> \in R} = {y \in S : Before(y, x)}
  BY <1>2
<1> HIDE DEF R
<1>5. \A i \in 1 .. Cardinality(S) : \E x \in S : i = 1 + Cardinality({y \in S : <<y, x>> \in R})
  BY <1>1, <1>3, RanksAreTaken
<1>6. \A i \in 1 .. Cardinality(S) : At(i) \in S
  BY <1>4, <1>5
<1> HIDE DEF At
<1>7. InOrder(S, Before) = [i \in 1 .. Cardinality(S) |-> At(i)]
  BY DEF InOrder, At
<1> QED BY <1>1, <1>6, <1>7

\* What overlap suppression leaves is some of them.
LEMMA ChosenType ==
    ASSUME NEW n \in LoadedFiles, NEW tokens, Heeded(tokens),
           NEW S \in SUBSET Matches(n, tokens)
    PROVE  Chosen(S) \subseteq S
<1> DEFINE ranked == InOrder(S, Outranks)
           N == Len(ranked)
           Step(k, x) == IF \E o \in x : /\ Overlap(o, ranked[k])
                                         /\ o.phrase.category = ranked[k].phrase.category
                         THEN x ELSE x \cup {ranked[k]}
           Solves(f) == f = [k \in 0 .. N |-> IF k = 0 THEN {} ELSE Step(k, f[k - 1])]
           pick == CHOOSE f : Solves(f)
           U == SUBSET S
           e == {}
           g == [y \in (1 .. N) \X U |-> Step(y[1], y[2])]
<1>1. N \in Nat /\ ranked \in [1 .. N -> S]
  BY RankedType
<1> HIDE DEF ranked, N
<1>2. ASSUME NEW k \in 1 .. N, NEW x \in U PROVE Step(k, x) \in U
  BY <1>1
<1>3. e \in U OBVIOUS
<1> HIDE DEF Step
<1>4. g \in [(1 .. N) \X U -> U]
  <2> HIDE DEF U
  <2> QED BY <1>2
<1>5. PICK h : Recursion(h, N, U, e, g)
  <2> HIDE DEF U, e, g
  <2> QED BY <1>1, <1>3, <1>4, RecExists
<1> HIDE DEF U
<1>6. \A k \in 1 .. N : h[k] = Step(k, h[k - 1])
  <2> SUFFICES ASSUME NEW k \in 1 .. N PROVE h[k] = Step(k, h[k - 1]) OBVIOUS
  <2>1. k - 1 \in 0 .. N
    BY <1>1
  <2>2. h[k - 1] \in U /\ h[k] = g[<<k, h[k - 1]>>]
    <3> HIDE DEF g
    <3> QED BY <1>5, <2>1 DEF Recursion
  <2> QED BY <2>2
<1>7. Solves(h)
  BY <1>1, <1>5, <1>6 DEF Recursion
<1>8. Solves(pick)
  BY <1>7
<1> HIDE DEF pick
<1>9. pick[N] \in U
  <2> DEFINE T == {k \in 0 .. N : pick[k] \in U}
  <2>0. /\ 0 \in 0 .. N
        /\ \A k \in 1 .. N : k \in 0 .. N /\ k - 1 \in 0 .. N /\ k # 0
    BY <1>1
  <2>1. pick[0] = e /\ \A k \in 1 .. N : pick[k] = Step(k, pick[k - 1])
    BY <1>8, <2>0
  <2>2. 0 \in T /\ \A k \in 1 .. N : k - 1 \in T => k \in T
    <3> HIDE DEF Solves, e
    <3> QED BY <1>2, <1>3, <2>0, <2>1
  <2> HIDE DEF T
  <2>3. 0 .. N \subseteq T
    BY <1>1, <2>2, Induct
  <2> QED BY <1>1, <2>3 DEF T
<1>10. Chosen(S) = pick[N]
  BY Zenon DEF Chosen, pick, N, Step, ranked
<1> QED BY <1>9, <1>10 DEF U

\* What is found is a list of matches.
LEMMA MatchType ==
    ASSUME NEW n \in LoadedFiles, NEW tokens, Heeded(tokens), NEW since \in Nat
    PROVE  \E k \in Nat : Match(n, tokens, since) \in [1 .. k -> Matches(n, tokens)]
<1> DEFINE S == Chosen(Kept(Raw(n, tokens, since)))
<1>1. Kept(Raw(n, tokens, since)) \in SUBSET Matches(n, tokens)
  BY RawType DEF Kept
<1>2. S \in SUBSET Matches(n, tokens)
  BY <1>1, ChosenType
<1>3. Match(n, tokens, since) = InOrder(S, Before)
  BY Zenon DEF Match
<1> HIDE DEF S
<1>4. Cardinality(S) \in Nat /\ InOrder(S, Before) \in [1 .. Cardinality(S) -> S]
  BY <1>2, ReportedOrderType
<1> QED BY <1>2, <1>3, <1>4

-----------------------------------------------------------------------------
(* Folding a list from the left takes its elements in turn.                *)

\* The greatest of a set that goes up to k and has it.
LEMMA MaxIs ==
    ASSUME NEW k \in Nat, NEW s \in SUBSET (1 .. k), k \in s
    PROVE  Max(s) = k
<1>1. \A x \in s : x \in Nat /\ x <= k OBVIOUS
<1>2. k \in s /\ \A y \in s : k >= y
  BY <1>1
<1>3. \A x \in s : (\A y \in s : x >= y) => x = k
  BY <1>1
<1>4. Max(s) = CHOOSE x \in s : \A y \in s : x >= y
  BY DEF Max
<1> QED BY <1>2, <1>3, <1>4

\* All of seq handled, and what it comes to after each.
AllHandled(p, base, seq) == FoldLeft(LAMBDA acc, m : HandleMatch(p, acc, m), base, seq)
HandledTo(h, p, base, n, seq) ==
    h[0] = base /\ \A k \in 1 .. n : h[k] = HandleMatch(p, h[k - 1], seq[k])

\* What handling matches from left to right comes to: h[k] after k of them.
LEMMA HandledInTurn ==
    ASSUME NEW p, NEW base, NEW n \in Nat, NEW seq, DOMAIN seq = 1 .. n
    PROVE  \E h : HandledTo(h, p, base, n, seq) /\ AllHandled(p, base, seq) = h[n]
<1> DEFINE Op(x, k) == HandleMatch(p, x, seq[k])
           At(f, s) == IF s = {} THEN base ELSE Op(f[s \ {Max(s)}], Max(s))
           Folds(f, S) == f = [s \in SUBSET S |-> At(f, s)]
           iter == CHOOSE f : Folds(f, 1 .. n)
           T == {k \in 0 .. n : \E f : Folds(f, 1 .. k)}
<1> HIDE DEF Op
<1>1. 0 \in T
  <2> DEFINE z == [s \in {{}} |-> base]
  <2>1. SUBSET (1 .. 0) = {{}} OBVIOUS
  <2>2. Folds(z, 1 .. 0)
    BY <2>1
  <2> HIDE DEF Folds, z
  <2> QED BY <2>2
<1>2. ASSUME NEW k \in 1 .. n, k - 1 \in T PROVE k \in T
  <2>1. PICK f : Folds(f, 1 .. k - 1)
    BY <1>2
  <2> DEFINE h == [s \in SUBSET (1 .. k) |->
                     IF k \in s THEN Op(f[s \ {k}], k) ELSE f[s]]
  <2>2. ASSUME NEW s \in SUBSET (1 .. k) PROVE h[s] = At(h, s)
    <3>1. CASE k \in s
      <4>1. Max(s) = k /\ s # {}
        BY <3>1, MaxIs
      <4>2. s \ {k} \in SUBSET (1 .. k) /\ k \notin s \ {k} OBVIOUS
      <4>3. h[s \ {k}] = f[s \ {k}]
        BY <4>2
      <4>4. h[s] = Op(f[s \ {k}], k)
        BY <3>1
      <4> HIDE DEF h
      <4> QED BY <4>1, <4>3, <4>4
    <3>2. CASE k \notin s
      <4>1. s \in SUBSET (1 .. k - 1)
        BY <3>2
      <4>2. f[s] = At(f, s)
        <5> HIDE DEF At
        <5> QED BY <2>1, <4>1
      <4>3. h[s] = f[s]
        BY <3>2
      <4>4. s \ {Max(s)} \in SUBSET (1 .. k) /\ k \notin s \ {Max(s)}
        BY <3>2
      <4>5. h[s \ {Max(s)}] = f[s \ {Max(s)}]
        BY <4>4
      <4> HIDE DEF h
      <4> QED BY <4>2, <4>3, <4>5
    <3> QED BY <3>1, <3>2
  <2>3. Folds(h, 1 .. k)
    <3> HIDE DEF At
    <3> QED BY <2>2
  <2> HIDE DEF h, Folds
  <2> QED BY <2>3
<1>3. 0 .. n \subseteq T
  <2> HIDE DEF T
  <2> QED BY <1>1, <1>2, Induct
<1>4. \E f : Folds(f, 1 .. n)
  <2> HIDE DEF Folds
  <2> QED BY <1>3
<1>5. Folds(iter, 1 .. n)
  <2> HIDE DEF Folds
  <2> QED BY <1>4
<1>6. AllHandled(p, base, seq) = iter[1 .. n]
  BY Zenon DEF AllHandled, FoldLeft, MapThenFoldSet, iter, Op
<1> HIDE DEF iter
<1> DEFINE h == [k \in 0 .. n |-> iter[1 .. k]]
<1>7. \A s \in SUBSET (1 .. n) : iter[s] = At(iter, s)
  <2> HIDE DEF At
  <2> QED BY <1>5
<1>8. h[0] = base
  <2>1. {} \in SUBSET (1 .. n) /\ 1 .. 0 = {} /\ 0 \in 0 .. n OBVIOUS
  <2> QED BY <1>7, <2>1
<1>9. ASSUME NEW k \in 1 .. n PROVE h[k] = Op(h[k - 1], k)
  <2>1. 1 .. k \in SUBSET (1 .. n) /\ k \in 1 .. k /\ k \in Nat OBVIOUS
  <2>4. 1 .. k \in SUBSET (1 .. k) OBVIOUS
  <2>5. Max(1 .. k) = k
    <3> DEFINE s == 1 .. k
    <3> HIDE DEF s
    <3>1. s \in SUBSET (1 .. k) /\ k \in s
      BY <2>1, <2>4 DEF s
    <3>2. Max(s) = k
      BY <2>1, <3>1, MaxIs
    <3> QED BY <3>2 DEF s
  <2>6. 1 .. k # {} /\ (1 .. k) \ {k} = 1 .. k - 1 OBVIOUS
  <2>2. Max(1 .. k) = k /\ 1 .. k # {} /\ (1 .. k) \ {k} = 1 .. k - 1
    BY <2>5, <2>6, Zenon
  <2>3. iter[1 .. k] = Op(iter[1 .. k - 1], k)
    BY <1>7, <2>1, <2>2
  <2> QED BY <2>3
<1>10. h[n] = iter[1 .. n] OBVIOUS
<1> HIDE DEF h
<1> QED BY <1>6, <1>8, <1>9, <1>10 DEF Op, HandledTo

\* f[i] is what is kept of the first i rows.
KeptTo(f, rows, limit) ==
    /\ f[0] = <<>>
    /\ \A i \in 1 .. Len(rows) :
           f[i] = IF rows[i].at >= limit THEN Append(f[i - 1], rows[i]) ELSE f[i - 1]

\* Rows are kept in turn.
LEMMA SinceInTurn ==
    ASSUME NEW R, NEW rows \in Seq(R), NEW limit
    PROVE  \E f : /\ KeptTo(f, rows, limit) /\ Since(rows, limit) = f[Len(rows)]
                  /\ \A i \in 0 .. Len(rows) : f[i] \in Seq(R)
<1> DEFINE N == Len(rows)
           Step(i, x) == IF rows[i].at >= limit THEN Append(x, rows[i]) ELSE x
           Solves(f) == f = [i \in 0 .. N |-> IF i = 0 THEN <<>> ELSE Step(i, f[i - 1])]
           kept == CHOOSE f : Solves(f)
           U == Seq(R)
           e == <<>>
           g == [y \in (1 .. N) \X U |-> Step(y[1], y[2])]
<1>1. N \in Nat /\ \A i \in 1 .. N : rows[i] \in R OBVIOUS
<1>2. ASSUME NEW i \in 1 .. N, NEW x \in U PROVE Step(i, x) \in U
  BY <1>1
<1>3. e \in U OBVIOUS
<1>0. Since(rows, limit) = kept[N]
  BY Zenon DEF Since
<1> HIDE DEF Step, N, U
<1>4. g \in [(1 .. N) \X U -> U]
  BY <1>2
<1>5. PICK h : Recursion(h, N, U, e, g)
  <2> HIDE DEF e, g
  <2> QED BY <1>1, <1>3, <1>4, RecExists
<1>6. \A i \in 1 .. N : h[i] = Step(i, h[i - 1])
  <2> SUFFICES ASSUME NEW i \in 1 .. N PROVE h[i] = Step(i, h[i - 1]) OBVIOUS
  <2>1. i - 1 \in 0 .. N
    BY <1>1
  <2>2. h[i - 1] \in U /\ h[i] = g[<<i, h[i - 1]>>]
    <3> HIDE DEF g
    <3> QED BY <1>5, <2>1 DEF Recursion
  <2> QED BY <2>2
<1>7. Solves(h)
  BY <1>1, <1>5, <1>6 DEF Recursion
<1>8. Solves(kept)
  BY <1>7
<1> HIDE DEF kept
<1>11. /\ 0 \in 0 .. N
       /\ \A i \in 1 .. N : i \in 0 .. N /\ i - 1 \in 0 .. N /\ i # 0
  BY <1>1
<1>12. kept[0] = e /\ \A i \in 1 .. N : kept[i] = Step(i, kept[i - 1])
  BY <1>8, <1>11
<1>9. \A i \in 0 .. N : kept[i] \in U
  <2> DEFINE T == {i \in 0 .. N : kept[i] \in U}
  <2>2. 0 \in T /\ \A i \in 1 .. N : i - 1 \in T => i \in T
    <3> HIDE DEF Solves, e
    <3> QED BY <1>2, <1>3, <1>11, <1>12
  <2> HIDE DEF T
  <2>3. 0 .. N \subseteq T
    BY <1>1, <2>2, Induct
  <2> QED BY <1>1, <2>3 DEF T
<1>10. KeptTo(kept, rows, limit)
  <2> HIDE DEF Solves
  <2> QED BY <1>12 DEF KeptTo, N, Step
<1> QED BY <1>0, <1>9, <1>10 DEF U, N

\* What is kept of a list of rows is a list of them.
LEMMA SinceType ==
    ASSUME NEW R, NEW rows \in Seq(R), NEW limit
    PROVE  Since(rows, limit) \in Seq(R)
<1>1. PICK f : /\ KeptTo(f, rows, limit) /\ Since(rows, limit) = f[Len(rows)]
               /\ \A i \in 0 .. Len(rows) : f[i] \in Seq(R)
  BY SinceInTurn
<1> QED BY <1>1

-----------------------------------------------------------------------------
(* A window and what changes it.                                           *)

\* What a window may hold: the words of this run, what was reported of them,
\* and what has fired.
Categories == STRING \cup {"A-near"}
HitRecords == [at : Nat, tier : Tiers, category : STRING]
Spots == [row : Nat, from : Nat, to : Nat]
Windows ==
    {w \in [tokens : Seq(left.vocabulary), times : Seq(Nat), dropped : Nat,
            hits : Seq(HitRecords), reported : SUBSET Spots, fired : SUBSET Categories,
            bEvents : Nat] :
        Len(w.times) = Len(w.tokens)}

\* The window is over the threshold on something that has not fired.
Over(w) == BScore(w) >= BThreshold /\ \E c \in Contributing(w) : c \notin w.fired

\* A window that has heard nothing.
LEMMA NewWindowType == NewWindow \in Windows
  BY DEF NewWindow, Windows

\* A list has finitely many elements.
LEMMA FiniteRange ==
    ASSUME NEW n \in Nat, NEW f, DOMAIN f = 1 .. n
    PROVE  IsFiniteSet({f[i] : i \in 1 .. n})
<1> DEFINE D == 1 .. n
           T == {f[i] : i \in D}
           g == [i \in D |-> f[i]]
<1>1. IsFiniteSet(D)
  BY FS_Interval
<1>2. g \in Surjection(D, T)
  BY DEF Surjection
<1> HIDE DEF D, T, g
<1>3. IsFiniteSet(T)
  BY <1>1, <1>2, FS_Surjection
<1> QED BY <1>3 DEF D, T

\* The score is made of finitely many categories.
LEMMA ScoredFinite ==
    ASSUME NEW w \in Windows
    PROVE  /\ IsFiniteSet(Contributing(w)) /\ IsFiniteSet(Suppressing(w))
           /\ BScore(w) \in Int
<1> DEFINE H == Hits(w)
           n == Len(w.hits)
           f == [i \in 1 .. n |-> w.hits[i].category]
           C == {f[i] : i \in 1 .. n} \cup {"A-near"}
<1>1. n \in Nat /\ DOMAIN w.hits = 1 .. n
  BY DEF Windows
<1>2. IsFiniteSet({f[i] : i \in 1 .. n})
  <2> HIDE DEF n
  <2>1. DOMAIN f = 1 .. n OBVIOUS
  <2> HIDE DEF f
  <2> QED BY <1>1, <2>1, FiniteRange
<1>3. IsFiniteSet(C)
  <2> DEFINE B == {f[i] : i \in 1 .. n}
  <2> HIDE DEF B
  <2>1. IsFiniteSet(B)
    BY <1>2 DEF B
  <2>2. IsFiniteSet(B \cup {"A-near"})
    BY <2>1, FS_AddElement
  <2> QED BY <2>2 DEF B
<1>4. \A x \in H : x.category \in C
  BY <1>1 DEF Hits
<1>5. Contributing(w) \in SUBSET C /\ Suppressing(w) \in SUBSET C
  <2> HIDE DEF C, H
  <2>1. "A-near" \in C
    BY DEF C
  <2>2. Contributing(w) \in SUBSET C
    BY <1>4, <2>1 DEF Contributing, H
  <2>3. Suppressing(w) \in SUBSET C
    BY <1>4 DEF Suppressing, H
  <2> QED BY <2>2, <2>3
<1>6. IsFiniteSet(Contributing(w)) /\ IsFiniteSet(Suppressing(w))
  <2> HIDE DEF C
  <2> QED BY <1>3, <1>5, FS_Subset
<1> DEFINE S == Suppressing(w) \ {"C1"}
<1>7. IsFiniteSet(S) /\ Cardinality(S) \in Nat /\ Cardinality(Contributing(w)) \in Nat
  BY <1>6, FS_RemoveElement, FS_CardinalityType
<1>8. BScore(w) \in Int
  <2> HIDE DEF S
  <2>1. C1Weight \in Nat /\ C2Weight \in Nat /\ MaxSuppress \in Nat
    BY WindowNat
  <2> DEFINE k == Cardinality(S)
             c == Cardinality(Contributing(w))
             x == k * C2Weight
             y == IF "C1" \in Suppressing(w) THEN C1Weight ELSE 0
  <2>2. BScore(w) = Max2(0, 2 * c - Min2(x + y, MaxSuppress))
    BY DEF BScore, S
  <2>3. x \in Nat /\ y \in Nat /\ c \in Nat
    BY <1>7, <2>1
  <2> HIDE DEF x, y, c
  <2> QED BY <2>1, <2>2, <2>3 DEF Max2, Min2
<1> QED BY <1>6, <1>8

\* A window that scores no more, and on which nothing that still contributes
\* has been forgotten to have fired, is over the threshold only if the other is.
LEMMA OverShrinks ==
    ASSUME NEW w \in Windows, NEW v \in Windows, Contributing(v) \subseteq Contributing(w),
           Suppressing(v) = Suppressing(w), Contributing(v) \cap w.fired \subseteq v.fired,
           Over(v)
    PROVE  Over(w)
<1> DEFINE S == Suppressing(w) \ {"C1"}
           x == Cardinality(S) * C2Weight + (IF "C1" \in Suppressing(w) THEN C1Weight ELSE 0)
           c == Cardinality(Contributing(w))
           d == Cardinality(Contributing(v))
           M == Min2(x, MaxSuppress)
<1>1. IsFiniteSet(Contributing(w)) /\ c \in Nat /\ d \in Nat /\ d <= c
  BY ScoredFinite, FS_Subset, FS_CardinalityType
<1>2. M \in Int
  <2>1. Cardinality(S) \in Nat
    BY ScoredFinite, FS_RemoveElement, FS_CardinalityType
  <2>2. C1Weight \in Nat /\ C2Weight \in Nat /\ MaxSuppress \in Nat
    BY WindowNat
  <2> DEFINE k == Cardinality(S) * C2Weight
             y == IF "C1" \in Suppressing(w) THEN C1Weight ELSE 0
  <2> HIDE DEF S
  <2>3. k \in Nat /\ y \in Nat
    BY <2>1, <2>2
  <2>4. x = k + y OBVIOUS
  <2> HIDE DEF k, y, x
  <2> QED BY <2>2, <2>3, <2>4 DEF Min2
<1>3. BScore(w) = Max2(0, 2 * c - M) /\ BScore(v) = Max2(0, 2 * d - M)
  BY DEF BScore
<1> HIDE DEF M, c, d
<1>4. BScore(v) <= BScore(w) /\ BScore(v) \in Int /\ BScore(w) \in Int
  BY <1>1, <1>2, <1>3 DEF Max2
<1>5. BScore(w) >= BThreshold
  BY <1>4, WindowNat DEF Over
<1> QED BY <1>5 DEF Over

\* The last k elements of a list.
LEMMA LastOf ==
    ASSUME NEW S, NEW s \in Seq(S), NEW k \in Nat, k <= Len(s)
    PROVE  /\ SubSeq(s, Len(s) - k + 1, Len(s)) \in Seq(S)
           /\ Len(SubSeq(s, Len(s) - k + 1, Len(s))) = k
  OBVIOUS

\* Two lists joined.
LEMMA Joins ==
    ASSUME NEW S, NEW s \in Seq(S), NEW t \in Seq(S)
    PROVE  s \o t \in Seq(S) /\ Len(s \o t) = Len(s) + Len(t)
  OBVIOUS

\* What leaves a window by age or number: its words and hits are some of those
\* it had, a span is forgotten only when its words are gone, and a category
\* only when nothing in the window speaks for it.
LEMMA EvictKeeps ==
    ASSUME NEW w \in Windows, NEW now \in Nat
    PROVE  LET v == Evict(w, now) IN
           /\ v \in Windows /\ v.dropped >= w.dropped
           /\ v.dropped + Len(v.tokens) = w.dropped + Len(w.tokens)
           /\ v.reported = {r \in w.reported : r.to > v.dropped}
           /\ v.hits = Since(w.hits, now - WindowS)
           /\ v.fired = w.fired \cap LiveCategories(Hits(v))
<1> DEFINE v == Evict(w, now)
           Fresh == {i \in DOMAIN w.times : w.times[i] >= now - WindowS}
           size == Len(w.tokens)
           keep == Min2(Cardinality(Fresh), MaxTokens)
           gone == w.dropped + size - keep
           hits == Since(w.hits, now - WindowS)
           live == LiveCategories({hits[i] : i \in DOMAIN hits})
           tokens == SubSeq(w.tokens, size - keep + 1, size)
           times == SubSeq(w.times, size - keep + 1, size)
           reported == {r \in w.reported : r.to > gone}
           fired == w.fired \cap live
<1>1. /\ w.tokens \in Seq(left.vocabulary) /\ w.times \in Seq(Nat) /\ w.dropped \in Nat
      /\ w.hits \in Seq(HitRecords) /\ w.reported \in SUBSET Spots
      /\ w.fired \in SUBSET Categories /\ w.bEvents \in Nat
      /\ Len(w.times) = size /\ size \in Nat
  BY DEF Windows
<1>2. Cardinality(Fresh) \in Nat /\ Cardinality(Fresh) <= size
  <2>1. IsFiniteSet(1 .. size) /\ Cardinality(1 .. size) = size
    BY <1>1, FS_Interval
  <2>2. Fresh \in SUBSET (1 .. size)
    BY <1>1
  <2> DEFINE D == 1 .. size
  <2> HIDE DEF Fresh, D
  <2>3. IsFiniteSet(D) /\ Cardinality(D) = size /\ Fresh \in SUBSET D
    BY <2>1, <2>2 DEF D
  <2> QED BY <2>3, FS_Subset, FS_CardinalityType
<1>3. keep \in Nat /\ keep <= size /\ MaxTokens \in Nat
  <2> HIDE DEF Fresh
  <2> QED BY <1>2, WindowNat DEF Min2
<1>4. v = [w EXCEPT !.tokens = tokens, !.times = times, !.dropped = gone,
                    !.reported = reported, !.hits = hits, !.fired = fired]
  BY Zenon DEF Evict
<1> HIDE DEF v, keep, hits, live
<1>5. /\ tokens \in Seq(left.vocabulary) /\ times \in Seq(Nat)
      /\ Len(tokens) = keep /\ Len(times) = keep
  <2> HIDE DEF size
  <2>1. keep <= Len(w.tokens) /\ keep <= Len(w.times) /\ size = Len(w.tokens) /\ size = Len(w.times)
    BY <1>1, <1>3 DEF size
  <2>2. tokens \in Seq(left.vocabulary) /\ Len(tokens) = keep
    <3>1. tokens = SubSeq(w.tokens, Len(w.tokens) - keep + 1, Len(w.tokens))
      BY <2>1
    <3> DEFINE V == left.vocabulary
               x == w.tokens
    <3>2. x \in Seq(V) /\ tokens = SubSeq(x, Len(x) - keep + 1, Len(x)) /\ keep <= Len(x)
      BY <1>1, <2>1, <3>1
    <3> HIDE DEF tokens, V, x
    <3>3. tokens \in Seq(V) /\ Len(tokens) = keep
      BY <1>3, <3>2, LastOf
    <3> QED BY <3>3 DEF V
  <2>3. times \in Seq(Nat) /\ Len(times) = keep
    <3>1. times = SubSeq(w.times, Len(w.times) - keep + 1, Len(w.times))
      BY <2>1
    <3> HIDE DEF times
    <3> QED BY <1>1, <1>3, <2>1, <3>1, LastOf
  <2> QED BY <2>2, <2>3
<1>6. gone \in Nat /\ gone >= w.dropped /\ gone + keep = w.dropped + size
  BY <1>1, <1>3
<1>7. hits \in Seq(HitRecords)
  BY <1>1, SinceType DEF hits
<1>8. reported \in SUBSET Spots /\ fired \in SUBSET Categories
  BY <1>1
<1> HIDE DEF tokens, times, gone, reported, fired
<1>9. v = [tokens |-> tokens, times |-> times, dropped |-> gone, hits |-> hits,
           reported |-> reported, fired |-> fired, bEvents |-> w.bEvents]
  <2>1. w = [tokens |-> w.tokens, times |-> w.times, dropped |-> w.dropped, hits |-> w.hits,
             reported |-> w.reported, fired |-> w.fired, bEvents |-> w.bEvents]
    BY DEF Windows
  <2> QED BY <1>4, <2>1
<1>10. v \in Windows
  BY <1>1, <1>5, <1>6, <1>7, <1>8, <1>9 DEF Windows
<1>11. live = LiveCategories(Hits(v))
  BY <1>9 DEF live, Hits
<1>12. /\ v.dropped >= w.dropped /\ v.dropped + Len(v.tokens) = w.dropped + Len(w.tokens)
       /\ v.reported = {r \in w.reported : r.to > v.dropped}
       /\ v.hits = Since(w.hits, now - WindowS)
  BY <1>5, <1>6, <1>9 DEF reported, hits, size
<1>13. v.fired = w.fired \cap LiveCategories(Hits(v))
  BY <1>9, <1>11 DEF fired
<1> QED BY <1>10, <1>12, <1>13 DEF v

\* Words join a window: what a window that is over the threshold becomes, or a
\* window was before it.
LEMMA AddKeeps ==
    ASSUME NEW w \in Windows, NEW new \in Seq(left.vocabulary), NEW now \in Nat
    PROVE  LET a == Add(w, new, now) IN
           /\ a.win \in Windows /\ a.since \in Nat /\ a.win.dropped >= w.dropped
           /\ a.win.reported \subseteq w.reported
           /\ \A r \in w.reported : r \in a.win.reported \/ r.to <= a.win.dropped
           /\ Over(a.win) /\ Suppressing(w) = Suppressing(a.win) => Over(w)
<1> DEFINE a == Add(w, new, now)
           times == [i \in DOMAIN new |-> now]
           grown == [w EXCEPT !.tokens = @ \o new, !.times = @ \o times]
           v == Evict(grown, now)
<1>1. /\ w.tokens \in Seq(left.vocabulary) /\ w.times \in Seq(Nat) /\ w.dropped \in Nat
      /\ w.hits \in Seq(HitRecords) /\ w.reported \in SUBSET Spots
      /\ w.fired \in SUBSET Categories /\ w.bEvents \in Nat
      /\ Len(w.times) = Len(w.tokens) /\ Len(w.tokens) \in Nat
      /\ w = [tokens |-> w.tokens, times |-> w.times, dropped |-> w.dropped, hits |-> w.hits,
              reported |-> w.reported, fired |-> w.fired, bEvents |-> w.bEvents]
  BY DEF Windows
<1>2. CASE new = <<>>
  <2>1. a = [win |-> w, since |-> Len(w.tokens)]
    BY <1>2 DEF Add
  <2> QED BY <1>1, <2>1 DEF Spots
<1>3. CASE new # <<>>
  <2>1. times \in Seq(Nat) /\ Len(times) = Len(new) /\ Len(new) \in Nat
    <3>1. DOMAIN new = 1 .. Len(new) /\ Len(new) \in Nat OBVIOUS
    <3> QED BY <3>1
  <2> DEFINE t == w.tokens \o new
             u == w.times \o times
  <2>2. /\ t \in Seq(left.vocabulary) /\ u \in Seq(Nat) /\ Len(u) = Len(t)
    <3> HIDE DEF times
    <3>1. /\ t \in Seq(left.vocabulary) /\ Len(t) = Len(w.tokens) + Len(new)
      BY <1>1, Joins
    <3>2. u \in Seq(Nat) /\ Len(u) = Len(w.times) + Len(times)
      BY <1>1, <2>1, Joins
    <3> QED BY <1>1, <2>1, <3>1, <3>2
  <2>3. grown = [tokens |-> t, times |-> u, dropped |-> w.dropped, hits |-> w.hits,
                 reported |-> w.reported, fired |-> w.fired, bEvents |-> w.bEvents]
    <3>1. grown = [w EXCEPT !.tokens = t, !.times = u] OBVIOUS
    <3> HIDE DEF t, u, grown
    <3> QED BY <1>1, <3>1
  <2> HIDE DEF t, u
  <2>4. grown \in Windows
    <3> HIDE DEF grown
    <3> QED BY <1>1, <2>2, <2>3 DEF Windows
  <2>5. a = [win |-> v, since |-> Max2(0, Len(w.tokens) - (v.dropped - w.dropped))]
    BY <1>3 DEF Add
  <2>10. grown.hits = w.hits /\ grown.fired = w.fired /\ grown.reported = w.reported
         /\ grown.dropped = w.dropped
    <3> HIDE DEF grown
    <3> QED BY <2>3
  <2> HIDE DEF grown
  <2>6. /\ v \in Windows /\ v.dropped >= w.dropped
        /\ v.reported = {r \in w.reported : r.to > v.dropped}
        /\ v.hits = Since(w.hits, now - WindowS)
        /\ v.fired = w.fired \cap LiveCategories(Hits(v))
    BY <2>4, <2>10, EvictKeeps
  <2> HIDE DEF v
  <2>7. v.dropped \in Nat
    BY <2>6 DEF Windows
  <2>8. \A r \in w.reported : r \in v.reported \/ r.to <= v.dropped
    BY <1>1, <2>6, <2>7 DEF Spots
  <2>9. ASSUME Over(v), Suppressing(w) = Suppressing(v) PROVE Over(w)
    <3>1. Hits(v) \subseteq Hits(w)
      <4> DEFINE R == Hits(w)
      <4>1. w.hits \in Seq(R)
        BY <1>1 DEF Hits
      <4> HIDE DEF R
      <4>2. v.hits \in Seq(R)
        BY <2>6, <4>1, SinceType
      <4>3. \A i \in DOMAIN v.hits : v.hits[i] \in R
        BY <4>2
      <4> QED BY <4>3 DEF Hits, R
    <3>2. Contributing(v) \subseteq Contributing(w)
      BY <3>1 DEF Contributing
    <3>3. Contributing(v) \cap w.fired \subseteq v.fired
      <4>1. Contributing(v) \subseteq LiveCategories(Hits(v))
        BY DEF Contributing, LiveCategories
      <4> QED BY <2>6, <4>1
    <3> QED BY <2>6, <2>9, <3>2, <3>3, OverShrinks
  <2> QED BY <1>1, <2>5, <2>6, <2>7, <2>8, <2>9 DEF Max2
<1> QED BY <1>2, <1>3

\* A match, of any list.
Found == [phrase : Phrases, tier : Tiers, score : Int, from : Nat, to : Nat]

\* A match is recorded: a Tier A match changes no score.
LEMMA RecordKeeps ==
    ASSUME NEW w \in Windows, NEW m \in Found, NEW now \in Nat
    PROVE  LET v == Record(w, m, now) IN
           /\ v \in Windows /\ v.dropped = w.dropped
           /\ v.reported = w.reported \cup {Absolute(w, m)}
           /\ m.tier = "A" /\ Over(v) => Over(w)
<1> DEFINE v == Record(w, m, now)
           hit == [at |-> now, tier |-> m.tier, category |-> m.phrase.category]
           hits == Append(w.hits, hit)
           reported == w.reported \cup {Absolute(w, m)}
<1>1. /\ w = [tokens |-> w.tokens, times |-> w.times, dropped |-> w.dropped, hits |-> w.hits,
              reported |-> w.reported, fired |-> w.fired, bEvents |-> w.bEvents]
      /\ w.hits \in Seq(HitRecords) /\ w.reported \in SUBSET Spots /\ w.dropped \in Nat
  BY DEF Windows
<1>2. hit \in HitRecords /\ Absolute(w, m) \in Spots
  BY <1>1 DEF Found, Phrases, HitRecords, Spots, Absolute
<1>3. v = [w EXCEPT !.reported = reported, !.hits = hits]
  BY DEF Record
<1>4. reported \in SUBSET Spots
  BY <1>1, <1>2
<1> HIDE DEF hit, v, reported
<1>5. /\ hits \in Seq(HitRecords) /\ Len(hits) = Len(w.hits) + 1
      /\ \A i \in 1 .. Len(w.hits) : hits[i] = w.hits[i]
      /\ hits[Len(w.hits) + 1] = hit
  BY <1>1, <1>2
<1> HIDE DEF hits
<1>6. v = [tokens |-> w.tokens, times |-> w.times, dropped |-> w.dropped, hits |-> hits,
           reported |-> reported, fired |-> w.fired, bEvents |-> w.bEvents]
  BY <1>1, <1>3
<1>7. v \in Windows
  BY <1>4, <1>5, <1>6 DEF Windows
<1>8. ASSUME m.tier = "A", Over(v) PROVE Over(w)
  <2>1. Hits(v) = Hits(w) \cup {hit}
    <3>1. DOMAIN hits = 1 .. Len(w.hits) + 1 /\ DOMAIN w.hits = 1 .. Len(w.hits)
          /\ Len(w.hits) \in Nat
      BY <1>1, <1>5
    <3>2. DOMAIN hits = DOMAIN w.hits \cup {Len(w.hits) + 1}
      BY <3>1
    <3> QED BY <1>5, <1>6, <3>1, <3>2 DEF Hits
  <2>2. hit.tier = "A"
    BY <1>8 DEF hit
  <2>3. Contributing(v) = Contributing(w) /\ Suppressing(v) = Suppressing(w)
    BY <2>1, <2>2 DEF Contributing, Suppressing
  <2>4. v.fired = w.fired
    BY <1>6
  <2> QED BY <1>8, <2>3, <2>4 DEF Over, BScore
<1> QED BY <1>6, <1>7, <1>8 DEF v, reported

\* A window that has said it is over the threshold no longer is.
LEMMA FireKeeps ==
    ASSUME NEW w \in Windows
    PROVE  LET v == Fire(w) IN
           /\ v \in Windows /\ v.dropped = w.dropped /\ v.reported = w.reported
           /\ ~Over(v)
<1> DEFINE v == Fire(w)
           fired == w.fired \cup Contributing(w)
           b == w.bEvents + 1
<1>1. /\ w = [tokens |-> w.tokens, times |-> w.times, dropped |-> w.dropped, hits |-> w.hits,
              reported |-> w.reported, fired |-> w.fired, bEvents |-> w.bEvents]
      /\ w.fired \in SUBSET Categories /\ b \in Nat /\ w.hits \in Seq(HitRecords)
  BY DEF Windows
<1>2. Contributing(w) \subseteq Categories
  <2>1. Hits(w) \subseteq HitRecords
    BY <1>1 DEF Hits
  <2> QED BY <2>1 DEF Contributing, HitRecords, Categories
<1>3. v = [w EXCEPT !.fired = fired, !.bEvents = b]
  BY DEF Fire
<1>4. fired \in SUBSET Categories
  BY <1>1, <1>2
<1> HIDE DEF v, b
<1>5. v = [tokens |-> w.tokens, times |-> w.times, dropped |-> w.dropped, hits |-> w.hits,
           reported |-> w.reported, fired |-> fired, bEvents |-> b]
  <2> HIDE DEF fired
  <2> QED BY <1>1, <1>3
<1>6. v \in Windows
  <2> HIDE DEF fired
  <2> QED BY <1>1, <1>4, <1>5 DEF Windows
<1>7. ~Over(v)
  <2>1. Contributing(v) = Contributing(w)
    BY <1>5 DEF Contributing, Hits
  <2> QED BY <1>5, <2>1 DEF Over
<1> QED BY <1>5, <1>6, <1>7 DEF v

\* What is left of the rows of a counter when the old ones go.
LEMMA TrimmedType ==
    ASSUME NEW R, NEW rows \in Seq(R), NEW now
    PROVE  Trimmed(rows, now) \in Seq(R) /\ Recent(rows, now) \in Seq(R)
  BY SinceType DEF Trimmed, Recent

\* Counting an event makes counters of counters.
LEMMA CountType ==
    ASSUME NEW c \in CounterRecords, NEW known \in BOOLEAN, NEW kind \in EventKinds,
           NEW now \in Nat
    PROVE  Count(c, known, kind, now) \in CounterRecords
<1> DEFINE R == [at : Nat, kind : EventKinds]
           row == [at |-> now, kind |-> kind]
           rows == Append(c.events, row)
           t == Trimmed(rows, now)
<1>1. /\ c = [events |-> c.events, last |-> c.last] /\ c.events \in Seq(R) /\ c.last \in Int
      /\ row \in R
  BY DEF CounterRecords
<1> HIDE DEF row, R
<1>2. rows \in Seq(R)
  BY <1>1
<1>3. t \in Seq(R)
  <2> HIDE DEF rows
  <2> QED BY <1>2, TrimmedType
<1>4. Count(c, known, kind, now) = IF ~known THEN c ELSE [c EXCEPT !.events = t]
  BY DEF Count, row
<1> HIDE DEF t
<1>5. [c EXCEPT !.events = t] = [events |-> t, last |-> c.last]
  BY <1>1
<1> QED BY <1>1, <1>3, <1>4, <1>5 DEF CounterRecords, R

-----------------------------------------------------------------------------
(* Matches are handled one after the other.                                *)

\* What is handed to the recorder.
MatchEntries ==
    [event : {"match"}, written : BOOLEAN, tier : Tiers, words : Seq(Words), at : Nat,
     category : STRING, known : BOOLEAN, live : BOOLEAN, row : Nat, from : Nat, to : Nat, sid : Nat,
     list : FileNames, counted : Int]
OtherEntries ==
    [event : {"b_threshold", "alert"}, written : BOOLEAN, at : Nat, known : BOOLEAN,
     live : BOOLEAN]
Entries == MatchEntries \cup OtherEntries

\* Every match of a session is logged where its window knows it was reported,
\* or stood on words that have left the window.
Booked(entries, win, sid) ==
    \A i \in DOMAIN entries :
        entries[i].event = "match" /\ entries[i].sid = sid
            => \/ entries[i].to <= win.dropped
               \/ [row |-> entries[i].row, from |-> entries[i].from, to |-> entries[i].to]
                    \in win.reported

\* No two matches of one row and one session are logged at places that meet.
Apart(entries) ==
    \A i, j \in DOMAIN entries :
        /\ i < j /\ entries[i].event = "match" /\ entries[j].event = "match"
        /\ entries[i].sid = entries[j].sid /\ entries[i].row = entries[j].row
        => ~Meet(entries[i], entries[j].from, entries[j].to)

\* new is old and more, and what it says of matches is of session sid.
Grows(old, new, sid) ==
    /\ Len(old) <= Len(new)
    /\ \A i \in 1 .. Len(old) : new[i] = old[i]
    /\ \A i \in Len(old) + 1 .. Len(new) : new[i].event = "match" => new[i].sid = sid

\* What the handling of an utterance goes through.
Hearings ==
    {s \in [win : Windows, pend : Seq(left.vocabulary), sid : Nat, counted : Int,
            aged : BOOLEAN, counters : CounterRecords, log : Seq(Entries)] :
        (Over(s.win) => s.aged) /\ Booked(s.log, s.win, s.sid) /\ Apart(s.log)}

\* A process that hears: what it is known as, and the list it works with.
Hears(p) ==
    proc[p].known \in BOOLEAN /\ proc[p].live \in BOOLEAN /\ proc[p].list \in LoadedFiles

\* What is logged of a match, and of a window over the threshold.
LEMMA MatchEntryType ==
    ASSUME NEW p \in Procs, Hears(p), clock \in Nat, NEW s \in Hearings, NEW m \in Found
    PROVE  MatchEntry(p, s, m) \in MatchEntries /\ Entry(p, "b_threshold") \in OtherEntries
<1>1. s.win.dropped \in Nat /\ s.sid \in Nat /\ s.counted \in Int
  BY DEF Hearings, Windows
<1>2. m.phrase \in Phrases /\ m.tier \in Tiers /\ m.from \in Nat /\ m.to \in Nat
  BY DEF Found
<1>3. m.phrase.tokens \in Seq(Words) /\ m.phrase.category \in STRING /\ m.phrase.row \in Nat
  BY <1>2 DEF Phrases
<1>4. s.win.dropped + m.from \in Nat /\ s.win.dropped + m.to \in Nat
  BY <1>1, <1>2
<1>5. MatchEntry(p, s, m) \in MatchEntries
  <2>1. proc[p].list \in FileNames
    BY DEF Hears, LoadedFiles
  <2> QED BY <1>1, <1>2, <1>3, <1>4, <2>1 DEF MatchEntry, MatchEntries, Hears
<1>6. Entry(p, "b_threshold") \in OtherEntries
  BY DEF Entry, OtherEntries, Hears
<1> QED BY <1>5, <1>6

\* A new match is logged.
LEMMA LogMatch ==
    ASSUME NEW s \in Hearings, NEW m \in Found, NEW e \in MatchEntries, IsNew(s.win, m),
           e.sid = s.sid, e.row = m.phrase.row,
           e.from = s.win.dropped + m.from, e.to = s.win.dropped + m.to,
           NEW v \in Windows, v.dropped = s.win.dropped,
           v.reported = s.win.reported \cup {Absolute(s.win, m)}
    PROVE  LET log2 == Append(s.log, e) IN
           /\ log2 \in Seq(Entries) /\ Apart(log2) /\ Booked(log2, v, s.sid)
           /\ Grows(s.log, log2, s.sid)
<1> DEFINE log1 == s.log
           log2 == Append(log1, e)
           n == Len(log1)
<1>1. log1 \in Seq(Entries) /\ n \in Nat /\ e \in Entries /\ DOMAIN log1 = 1 .. n
  BY DEF Hearings, Entries
<1>2. /\ log2 \in Seq(Entries) /\ DOMAIN log2 = 1 .. n + 1 /\ Len(log2) = n + 1
      /\ log2[n + 1] = e /\ \A i \in 1 .. n : log2[i] = log1[i]
  <2> HIDE DEF log1
  <2> QED BY <1>1
<1>3. Booked(log1, s.win, s.sid) /\ Apart(log1)
  BY DEF Hearings
<1> HIDE DEF log1, log2, n
<1>4. Booked(log2, v, s.sid)
  <2> SUFFICES ASSUME NEW i \in 1 .. n + 1, log2[i].event = "match", log2[i].sid = s.sid
               PROVE  \/ log2[i].to <= v.dropped
                      \/ [row |-> log2[i].row, from |-> log2[i].from, to |-> log2[i].to]
                           \in v.reported
    BY <1>2 DEF Booked
  <2>1. CASE i = n + 1
    BY <1>2, <2>1 DEF Absolute
  <2>2. CASE i \in 1 .. n
    BY <1>1, <1>2, <1>3, <2>2 DEF Booked
  <2> QED BY <1>1, <2>1, <2>2
<1>5. ASSUME NEW i \in 1 .. n, log1[i].event = "match", log1[i].sid = s.sid,
             log1[i].row = e.row
      PROVE  ~Meet(log1[i], e.from, e.to)
  <2>1. log1[i] \in MatchEntries
    BY <1>1, <1>5 DEF Entries, OtherEntries
  <2>2. log1[i].to \in Nat /\ log1[i].from \in Nat
    BY <2>1 DEF MatchEntries
  <2>3. s.win.dropped \in Nat /\ m.from \in Nat /\ m.to \in Nat
    BY DEF Hearings, Windows, Found
  <2>4. CASE log1[i].to <= s.win.dropped
    BY <2>2, <2>3, <2>4 DEF Meet
  <2> DEFINE r == [row |-> log1[i].row, from |-> log1[i].from, to |-> log1[i].to]
  <2>5. CASE r \in s.win.reported
    <3>1. ~Overlap(r, Absolute(s.win, m))
      BY <1>5, <2>5 DEF IsNew
    <3> QED BY <3>1 DEF Overlap, Absolute, Meet
  <2> QED BY <1>1, <1>3, <1>5, <2>4, <2>5 DEF Booked
<1>6. Apart(log2)
  <2> SUFFICES ASSUME NEW i \in 1 .. n + 1, NEW j \in 1 .. n + 1, i < j,
                      log2[i].event = "match", log2[j].event = "match",
                      log2[i].sid = log2[j].sid, log2[i].row = log2[j].row
               PROVE  ~Meet(log2[i], log2[j].from, log2[j].to)
    BY <1>2 DEF Apart
  <2>1. i \in 1 .. n /\ log2[i] = log1[i]
    BY <1>1, <1>2
  <2>2. CASE j = n + 1
    BY <1>2, <1>5, <2>1, <2>2
  <2>3. CASE j \in 1 .. n
    BY <1>1, <1>2, <1>3, <2>1, <2>3 DEF Apart
  <2> QED BY <1>1, <2>2, <2>3
<1>7. Grows(log1, log2, s.sid)
  <2>1. ASSUME NEW i \in n + 1 .. n + 1 PROVE log2[i].sid = s.sid
    BY <1>1, <1>2
  <2> QED BY <1>1, <1>2, <2>1 DEF Grows, n
<1> QED BY <1>2, <1>4, <1>6, <1>7 DEF log1, log2

\* Something else is logged.
LEMMA LogOther ==
    ASSUME NEW entries \in Seq(Entries), NEW e \in OtherEntries, NEW win, NEW sid,
           Booked(entries, win, sid), Apart(entries)
    PROVE  LET log2 == Append(entries, e) IN
           /\ log2 \in Seq(Entries) /\ Apart(log2) /\ Booked(log2, win, sid)
           /\ \A x : Grows(x, entries, sid) /\ Len(x) \in Nat => Grows(x, log2, sid)
<1> DEFINE log2 == Append(entries, e)
           n == Len(entries)
<1>1. n \in Nat /\ e \in Entries /\ DOMAIN entries = 1 .. n /\ e.event # "match"
  BY DEF Entries, OtherEntries
<1>2. /\ log2 \in Seq(Entries) /\ DOMAIN log2 = 1 .. n + 1 /\ Len(log2) = n + 1
      /\ log2[n + 1] = e /\ \A i \in 1 .. n : log2[i] = entries[i]
  BY <1>1
<1> HIDE DEF log2, n
<1>3. \A i \in 1 .. n + 1 : log2[i].event = "match" => i \in 1 .. n
  BY <1>1, <1>2
<1>4. Apart(log2) /\ Booked(log2, win, sid)
  BY <1>1, <1>2, <1>3 DEF Apart, Booked
<1>5. ASSUME NEW x, Grows(x, entries, sid), Len(x) \in Nat PROVE Grows(x, log2, sid)
  <2>1. Len(x) <= n
    BY <1>5 DEF Grows, n
  <2>2. \A i \in 1 .. Len(x) : log2[i] = x[i]
    BY <1>1, <1>2, <1>5, <2>1 DEF Grows
  <2>3. ASSUME NEW i \in Len(x) + 1 .. n + 1, log2[i].event = "match" PROVE log2[i].sid = sid
    <3>1. i \in 1 .. n
      BY <1>1, <1>3, <1>5, <2>1, <2>3
    <3> QED BY <1>1, <1>2, <1>5, <2>3, <3>1 DEF Grows, n
  <2> QED BY <1>1, <1>2, <1>5, <2>1, <2>2, <2>3 DEF Grows
<1> QED BY <1>2, <1>4, <1>5 DEF log2

-----------------------------------------------------------------------------
(* The log and the counters agree.  How often either has a mark: a kind of  *)
(* event at a time.                                                        *)

Marks == [at : Nat, kind : EventKinds \ {"calls"}]
TallyRows == [at : Nat, kind : EventKinds]
Times(rows, x) == Cardinality({i \in DOMAIN rows : rows[i] = x})
Saying(entries, x) ==
    {i \in DOMAIN entries :
        entries[i].known /\ entries[i].at = x.at /\ KindOf(entries[i]) = x.kind}
SayingLive(entries, x) == {i \in Saying(entries, x) : entries[i].live}
Said(entries, x) == Cardinality(Saying(entries, x))
SaidLive(entries, x) == Cardinality(SayingLive(entries, x))
Fresh(x, now) == x.at >= now - DayS
Young(x) == Fresh(x, clock)

\* A place more.
LEMMA OneMore ==
    ASSUME NEW n \in Nat, NEW A \in SUBSET (1 .. n), NEW B \in SUBSET (1 .. n + 1),
           \A i \in 1 .. n : i \in A <=> i \in B
    PROVE  /\ Cardinality(A) \in Nat
           /\ Cardinality(B) = IF n + 1 \in B THEN Cardinality(A) + 1 ELSE Cardinality(A)
<1>1. IsFiniteSet(1 .. n)
  BY FS_Interval
<1>2. IsFiniteSet(A) /\ Cardinality(A) \in Nat
  <2> DEFINE D == 1 .. n
  <2>1. IsFiniteSet(D) /\ A \in SUBSET D
    BY <1>1
  <2> HIDE DEF D
  <2> QED BY <2>1, FS_Subset, FS_CardinalityType
<1>3. /\ n + 1 \notin A
      /\ \A i \in B : i \in A \/ i = n + 1
      /\ \A i \in A : i \in B
  OBVIOUS
<1>4. CASE n + 1 \in B
  <2>1. B = A \cup {n + 1}
    BY <1>3, <1>4
  <2> QED BY <1>2, <1>3, <1>4, <2>1, FS_AddElement
<1>5. CASE n + 1 \notin B
  <2>1. B = A
    BY <1>3, <1>5
  <2> QED BY <1>2, <1>5, <2>1
<1> QED BY <1>2, <1>4, <1>5

\* A list with one element more.
LEMMA TimesAppend ==
    ASSUME NEW R, NEW rows \in Seq(R), NEW e \in R, NEW x
    PROVE  /\ Times(rows, x) \in Nat
           /\ Times(Append(rows, e), x) = IF e = x THEN Times(rows, x) + 1 ELSE Times(rows, x)
<1> DEFINE n == Len(rows)
           t == Append(rows, e)
           A == {i \in 1 .. n : rows[i] = x}
           B == {i \in 1 .. n + 1 : t[i] = x}
<1>1. /\ n \in Nat /\ DOMAIN rows = 1 .. n /\ DOMAIN t = 1 .. n + 1 /\ t[n + 1] = e
      /\ \A i \in 1 .. n : t[i] = rows[i]
  OBVIOUS
<1> HIDE DEF n, t
<1>2. A \in SUBSET (1 .. n) /\ B \in SUBSET (1 .. n + 1) /\ (n + 1 \in B <=> e = x)
      /\ \A i \in 1 .. n : i \in A <=> i \in B
  BY <1>1
<1>3. Times(rows, x) = Cardinality(A) /\ Times(t, x) = Cardinality(B)
  BY <1>1 DEF Times
<1> HIDE DEF A, B
<1> QED BY <1>1, <1>2, <1>3, OneMore DEF t

\* What is kept of a list of rows has every mark that is young enough as often.
LEMMA SinceTimes ==
    ASSUME NEW R, NEW rows \in Seq(R), NEW limit, NEW x
    PROVE  /\ Times(rows, x) \in Nat /\ Times(Since(rows, limit), x) \in Nat
           /\ Times(Since(rows, limit), x) <= Times(rows, x)
           /\ x.at >= limit => Times(Since(rows, limit), x) = Times(rows, x)
<1> DEFINE N == Len(rows)
           First(i) == Cardinality({j \in 1 .. i : rows[j] = x})
<1>1. PICK f : /\ KeptTo(f, rows, limit) /\ Since(rows, limit) = f[N]
               /\ \A i \in 0 .. N : f[i] \in Seq(R)
  BY SinceInTurn
<1> DEFINE T == {i \in 0 .. N : /\ Times(f[i], x) \in Nat /\ First(i) \in Nat
                                /\ Times(f[i], x) <= First(i)
                                /\ x.at >= limit => Times(f[i], x) = First(i)}
<1>2. N \in Nat /\ DOMAIN rows = 1 .. N /\ \A i \in 1 .. N : rows[i] \in R OBVIOUS
<1>3. 0 \in T
  <2>1. f[0] = <<>>
    BY <1>1 DEF KeptTo
  <2>2. {i \in DOMAIN <<>> : <<>>[i] = x} = {} /\ {j \in 1 .. 0 : rows[j] = x} = {}
    OBVIOUS
  <2>3. Times(f[0], x) = 0 /\ First(0) = 0
    BY <2>1, <2>2, FS_EmptySet DEF Times
  <2> QED BY <1>2, <2>3
<1>4. ASSUME NEW i \in 1 .. N, i - 1 \in T PROVE i \in T
  <2> DEFINE a == f[i - 1]
             e == rows[i]
             A == {j \in 1 .. i - 1 : rows[j] = x}
             B == {j \in 1 .. i : rows[j] = x}
  <2>1. a \in Seq(R) /\ e \in R /\ f[i] = IF e.at >= limit THEN Append(a, e) ELSE a
    BY <1>1, <1>2 DEF KeptTo
  <2>2. First(i) = IF e = x THEN First(i - 1) + 1 ELSE First(i - 1)
    <3>1. /\ i - 1 \in Nat /\ A \in SUBSET (1 .. i - 1) /\ B \in SUBSET (1 .. (i - 1) + 1)
          /\ \A j \in 1 .. i - 1 : j \in A <=> j \in B
      OBVIOUS
    <3>2. (i - 1) + 1 \in B <=> e = x OBVIOUS
    <3> DEFINE k == i - 1
    <3>3. /\ k \in Nat /\ A \in SUBSET (1 .. k) /\ B \in SUBSET (1 .. k + 1)
          /\ \A j \in 1 .. k : j \in A <=> j \in B
          /\ (k + 1 \in B <=> e = x)
      BY <3>1, <3>2
    <3> HIDE DEF A, B, k
    <3>4. Cardinality(B) = IF e = x THEN Cardinality(A) + 1 ELSE Cardinality(A)
      BY <3>3, OneMore
    <3> QED BY <3>4 DEF A, B
  <2>3. /\ Times(a, x) \in Nat /\ First(i - 1) \in Nat /\ Times(a, x) <= First(i - 1)
        /\ x.at >= limit => Times(a, x) = First(i - 1)
    BY <1>4
  <2> HIDE DEF First, a, e
  <2>4. CASE e.at >= limit
    <3>1. f[i] = Append(a, e)
      BY <2>1, <2>4
    <3>2. Times(f[i], x) = IF e = x THEN Times(a, x) + 1 ELSE Times(a, x)
      BY <2>1, <3>1, TimesAppend
    <3> QED BY <2>2, <2>3, <3>2 DEF T
  <2>5. CASE ~(e.at >= limit)
    <3>1. f[i] = a /\ (x.at >= limit => e # x)
      BY <2>1, <2>5
    <3> QED BY <2>2, <2>3, <3>1 DEF T
  <2> QED BY <2>4, <2>5
<1>5. N \in T
  <2> HIDE DEF T
  <2>1. 0 .. N \subseteq T
    BY <1>2, <1>3, <1>4, Induct
  <2> QED BY <1>2, <2>1
<1>6. First(N) = Times(rows, x)
  BY <1>2 DEF Times
<1> HIDE DEF First
<1> QED BY <1>1, <1>5, <1>6

\* Ageing leaves every mark that is young enough as often.
LEMMA TrimmedTimes ==
    ASSUME NEW R, NEW rows \in Seq(R), NEW now, NEW x
    PROVE  /\ Times(rows, x) \in Nat /\ Times(Trimmed(rows, now), x) \in Nat
           /\ Times(Recent(rows, now), x) \in Nat
           /\ Times(Trimmed(rows, now), x) <= Times(rows, x)
           /\ Times(Recent(rows, now), x) <= Times(rows, x)
           /\ x.at >= now - DayS => /\ Times(Trimmed(rows, now), x) = Times(rows, x)
                                    /\ Times(Recent(rows, now), x) = Times(rows, x)
<1> DEFINE n == Times(rows, x)
           k == Times(Recent(rows, now), x)
<1>1. n \in Nat /\ k \in Nat /\ k <= n /\ (x.at >= now - DayS => k = n)
  BY SinceTimes DEF Recent
<1>2. Times(Trimmed(rows, now), x) \in {n, k}
  BY DEF Trimmed
<1> HIDE DEF n, k
<1> QED BY <1>1, <1>2 DEF n, k

\* An event of a known customer is counted once.
LEMMA CountTimes ==
    ASSUME NEW c \in CounterRecords, NEW kind \in EventKinds, NEW now \in Nat, NEW x,
           NEW row \in TallyRows, row.at = now, row.kind = kind
    PROVE  LET d == Count(c, TRUE, kind, now)
               m == IF x = row THEN Times(c.events, x) + 1 ELSE Times(c.events, x)
           IN /\ Times(c.events, x) \in Nat /\ Times(d.events, x) \in Nat
              /\ Times(d.events, x) <= m
              /\ Fresh(x, now) => Times(d.events, x) >= m
<1> DEFINE d == Count(c, TRUE, kind, now)
           rows == Append(c.events, row)
           t == Trimmed(rows, now)
<1>1. /\ c = [events |-> c.events, last |-> c.last] /\ c.events \in Seq(TallyRows)
      /\ row = [at |-> now, kind |-> kind]
  BY DEF CounterRecords, TallyRows
<1>2. d = [c EXCEPT !.events = t]
  BY <1>1, Zenon DEF Count
<1>3. Times(c.events, x) \in Nat
      /\ Times(rows, x) = IF row = x THEN Times(c.events, x) + 1 ELSE Times(c.events, x)
  BY <1>1, TimesAppend
<1>4. rows \in Seq(TallyRows)
  BY <1>1
<1> HIDE DEF rows
<1>5. /\ Times(rows, x) \in Nat /\ Times(t, x) \in Nat /\ Times(t, x) <= Times(rows, x)
      /\ Fresh(x, now) => Times(t, x) = Times(rows, x)
  BY <1>4, TrimmedTimes DEF Fresh
<1> HIDE DEF t, d
<1>6. d.events = t
  BY <1>1, <1>2
<1> QED BY <1>3, <1>5, <1>6 DEF d

\* What is logged is said once.
LEMMA SaidAppend ==
    ASSUME NEW R, NEW entries \in Seq(R), NEW e \in R, NEW x
    PROVE  LET says == e.known /\ e.at = x.at /\ KindOf(e) = x.kind
               more == Append(entries, e)
           IN /\ Said(entries, x) \in Nat /\ SaidLive(entries, x) \in Nat
              /\ Said(more, x) = IF says THEN Said(entries, x) + 1 ELSE Said(entries, x)
              /\ SaidLive(more, x) = IF says /\ e.live THEN SaidLive(entries, x) + 1
                                                       ELSE SaidLive(entries, x)
<1> DEFINE n == Len(entries)
           t == Append(entries, e)
           P(y) == y.known /\ y.at = x.at /\ KindOf(y) = x.kind
           A == {i \in 1 .. n : P(entries[i])}
           B == {i \in 1 .. n + 1 : P(t[i])}
           C == {i \in A : entries[i].live}
           D == {i \in B : t[i].live}
<1>1. /\ n \in Nat /\ DOMAIN entries = 1 .. n /\ DOMAIN t = 1 .. n + 1 /\ t[n + 1] = e
      /\ \A i \in 1 .. n : t[i] = entries[i]
  OBVIOUS
<1>2. /\ Saying(entries, x) = A /\ Saying(t, x) = B
  BY <1>1 DEF Saying
<1>3. SayingLive(entries, x) = C /\ SayingLive(t, x) = D
  BY <1>2 DEF SayingLive
<1> HIDE DEF n, t, P
<1>4. A \in SUBSET (1 .. n) /\ B \in SUBSET (1 .. n + 1) /\ (n + 1 \in B <=> P(e))
      /\ \A i \in 1 .. n : i \in A <=> i \in B
  BY <1>1
<1>5. C \in SUBSET (1 .. n) /\ D \in SUBSET (1 .. n + 1) /\ (n + 1 \in D <=> P(e) /\ e.live)
      /\ \A i \in 1 .. n : i \in C <=> i \in D
  <2> HIDE DEF A, B
  <2> QED BY <1>1, <1>4
<1> HIDE DEF A, B, C, D
<1>6. Cardinality(A) \in Nat /\ Cardinality(B) = IF P(e) THEN Cardinality(A) + 1 ELSE Cardinality(A)
  BY <1>1, <1>4, OneMore
<1>7. /\ Cardinality(C) \in Nat
      /\ Cardinality(D) = IF P(e) /\ e.live THEN Cardinality(C) + 1 ELSE Cardinality(C)
  BY <1>1, <1>5, OneMore
<1> QED BY <1>2, <1>3, <1>6, <1>7 DEF Said, SaidLive, P, t

\* How often marks are counted and logged is a number.
LEMMA TallyNumbers ==
    ASSUME NEW c \in CounterRecords, NEW entries \in Seq(Entries), NEW x
    PROVE  Times(c.events, x) \in Nat /\ Said(entries, x) \in Nat /\ SaidLive(entries, x) \in Nat
<1>1. c.events \in Seq(TallyRows)
  BY DEF CounterRecords, TallyRows
<1>2. Times(c.events, x) \in Nat
  BY <1>1, SinceTimes
<1> DEFINE e == [event |-> "alert", written |-> TRUE, at |-> 0, known |-> TRUE,
                  live |-> TRUE]
<1>3. e \in Entries
  BY DEF Entries, OtherEntries
<1> HIDE DEF e
<1> QED BY <1>2, <1>3, SaidAppend

\* Of mark x as many are counted, from c to d, as are logged, from l to m: no
\* more, and no fewer of a young mark; they are live if the copy is.
Tallied(live, c, l, d, m, x) ==
    /\ Times(d.events, x) + Said(l, x) <= Times(c.events, x) + Said(m, x)
    /\ Young(x) => Times(d.events, x) + Said(l, x) = Times(c.events, x) + Said(m, x)
    /\ Said(l, x) <= Said(m, x)
    /\ live => SaidLive(m, x) + Said(l, x) = SaidLive(l, x) + Said(m, x)
    /\ ~live => SaidLive(m, x) = SaidLive(l, x)
Tallies(live, c, l, d, m) == \A x \in Marks : Tallied(live, c, l, d, m, x)

\* Where nothing is counted or logged, both agree.
LEMMA TalliesSame ==
    ASSUME NEW live \in BOOLEAN, NEW c \in CounterRecords, NEW l \in Seq(Entries)
    PROVE  Tallies(live, c, l, c, l)
<1> SUFFICES ASSUME NEW x \in Marks PROVE Tallied(live, c, l, c, l, x)
  BY DEF Tallies
<1>1. Times(c.events, x) \in Nat /\ Said(l, x) \in Nat /\ SaidLive(l, x) \in Nat
  BY TallyNumbers
<1> QED BY <1>1 DEF Tallied

\* What agrees twice has agreed.
LEMMA TalliesOn ==
    ASSUME NEW live \in BOOLEAN,
           NEW c \in CounterRecords, NEW d \in CounterRecords, NEW e \in CounterRecords,
           NEW l \in Seq(Entries), NEW m \in Seq(Entries), NEW n \in Seq(Entries),
           Tallies(live, c, l, d, m), Tallies(live, d, m, e, n)
    PROVE  Tallies(live, c, l, e, n)
<1> SUFFICES ASSUME NEW x \in Marks PROVE Tallied(live, c, l, e, n, x)
  BY DEF Tallies
<1>1. Tallied(live, c, l, d, m, x) /\ Tallied(live, d, m, e, n, x)
  BY DEF Tallies
<1>2. Times(c.events, x) \in Nat /\ Said(l, x) \in Nat /\ SaidLive(l, x) \in Nat
  BY TallyNumbers
<1>3. Times(d.events, x) \in Nat /\ Said(m, x) \in Nat /\ SaidLive(m, x) \in Nat
  BY TallyNumbers
<1>4. Times(e.events, x) \in Nat /\ Said(n, x) \in Nat /\ SaidLive(n, x) \in Nat
  BY TallyNumbers
<1> DEFINE C == Times(c.events, x)
           D == Times(d.events, x)
           E == Times(e.events, x)
           L == Said(l, x)
           M == Said(m, x)
           N == Said(n, x)
           LL == SaidLive(l, x)
           ML == SaidLive(m, x)
           NL == SaidLive(n, x)
<1>5. /\ D + L <= C + M /\ (Young(x) => D + L = C + M) /\ L <= M
      /\ live => ML + L = LL + M
      /\ ~live => ML = LL
  BY <1>1, Zenon DEF Tallied
<1>6. /\ E + M <= D + N /\ (Young(x) => E + M = D + N) /\ M <= N
      /\ live => NL + M = ML + N
      /\ ~live => NL = ML
  BY <1>1, Zenon DEF Tallied
<1>7. /\ C \in Nat /\ D \in Nat /\ E \in Nat /\ L \in Nat /\ M \in Nat /\ N \in Nat
      /\ LL \in Nat /\ ML \in Nat /\ NL \in Nat
  BY <1>2, <1>3, <1>4
<1> HIDE DEF C, D, E, L, M, N, LL, ML, NL
<1>8. /\ E + L <= C + N /\ (Young(x) => E + L = C + N) /\ L <= N
      /\ live => NL + L = LL + N
      /\ ~live => NL = LL
  <2>1. E + L <= C + N /\ L <= N
    BY <1>5, <1>6, <1>7
  <2>2. Young(x) => E + L = C + N
    BY <1>5, <1>6, <1>7
  <2>3. live => NL + L = LL + N
    BY <1>5, <1>6, <1>7
  <2>4. ~live => NL = LL
    BY <1>5, <1>6
  <2> QED BY <2>1, <2>2, <2>3, <2>4
<1> QED BY <1>8 DEF Tallied, C, E, L, N, LL, NL

\* An entry is counted as what it is, if it is of a kind that is counted.
LEMMA TalliesEntry ==
    ASSUME NEW live \in BOOLEAN, NEW known \in BOOLEAN, clock \in Nat,
           NEW c \in CounterRecords, NEW l \in Seq(Entries), NEW e \in Entries,
           e.at = clock, e.known = known, e.live = live, NEW d,
           KindOf(e) \in EventKinds => d = Count(c, known, KindOf(e), clock),
           KindOf(e) \notin EventKinds => d = c
    PROVE  Tallies(live, c, l, d, Append(l, e))
<1> DEFINE kind == KindOf(e)
           more == Append(l, e)
<1> SUFFICES ASSUME NEW x \in Marks PROVE Tallied(live, c, l, d, more, x)
  BY DEF Tallies
<1> DEFINE says == known /\ clock = x.at /\ kind = x.kind
<1>1. /\ Said(l, x) \in Nat /\ SaidLive(l, x) \in Nat
      /\ Said(more, x) = IF says THEN Said(l, x) + 1 ELSE Said(l, x)
      /\ SaidLive(more, x) = IF says /\ live THEN SaidLive(l, x) + 1 ELSE SaidLive(l, x)
  BY SaidAppend
<1>2. /\ Times(c.events, x) \in Nat
      /\ x.kind \in EventKinds /\ x.at \in Nat /\ x = [at |-> x.at, kind |-> x.kind]
  BY TallyNumbers DEF Marks
<1> HIDE DEF kind, more
<1>3. CASE kind \in EventKinds /\ known
  <2>1. d = Count(c, TRUE, kind, clock)
    <3>1. known = TRUE
      BY <1>3
    <3>2. d = Count(c, known, kind, clock)
      BY <1>3 DEF kind
    <3> QED BY <3>1, <3>2
  <2> DEFINE C == Times(c.events, x)
             D == Times(d.events, x)
             row == [at |-> clock, kind |-> kind]
             k == IF x = row THEN C + 1 ELSE C
  <2>3. x = row <=> says
    BY <1>2, <1>3
  <2>6. row \in TallyRows /\ row.at = clock /\ row.kind = kind
    BY <1>3 DEF TallyRows
  <2> HIDE DEF row
  <2>2. D \in Nat /\ D <= k /\ (Young(x) => D = k)
    <3> DEFINE f == Count(c, TRUE, kind, clock)
    <3>1. /\ Times(c.events, x) \in Nat /\ Times(f.events, x) \in Nat
          /\ Times(f.events, x) <= IF x = row THEN Times(c.events, x) + 1 ELSE Times(c.events, x)
          /\ Fresh(x, clock) => Times(f.events, x) >=
                 IF x = row THEN Times(c.events, x) + 1 ELSE Times(c.events, x)
      BY <1>3, <2>6, CountTimes
    <3> HIDE DEF f
    <3>2. D = Times(f.events, x)
      BY <2>1 DEF f
    <3>3. C \in Nat /\ D \in Nat /\ D <= k /\ (Fresh(x, clock) => D >= k)
      BY <3>1, <3>2
    <3> HIDE DEF C, D
    <3>4. C \in Nat /\ D \in Nat /\ D <= k /\ (Fresh(x, clock) => D = k)
      BY <3>3
    <3> QED BY <3>4 DEF Young
  <2> DEFINE L == Said(l, x)
             M == Said(more, x)
             LL == SaidLive(l, x)
             ML == SaidLive(more, x)
  <2>4. /\ C \in Nat /\ D \in Nat /\ L \in Nat /\ LL \in Nat /\ D <= IF says THEN C + 1 ELSE C
        /\ Young(x) => D = IF says THEN C + 1 ELSE C
        /\ M = IF says THEN L + 1 ELSE L
        /\ ML = IF says /\ live THEN LL + 1 ELSE LL
    BY <1>1, <1>2, <2>2, <2>3
  <2> HIDE DEF says, C, D, L, M, LL, ML
  <2>5. /\ D + L <= C + M /\ (Young(x) => D + L = C + M) /\ L <= M
        /\ live => ML + L = LL + M
        /\ ~live => ML = LL
    BY <2>4
  <2> QED BY <2>5 DEF Tallied, C, D, L, M, LL, ML
<1>4. CASE ~(kind \in EventKinds /\ known)
  <2>1. d = c /\ ~says
    BY <1>2, <1>4 DEF kind, Count
  <2> HIDE DEF says
  <2> QED BY <1>1, <1>2, <2>1 DEF Tallied
<1> QED BY <1>3, <1>4

\* A call is counted and not logged.
LEMMA TalliesCall ==
    ASSUME NEW live \in BOOLEAN, clock \in Nat, NEW c \in CounterRecords, NEW l \in Seq(Entries)
    PROVE  Tallies(live, c, l, Count(c, TRUE, "calls", clock), l)
<1> DEFINE d == Count(c, TRUE, "calls", clock)
           row == [at |-> clock, kind |-> "calls"]
           kind == "calls"
<1> SUFFICES ASSUME NEW x \in Marks PROVE Tallied(live, c, l, d, l, x)
  BY DEF Tallies
<1>1. Times(c.events, x) \in Nat /\ Said(l, x) \in Nat /\ SaidLive(l, x) \in Nat
  BY TallyNumbers
<1>2. row \in TallyRows /\ row.at = clock /\ row.kind = kind /\ x # row /\ kind \in EventKinds
  BY DEF TallyRows, EventKinds, Marks
<1>3. d = Count(c, TRUE, kind, clock) OBVIOUS
<1> HIDE DEF row, kind, d
<1>4. LET f == Count(c, TRUE, kind, clock)
      IN /\ Times(f.events, x) \in Nat /\ Times(f.events, x) <= Times(c.events, x)
         /\ Fresh(x, clock) => Times(f.events, x) >= Times(c.events, x)
  BY <1>2, CountTimes
<1>5. /\ Times(d.events, x) \in Nat /\ Times(d.events, x) <= Times(c.events, x)
      /\ Fresh(x, clock) => Times(d.events, x) >= Times(c.events, x)
  BY <1>3, <1>4
<1> DEFINE C == Times(c.events, x)
           D == Times(d.events, x)
<1>6. C \in Nat /\ D \in Nat /\ D <= C /\ (Fresh(x, clock) => D >= C)
  BY <1>1, <1>5
<1> HIDE DEF C, D
<1>7. D <= C /\ (Fresh(x, clock) => D = C)
  BY <1>6
<1> QED BY <1>1, <1>6, <1>7 DEF Tallied, Young, C, D

\* What grows twice has grown.
LEMMA GrowsOn ==
    ASSUME NEW x, NEW y, NEW z, NEW sid, Len(x) \in Nat, Len(y) \in Nat, Len(z) \in Nat,
           Grows(x, y, sid), Grows(y, z, sid)
    PROVE  Grows(x, z, sid)
<1>1. Len(x) <= Len(y) /\ Len(y) <= Len(z)
  BY DEF Grows
<1>2. ASSUME NEW i \in 1 .. Len(x) PROVE z[i] = x[i]
  <2>1. i \in 1 .. Len(y)
    BY <1>1
  <2> QED BY <2>1 DEF Grows
<1>3. ASSUME NEW i \in Len(x) + 1 .. Len(z), z[i].event = "match" PROVE z[i].sid = sid
  <2>1. CASE i \in 1 .. Len(y)
    <3>1. i \in Len(x) + 1 .. Len(y)
      BY <2>1
    <3> QED BY <1>3, <2>1, <3>1 DEF Grows
  <2>2. CASE i \in Len(y) + 1 .. Len(z)
    BY <1>3, <2>2 DEF Grows
  <2> QED BY <2>1, <2>2
<1> QED BY <1>1, <1>2, <1>3 DEF Grows

\* Handling a match keeps all that is said of a hearing.
LEMMA HandleMatchKeeps ==
    ASSUME NEW p \in Procs, Hears(p), clock \in Nat, NEW s \in Hearings, NEW m \in Found
    PROVE  LET t == HandleMatch(p, s, m) IN
           /\ t \in Hearings /\ t.sid = s.sid /\ t.win.tokens \in Seq(left.vocabulary)
           /\ Grows(s.log, t.log, s.sid)
           /\ Tallies(proc[p].live, s.counters, s.log, t.counters, t.log)
<1> DEFINE t == HandleMatch(p, s, m)
           live == proc[p].live
           win == Record(s.win, m, clock)
           kind == IF m.tier = "A" THEN "kill" ELSE "near"
           counters == IF m.tier \in {"A", "A-near"}
                       THEN Count(s.counters, proc[p].known, kind, clock) ELSE s.counters
           e == MatchEntry(p, s, m)
           log2 == Append(s.log, e)
           aged == s.aged /\ m.tier = "A"
           noted == [s EXCEPT !.win = win, !.counters = counters, !.log = log2, !.aged = aged]
           counters2 == Count(counters, proc[p].known, "b_event", clock)
           log3 == Append(log2, Entry(p, "b_threshold"))
           fired == [noted EXCEPT !.win = Fire(win), !.counters = counters2, !.log = log3]
<1>1. /\ s = [win |-> s.win, pend |-> s.pend, sid |-> s.sid, counted |-> s.counted,
              aged |-> s.aged, counters |-> s.counters, log |-> s.log]
      /\ s.win \in Windows /\ s.pend \in Seq(left.vocabulary) /\ s.sid \in Nat
      /\ s.counted \in Int /\ s.aged \in BOOLEAN /\ s.counters \in CounterRecords
      /\ s.log \in Seq(Entries) /\ (Over(s.win) => s.aged)
      /\ Booked(s.log, s.win, s.sid) /\ Apart(s.log)
  BY DEF Hearings
<1>2. /\ win \in Windows /\ win.dropped = s.win.dropped
      /\ win.reported = s.win.reported \cup {Absolute(s.win, m)}
      /\ m.tier = "A" /\ Over(win) => Over(s.win)
  BY <1>1, RecordKeeps
<1>3. counters \in CounterRecords
  BY <1>1, CountType DEF Hears, EventKinds
<1>4. counters2 \in CounterRecords
  <2> HIDE DEF counters
  <2> QED BY <1>3, CountType DEF Hears, EventKinds
<1>5. /\ Fire(win) \in Windows /\ Fire(win).dropped = win.dropped
      /\ Fire(win).reported = win.reported /\ ~Over(Fire(win))
  BY <1>2, FireKeeps
<1>6. e \in MatchEntries /\ Entry(p, "b_threshold") \in OtherEntries
  BY MatchEntryType
<1>7. e.sid = s.sid /\ e.row = m.phrase.row
      /\ e.from = s.win.dropped + m.from /\ e.to = s.win.dropped + m.to
  BY DEF MatchEntry
<1>8. t = IF ~IsNew(s.win, m) THEN s
          ELSE IF m.tier = "A" \/ ~Crosses(win) THEN noted ELSE fired
  BY Zenon DEF HandleMatch
<1>9. /\ e \in Entries /\ e.at = clock /\ e.known = proc[p].known /\ e.live = live
       /\ e.event = "match" /\ e.tier = m.tier
  BY <1>6 DEF MatchEntry, Entries
<1>10. Tallies(live, s.counters, s.log, counters, log2)
  <2> DEFINE known == proc[p].known
             old == s.counters
             l == s.log
  <2>1. KindOf(e) = IF m.tier = "A" THEN "kill" ELSE IF m.tier = "A-near" THEN "near" ELSE "none"
    <3> HIDE DEF e
    <3> QED BY <1>9 DEF KindOf
  <2>2. KindOf(e) \in EventKinds <=> m.tier \in {"A", "A-near"}
    <3> HIDE DEF e
    <3> QED BY <2>1 DEF EventKinds
  <2>3. m.tier \in {"A", "A-near"} => KindOf(e) = kind
    <3> HIDE DEF e
    <3> QED BY <2>1
  <2>4. live \in BOOLEAN /\ known \in BOOLEAN /\ old \in CounterRecords /\ l \in Seq(Entries)
    BY <1>1 DEF Hears
  <2>5. /\ KindOf(e) \in EventKinds => counters = Count(old, known, KindOf(e), clock)
        /\ KindOf(e) \notin EventKinds => counters = old
    <3> HIDE DEF e, kind
    <3> QED BY <2>2, <2>3
  <2> HIDE DEF e, counters, known, old, l, live
  <2>6. Tallies(live, old, l, counters, Append(l, e))
    <3>1. e.known = known
      BY <1>9 DEF known
    <3> QED BY <1>9, <2>4, <2>5, <3>1, TalliesEntry
  <2> QED BY <2>6 DEF old, l
<1>11. log2 \in Seq(Entries) => Tallies(live, counters, log2, counters2, log3)
  <2> DEFINE b == Entry(p, "b_threshold")
             known == proc[p].known
  <2>1. b \in Entries /\ b.at = clock /\ b.known = known /\ b.live = live
        /\ KindOf(b) = "b_event" /\ KindOf(b) \in EventKinds
    BY <1>6 DEF Entry, Entries, KindOf, EventKinds
  <2>2. live \in BOOLEAN /\ known \in BOOLEAN /\ counters2 = Count(counters, known, "b_event", clock)
    BY DEF Hears
  <2> HIDE DEF counters, counters2, b, known, live, log2
  <2>3. log2 \in Seq(Entries) => Tallies(live, counters, log2, counters2, Append(log2, b))
    BY <1>3, <2>1, <2>2, TalliesEntry
  <2> QED BY <2>3 DEF b
<1> HIDE DEF t, win, counters, counters2, e, live
<1>12. live \in BOOLEAN /\ Tallies(live, s.counters, s.log, s.counters, s.log)
  <2>1. live \in BOOLEAN
    BY DEF live, Hears
  <2> QED BY <1>1, <2>1, TalliesSame
<1>13. Len(s.log) \in Nat /\ Grows(s.log, s.log, s.sid)
  BY <1>1 DEF Grows
<1>14. CASE ~IsNew(s.win, m)
  BY <1>1, <1>8, <1>13, <1>14, <1>12 DEF t, Windows, live
<1>15. CASE IsNew(s.win, m)
  <2>1. /\ log2 \in Seq(Entries) /\ Apart(log2) /\ Booked(log2, win, s.sid)
        /\ Grows(s.log, log2, s.sid)
    BY <1>2, <1>6, <1>7, <1>15, LogMatch
  <2> HIDE DEF log2
  <2>2. noted = [win |-> win, pend |-> s.pend, sid |-> s.sid, counted |-> s.counted,
                 aged |-> aged, counters |-> counters, log |-> log2]
    <3> HIDE DEF aged
    <3>1. noted = [s EXCEPT !.win = win, !.counters = counters, !.log = log2, !.aged = aged]
      OBVIOUS
    <3> HIDE DEF noted
    <3> QED BY <1>1, <3>1
  <2>3. CASE m.tier = "A" \/ ~Crosses(win)
    <3>1. t = noted
      BY <1>8, <1>15, <2>3
    <3>2. Over(win) => aged
      <4>1. Over(win) => m.tier = "A"
        BY <2>3 DEF Over, Crosses
      <4> QED BY <1>1, <1>2, <4>1
    <3>3. aged \in BOOLEAN OBVIOUS
    <3> HIDE DEF aged, noted
    <3>4. t \in Hearings
      BY <1>1, <1>2, <1>3, <2>1, <2>2, <3>1, <3>2, <3>3 DEF Hearings
    <3>5. Tallies(live, s.counters, s.log, t.counters, t.log)
      <4>1. t.counters = counters /\ t.log = log2
        BY <2>2, <3>1
      <4> QED BY <1>10, <4>1 DEF log2
    <3> QED BY <1>2, <2>1, <2>2, <3>1, <3>4, <3>5 DEF t, Windows, live
  <2>4. CASE ~(m.tier = "A" \/ ~Crosses(win))
    <3>1. t = fired
      BY <1>8, <1>15, <2>4
    <3>2. /\ log3 \in Seq(Entries) /\ Apart(log3) /\ Booked(log3, win, s.sid)
          /\ Grows(s.log, log3, s.sid)
      BY <1>6, <1>13, <2>1, LogOther
    <3>3. aged \in BOOLEAN OBVIOUS
    <3> HIDE DEF aged, noted, log3
    <3>4. fired = [win |-> Fire(win), pend |-> s.pend, sid |-> s.sid, counted |-> s.counted,
                   aged |-> aged, counters |-> counters2, log |-> log3]
      <4> DEFINE f == Fire(win)
      <4> HIDE DEF f
      <4>1. fired = [noted EXCEPT !.win = f, !.counters = counters2, !.log = log3]
        BY Zenon DEF f
      <4> HIDE DEF fired
      <4>2. fired = [win |-> f, pend |-> s.pend, sid |-> s.sid, counted |-> s.counted,
                     aged |-> aged, counters |-> counters2, log |-> log3]
        BY <2>2, <4>1
      <4> QED BY <4>2 DEF f
    <3>5. Booked(log3, Fire(win), s.sid)
      BY <1>5, <3>2 DEF Booked
    <3> HIDE DEF fired
    <3>6. t \in Hearings
      BY <1>1, <1>4, <1>5, <3>1, <3>2, <3>3, <3>4, <3>5 DEF Hearings
    <3>7. Tallies(live, s.counters, s.log, t.counters, t.log)
      <4>1. t.counters = counters2 /\ t.log = log3
        BY <3>1, <3>4
      <4>2. Tallies(live, s.counters, s.log, counters2, log3)
        <5> DEFINE c == s.counters
                   l == s.log
        <5>1. c \in CounterRecords /\ l \in Seq(Entries)
          BY <1>1
        <5>2. Tallies(live, c, l, counters, log2)
          BY <1>10 DEF log2
        <5>3. Tallies(live, counters, log2, counters2, log3)
          BY <1>11, <2>1 DEF log2, log3
        <5> HIDE DEF c, l
        <5>4. Tallies(live, c, l, counters2, log3)
          BY <1>3, <1>4, <1>12, <2>1, <3>2, <5>1, <5>2, <5>3, TalliesOn
        <5> QED BY <5>4 DEF c, l
      <4> QED BY <4>1, <4>2
    <3> QED BY <1>5, <3>1, <3>2, <3>4, <3>6, <3>7 DEF t, Windows, live
  <2> QED BY <2>3, <2>4
<1> QED BY <1>14, <1>15 DEF t

\* Hearing s with the words of an utterance in its window.
Listened(s, words) ==
    LET added == Add(s.win, words, clock)
    IN [s EXCEPT !.win = added.win, !.pend = <<>>,
                 !.aged = @ \/ Suppressing(s.win) # Suppressing(added.win)]

\* h[i] is what i of the matches found have made of hearing s.
Turns(p, s, words, k, found, h) ==
    LET added == Add(s.win, words, clock)
        heard == Listened(s, words)
    IN /\ found = Match(proc[p].list, added.win.tokens, added.since)
       /\ DOMAIN found = 1 .. k /\ \A i \in 1 .. k : found[i] \in Found
       /\ HandledTo(h, p, heard, k, found)
       /\ \A i \in 0 .. k : /\ h[i] \in Hearings /\ h[i].sid = s.sid
                            /\ Grows(s.log, h[i].log, s.sid)
                            /\ Tallies(proc[p].live, s.counters, s.log, h[i].counters, h[i].log)

\* An utterance: its words join the window and its matches are handled.
LEMMA UtteranceTurns ==
    ASSUME NEW p \in Procs, Hears(p), clock \in Nat, NEW s \in Hearings,
           left.vocabulary \subseteq Words,
           \E V \in Vocabularies : left.vocabulary \subseteq V,
           NEW words \in Seq(left.vocabulary)
    PROVE  \E k \in Nat : \E found : \E h :
              Turns(p, s, words, k, found, h) /\ Utterance(p, s, words) = h[k]
<1> DEFINE a == Add(s.win, words, clock)
           aged == s.aged \/ Suppressing(s.win) # Suppressing(a.win)
           heard == [s EXCEPT !.win = a.win, !.pend = <<>>, !.aged = aged]
           found == Match(proc[p].list, a.win.tokens, a.since)
<1>0. found = Match(proc[p].list, a.win.tokens, a.since) /\ a = Add(s.win, words, clock)
  OBVIOUS
<1>1. /\ s = [win |-> s.win, pend |-> s.pend, sid |-> s.sid, counted |-> s.counted,
              aged |-> s.aged, counters |-> s.counters, log |-> s.log]
      /\ s.win \in Windows /\ s.pend \in Seq(left.vocabulary) /\ s.sid \in Nat
      /\ s.counted \in Int /\ s.aged \in BOOLEAN /\ s.counters \in CounterRecords
      /\ s.log \in Seq(Entries) /\ (Over(s.win) => s.aged)
      /\ Booked(s.log, s.win, s.sid) /\ Apart(s.log)
  BY DEF Hearings
<1>2. /\ a.win \in Windows /\ a.since \in Nat /\ a.win.dropped >= s.win.dropped
      /\ a.win.reported \subseteq s.win.reported
      /\ \A r \in s.win.reported : r \in a.win.reported \/ r.to <= a.win.dropped
      /\ Over(a.win) /\ Suppressing(s.win) = Suppressing(a.win) => Over(s.win)
  BY <1>1, AddKeeps
<1>3. Utterance(p, s, words) = AllHandled(p, heard, found) /\ Listened(s, words) = heard
  BY DEF Utterance, AllHandled, Listened
<1> HIDE DEF a
<1>4. /\ heard \in Hearings /\ heard.sid = s.sid /\ heard.log = s.log
      /\ heard.counters = s.counters
  <2>1. heard = [win |-> a.win, pend |-> <<>>, sid |-> s.sid, counted |-> s.counted,
                 aged |-> aged, counters |-> s.counters, log |-> s.log]
    <3> HIDE DEF aged
    <3> DEFINE v == a.win
    <3>1. heard = [s EXCEPT !.win = v, !.pend = <<>>, !.aged = aged] OBVIOUS
    <3> HIDE DEF v, heard
    <3>2. heard = [win |-> v, pend |-> <<>>, sid |-> s.sid, counted |-> s.counted,
                   aged |-> aged, counters |-> s.counters, log |-> s.log]
      BY <1>1, <3>1
    <3> QED BY <3>2 DEF v
  <2>2. aged \in BOOLEAN /\ (Over(a.win) => aged)
    BY <1>1, <1>2
  <2>3. Booked(s.log, a.win, s.sid)
    <3> SUFFICES ASSUME NEW i \in DOMAIN s.log, s.log[i].event = "match",
                        s.log[i].sid = s.sid,
                        ~(s.log[i].to <= a.win.dropped)
                 PROVE  [row |-> s.log[i].row, from |-> s.log[i].from, to |-> s.log[i].to]
                           \in a.win.reported
      BY DEF Booked
    <3>1. s.log[i] \in MatchEntries
      BY <1>1 DEF Entries, OtherEntries
    <3>2. s.log[i].to \in Nat /\ a.win.dropped \in Nat /\ s.win.dropped \in Nat
      BY <1>1, <1>2, <3>1 DEF MatchEntries, Windows
    <3>3. ~(s.log[i].to <= s.win.dropped)
      BY <1>2, <3>2
    <3> DEFINE r == [row |-> s.log[i].row, from |-> s.log[i].from, to |-> s.log[i].to]
    <3>4. r \in s.win.reported /\ r.to = s.log[i].to
      BY <1>1, <3>3 DEF Booked
    <3> HIDE DEF r
    <3>5. r \in a.win.reported
      BY <1>2, <3>4
    <3> QED BY <3>5 DEF r
  <2> HIDE DEF heard, aged
  <2> QED BY <1>1, <1>2, <2>1, <2>2, <2>3 DEF Hearings
<1>5. Heeded(a.win.tokens)
  <2>1. a.win.tokens \in Seq(left.vocabulary)
    BY <1>2 DEF Windows
  <2> DEFINE t == a.win.tokens
             V == left.vocabulary
  <2> HIDE DEF t, V
  <2>2. t \in Seq(V) /\ V \subseteq Words /\ \E U \in Vocabularies : V \subseteq U
    BY <2>1 DEF t, V
  <2>3. \A U : V \subseteq U => t \in Seq(U)
    BY <2>2
  <2> QED BY <2>2, <2>3 DEF Heeded, t
<1> DEFINE n == proc[p].list
<1>6. PICK k \in Nat : found \in [1 .. k -> Matches(n, a.win.tokens)]
  BY <1>2, <1>5, MatchType DEF Hears
<1>7. \A i \in 1 .. k : found[i] \in Found
  <2>1. PhrasesOf[n] \subseteq Phrases
    BY PhrasesType DEF Hears
  <2>2. Matches(n, a.win.tokens) \subseteq Found
    BY <2>1 DEF Matches, Found
  <2> HIDE DEF found
  <2> QED BY <1>6, <2>2
<1> HIDE DEF found, heard
<1>8. PICK h : HandledTo(h, p, heard, k, found) /\ AllHandled(p, heard, found) = h[k]
  <2>1. DOMAIN found = 1 .. k
    BY <1>6
  <2> QED BY <2>1, HandledInTurn
<1> DEFINE live == proc[p].live
           T == {i \in 0 .. k : /\ h[i] \in Hearings /\ h[i].sid = s.sid
                                /\ Grows(s.log, h[i].log, s.sid)
                                /\ Tallies(live, s.counters, s.log, h[i].counters, h[i].log)}
<1>9. live \in BOOLEAN
  BY DEF Hears
<1> HIDE DEF live
<1>10. 0 \in T
  <2>1. Grows(s.log, s.log, s.sid)
    BY <1>1 DEF Grows
  <2>2. Tallies(live, s.counters, s.log, s.counters, s.log)
    BY <1>1, <1>9, TalliesSame
  <2> QED BY <1>4, <1>8, <2>1, <2>2 DEF HandledTo
<1>11. ASSUME NEW i \in 1 .. k, i - 1 \in T PROVE i \in T
  <2>1. /\ h[i - 1] \in Hearings /\ h[i - 1].sid = s.sid /\ Grows(s.log, h[i - 1].log, s.sid)
        /\ Tallies(live, s.counters, s.log, h[i - 1].counters, h[i - 1].log)
    BY <1>11
  <2>2. h[i] = HandleMatch(p, h[i - 1], found[i])
    BY <1>8 DEF HandledTo
  <2>3. /\ h[i] \in Hearings /\ h[i].sid = s.sid /\ Grows(h[i - 1].log, h[i].log, s.sid)
        /\ Tallies(live, h[i - 1].counters, h[i - 1].log, h[i].counters, h[i].log)
    BY <1>7, <2>1, <2>2, HandleMatchKeeps DEF live
  <2>6. Tallies(live, s.counters, s.log, h[i].counters, h[i].log)
    <3>1. /\ s.counters \in CounterRecords /\ h[i - 1].counters \in CounterRecords
          /\ h[i].counters \in CounterRecords /\ s.log \in Seq(Entries)
          /\ h[i - 1].log \in Seq(Entries) /\ h[i].log \in Seq(Entries)
      BY <1>1, <2>1, <2>3 DEF Hearings
    <3> QED BY <1>9, <2>1, <2>3, <3>1, TalliesOn
  <2>4. Len(s.log) \in Nat /\ Len(h[i - 1].log) \in Nat /\ Len(h[i].log) \in Nat
    BY SMTT(30), <1>1, <2>1, <2>3 DEF Hearings
  <2>5. Grows(s.log, h[i].log, s.sid)
    BY <2>1, <2>3, <2>4, GrowsOn
  <2> QED BY <2>3, <2>5, <2>6
<1>12. 0 .. k \subseteq T
  <2> HIDE DEF T
  <2> QED BY <1>10, <1>11, Induct
<1>13. \A i \in 0 .. k : /\ h[i] \in Hearings /\ h[i].sid = s.sid
                          /\ Grows(s.log, h[i].log, s.sid)
                          /\ Tallies(proc[p].live, s.counters, s.log, h[i].counters, h[i].log)
  BY <1>12 DEF live
<1>14. DOMAIN found = 1 .. k
  BY <1>6
<1>15. Turns(p, s, words, k, found, h)
  <2>1. HandledTo(h, p, Listened(s, words), k, found)
    BY <1>3, <1>8
  <2> QED BY <1>7, <1>13, <1>14, <1>0, <2>1, Zenon DEF Turns
<1> QED BY <1>3, <1>8, <1>15

\* What is kept when all of them are handled.
LEMMA UtteranceKeeps ==
    ASSUME NEW p \in Procs, Hears(p), clock \in Nat, NEW s \in Hearings,
           left.vocabulary \subseteq Words,
           \E V \in Vocabularies : left.vocabulary \subseteq V,
           NEW words \in Seq(left.vocabulary)
    PROVE  LET t == Utterance(p, s, words) IN
           /\ t \in Hearings /\ t.sid = s.sid /\ Grows(s.log, t.log, s.sid)
           /\ Tallies(proc[p].live, s.counters, s.log, t.counters, t.log)
<1>1. PICK k \in Nat : \E found : \E h :
              Turns(p, s, words, k, found, h) /\ Utterance(p, s, words) = h[k]
  BY UtteranceTurns
<1> QED BY <1>1 DEF Turns

-----------------------------------------------------------------------------
(* The sessions of the processes.                                          *)

\* What a session and a process are.
ProcStates == {"off", "exec", "built", "opening", "running"}
Sessions ==
    [open : BOOLEAN, gone : BOOLEAN, pend : Seq(left.vocabulary), win : Windows,
     sid : Nat, counted : Int, aged : BOOLEAN]
Processes ==
    {r \in [st : ProcStates, live : BOOLEAN, list : FileNames \cup {None}, seen : Nat,
            grammar : SUBSET Words, counters : CounterRecords, base : CounterRecords,
            hup : BOOLEAN, reading : {None} \cup [file : FileNames, at : Nat],
            raced : BOOLEAN, known : BOOLEAN, calls : Int, sess : Sessions] :
        r.st \in Started => r.list \in FileNames}

\* The world around the processes.
WorldInv ==
    /\ clock \in Nat /\ mtime \in Nat /\ sids \in Nat /\ lost \in BOOLEAN
    /\ file \in FileNames /\ store \in CounterRecords /\ lock \in Procs \cup {None}
    /\ disk \subseteq {"log", "state"}
    /\ DOMAIN unit = {"st", "starts", "why"}
    /\ unit.st \in {"active", "wait", "ended", "failed", "stopped"}
    /\ Budgets \cup {"vocabulary"} \subseteq DOMAIN left
    /\ left.vocabulary \subseteq Words
    /\ \E V \in Vocabularies : left.vocabulary \subseteq V

\* What the log holds of sessions that exist or existed.
LogInv ==
    /\ log \in Seq(Entries) /\ Apart(log)
    /\ \A i \in DOMAIN log : log[i].event = "match" => log[i].sid <= sids

\* A session knows what was logged of it, and has said when it was over the
\* threshold.
SessionKept(s) ==
    /\ Over(s.win) => s.aged
    /\ s.open => s.sid \in 1 .. sids /\ Booked(log, s.win, s.sid)

\* No two processes have one session.
OwnSessions ==
    \A q, r \in Procs : q # r /\ proc[q].sess.open /\ proc[r].sess.open
                            => proc[q].sess.sid # proc[r].sess.sid

\* What holds of the log and the sessions.
HearInv ==
    /\ LogInv /\ DOMAIN proc = Procs /\ OwnSessions
    /\ \A q \in Procs : proc[q] \in Processes /\ SessionKept(proc[q].sess)

\* While the words of the run stay, so do the kinds of things made of them.
LEMMA SameWords ==
    ASSUME left'.vocabulary = left.vocabulary
    PROVE  Windows' = Windows /\ Sessions' = Sessions /\ Processes' = Processes
<1>1. Windows' = Windows
  BY DEF Windows
<1>2. Sessions' = Sessions
  BY <1>1 DEF Sessions
<1> QED BY <1>1, <1>2 DEF Processes

\* What another session logs is none of this one's.
LEMMA BookedStays ==
    ASSUME NEW old \in Seq(Entries), NEW new \in Seq(Entries), NEW win, NEW sid, NEW other,
           Booked(old, win, sid), Grows(old, new, other), other # sid
    PROVE  Booked(new, win, sid)
<1>1. /\ DOMAIN old = 1 .. Len(old) /\ DOMAIN new = 1 .. Len(new)
      /\ Len(old) \in Nat /\ Len(new) \in Nat
  OBVIOUS
<1> SUFFICES ASSUME NEW i \in 1 .. Len(new), new[i].event = "match", new[i].sid = sid
             PROVE  \/ new[i].to <= win.dropped
                    \/ [row |-> new[i].row, from |-> new[i].from, to |-> new[i].to]
                         \in win.reported
  BY <1>1 DEF Booked
<1>2. i \in 1 .. Len(old)
  BY <1>1 DEF Grows
<1>3. new[i] = old[i]
  BY <1>2 DEF Grows
<1> QED BY <1>1, <1>2, <1>3 DEF Booked

\* A step of one process.
LEMMA OneHears ==
    ASSUME HearInv, NEW p \in Procs, NEW r \in Processes, Goes(p, r), NEW sid \in Nat,
           left'.vocabulary = left.vocabulary, sids \in Nat, sids' \in Nat, sids <= sids',
           sid <= sids',
           log' \in Seq(Entries), Apart(log'), Grows(log, log', sid),
           Over(r.sess.win) => r.sess.aged,
           r.sess.open => r.sess.sid \in 1 .. sids' /\ Booked(log', r.sess.win, r.sess.sid),
           \A q \in Procs \ {p} : proc[q].sess.open => /\ proc[q].sess.sid # sid
                                                       /\ r.sess.open => proc[q].sess.sid # r.sess.sid
    PROVE  HearInv'
<1>1. DOMAIN proc' = Procs /\ proc'[p] = r
      /\ \A q \in Procs \ {p} : proc'[q] = proc[q]
  BY DEF Goes, HearInv
<1>2. /\ DOMAIN log = 1 .. Len(log) /\ DOMAIN log' = 1 .. Len(log')
      /\ Len(log) \in Nat /\ Len(log') \in Nat /\ log \in Seq(Entries)
  BY DEF HearInv, LogInv
<1>3. ASSUME NEW i \in DOMAIN log', log'[i].event = "match" PROVE log'[i].sid <= sids'
  <2>1. CASE i \in 1 .. Len(log)
    <3>1. log'[i] = log[i]
      BY <2>1 DEF Grows
    <3>2. log[i] \in MatchEntries
      BY <1>2, <1>3, <2>1, <3>1 DEF Entries, OtherEntries
    <3>3. log[i].sid \in Nat /\ log[i].sid <= sids
      BY <1>2, <1>3, <2>1, <3>1, <3>2 DEF HearInv, LogInv, MatchEntries
    <3> QED BY <3>1, <3>3
  <2>2. CASE i \notin 1 .. Len(log)
    <3>1. i \in Len(log) + 1 .. Len(log')
      BY <1>2, <2>2
    <3> QED BY <1>3, <3>1 DEF Grows
  <2> QED BY <2>1, <2>2
<1>4. LogInv'
  BY <1>3 DEF LogInv
<1>5. ASSUME NEW q \in Procs PROVE (proc[q] \in Processes /\ SessionKept(proc[q].sess))'
  <2>1. CASE q = p
    BY <1>1, <2>1, SameWords DEF SessionKept, Over
  <2>2. CASE q # p
    <3>1. proc[q] \in Processes /\ SessionKept(proc[q].sess)
      BY DEF HearInv
    <3> DEFINE s == proc[q].sess
    <3>2. s \in Sessions
      BY <3>1 DEF Processes
    <3>3. s.sid \in Nat
      BY <3>2 DEF Sessions
    <3>4. s.open => s.sid # sid
      BY <2>2
    <3>5. s.open => Booked(log', s.win, s.sid)
      <4> SUFFICES ASSUME s.open PROVE Booked(log', s.win, s.sid) OBVIOUS
      <4>1. Booked(log, s.win, s.sid)
        BY <3>1 DEF SessionKept
      <4> HIDE DEF s
      <4> QED BY <1>2, <3>4, <4>1, BookedStays
    <3>6. s.open => s.sid \in 1 .. sids'
      BY <3>1, <3>3 DEF SessionKept
    <3>7. Over(s.win) => s.aged
      BY <3>1 DEF SessionKept
    <3>8. proc'[q] = proc[q] /\ proc'[q] \in Processes'
      BY <1>1, <2>2, <3>1, SameWords
    <3> QED BY <3>5, <3>6, <3>7, <3>8 DEF SessionKept, Over
  <2> QED BY <2>1, <2>2
<1>6. OwnSessions'
  <2> SUFFICES ASSUME NEW q \in Procs, NEW u \in Procs, q # u,
                      proc'[q].sess.open, proc'[u].sess.open
               PROVE  proc'[q].sess.sid # proc'[u].sess.sid
    BY DEF OwnSessions
  <2>1. CASE q = p
    BY <1>1, <2>1
  <2>2. CASE u = p
    BY <1>1, <2>2
  <2>3. CASE q # p /\ u # p
    BY <1>1, <2>3 DEF HearInv, OwnSessions
  <2> QED BY <2>1, <2>2, <2>3
<1> QED BY <1>1, <1>4, <1>5, <1>6 DEF HearInv

\* A step of one process that hears nothing: its session stays, or is gone.
LEMMA OneElse ==
    ASSUME HearInv, NEW p \in Procs, NEW r \in Processes, Goes(p, r),
           left'.vocabulary = left.vocabulary, sids \in Nat, sids' = sids,
           log' = log \/ \E e \in OtherEntries : log' = Append(log, e),
           \/ r.sess = NoSession
           \/ /\ r.sess.open = proc[p].sess.open /\ r.sess.win = proc[p].sess.win
              /\ r.sess.sid = proc[p].sess.sid /\ r.sess.aged = proc[p].sess.aged
    PROVE  HearInv'
<1>1. log \in Seq(Entries) /\ Apart(log) /\ Len(log) \in Nat /\ Grows(log, log, 0)
  BY DEF HearInv, LogInv, Grows
<1>2. log' \in Seq(Entries) /\ Apart(log') /\ Grows(log, log', 0)
  <2>1. CASE log' = log
    BY <1>1, <2>1
  <2>2. ASSUME NEW e \in OtherEntries, log' = Append(log, e)
        PROVE  log' \in Seq(Entries) /\ Apart(log') /\ Grows(log, log', 0)
    <3> DEFINE none == [dropped |-> 0, reported |-> {}]
               l == log
    <3>1. Booked(l, none, 0 - 1)
      <4> SUFFICES ASSUME NEW i \in DOMAIN l, l[i].event = "match", l[i].sid = 0 - 1
                   PROVE  FALSE
        BY DEF Booked
      <4>1. l[i] \in MatchEntries
        BY <1>1 DEF Entries, OtherEntries
      <4> QED BY <4>1 DEF MatchEntries
    <3>2. Grows(l, l, 0 - 1)
      BY <1>1 DEF Grows
    <3>3. l \in Seq(Entries) /\ Apart(l) /\ Len(l) \in Nat /\ log' = Append(l, e)
      BY <1>1, <2>2
    <3> HIDE DEF l, none
    <3>4. log' \in Seq(Entries) /\ Apart(log') /\ Grows(l, log', 0 - 1)
      BY <3>1, <3>2, <3>3, LogOther
    <3>5. Grows(l, log', 0)
      <4> SUFFICES ASSUME NEW i \in Len(l) + 1 .. Len(log'), log'[i].event = "match"
                   PROVE  FALSE
        BY <3>4 DEF Grows
      <4>1. log'[i].sid = 0 - 1 /\ log'[i] \in MatchEntries
        BY <3>3, <3>4 DEF Grows, Entries, OtherEntries
      <4> QED BY <4>1 DEF MatchEntries
    <3> QED BY <3>4, <3>5 DEF l
  <2> QED BY <2>1, <2>2
<1>3. proc[p] \in Processes /\ SessionKept(proc[p].sess)
  BY DEF HearInv
<1>4. CASE r.sess = NoSession
  <2>1. ~r.sess.open /\ ~Over(r.sess.win)
    <3>1. Contributing(NewWindow) = {}
      BY DEF Contributing, NewWindow, Hits
    <3> QED BY <1>4, <3>1 DEF NoSession, Over
  <2>2. \A q \in Procs \ {p} : proc[q].sess.open => proc[q].sess.sid # 0
    BY DEF HearInv, SessionKept
  <2> QED BY <1>2, <2>1, <2>2, OneHears
<1>5. CASE r.sess # NoSession
  <2> DEFINE s == proc[p].sess
  <2>1. /\ r.sess.open = s.open /\ r.sess.win = s.win /\ r.sess.sid = s.sid
        /\ r.sess.aged = s.aged
    BY <1>5
  <2>2. Over(r.sess.win) => r.sess.aged
    BY <1>3, <2>1 DEF SessionKept
  <2>3. s.open => s.sid # 0 /\ s.sid \in 1 .. sids' /\ Booked(log, s.win, s.sid)
    BY <1>3 DEF SessionKept
  <2>4. s.open => Booked(log', s.win, s.sid)
    <3> HIDE DEF s
    <3> QED BY <1>1, <1>2, <2>3, BookedStays
  <2>5. \A q \in Procs \ {p} : proc[q].sess.open => /\ proc[q].sess.sid # 0
                                                    /\ s.open => proc[q].sess.sid # s.sid
    BY DEF HearInv, SessionKept, OwnSessions
  <2> HIDE DEF s
  <2> QED BY <1>2, <2>1, <2>2, <2>3, <2>4, <2>5, OneHears
<1> QED BY <1>4, <1>5

\* The counters of a customer who was never seen.
LEMMA NeverInt == Never \in Int /\ NoCounters \in CounterRecords
<1>1. AlertEveryS \in Nat
  BY CountersNat
<1> QED BY <1>1 DEF Never, NoCounters, CounterRecords

\* Counters that are loaded, and that housekeeping has looked at.
LEMMA StoredType ==
    ASSUME NEW c \in CounterRecords, NEW now \in Nat
    PROVE  LoadCounters(c, now) \in CounterRecords /\ CheckAlerts(c, now) \in CounterRecords
<1> DEFINE R == [at : Nat, kind : EventKinds]
           old == c.events
           l == Recent(old, now)
           t == Trimmed(old, now)
           last == IF Alerts(c, now) THEN now ELSE c.last
           loaded == LoadCounters(c, now)
<1>1. c = [events |-> c.events, last |-> c.last] /\ c.last \in Int /\ c.events \in Seq(R)
  BY DEF CounterRecords
<1>2. l \in Seq(R) /\ t \in Seq(R)
  <2> HIDE DEF R
  <2> QED BY <1>1, TrimmedType
<1>3. loaded = [c EXCEPT !.events = l]
  BY DEF LoadCounters
<1>4. CheckAlerts(c, now) = [events |-> t, last |-> last]
  BY DEF CheckAlerts
<1>5. last \in Int
  BY <1>1
<1> HIDE DEF l, t, last, loaded
<1>6. loaded = [events |-> l, last |-> c.last]
  BY <1>1, <1>3
<1>7. loaded \in CounterRecords
  BY <1>1, <1>2, <1>6 DEF CounterRecords
<1> QED BY <1>2, <1>4, <1>5, <1>7 DEF CounterRecords, loaded

\* A stream without a session has nothing to say.
LEMMA NoSessionType == NoSession \in Sessions /\ NoSession.win = NewWindow /\ ~Over(NewWindow)
<1>1. <<>> \in Seq(left.vocabulary) OBVIOUS
<1>2. Contributing(NewWindow) = {}
  BY DEF Contributing, NewWindow, Hits
<1>3. ~Over(NewWindow)
  BY <1>2 DEF Over
<1> DEFINE w == NewWindow
<1>4. NoSession = [open |-> FALSE, gone |-> FALSE, pend |-> <<>>, win |-> w,
                   sid |-> 0, counted |-> Never, aged |-> FALSE]
  BY DEF NoSession
<1>5. w \in Windows
  BY NewWindowType
<1> HIDE DEF w
<1>6. NoSession \in Sessions /\ NoSession.win = w
  BY <1>1, <1>4, <1>5, NeverInt DEF Sessions
<1> QED BY <1>3, <1>6 DEF w

\* A process that has not started.
LEMMA NoProcType == NoProc \in Processes /\ NoProc.sess = NoSession
<1> DEFINE s == NoSession
           c == NoCounters
           n == Never
<1>1. s \in Sessions /\ c \in CounterRecords /\ n \in Int
  BY NoSessionType, NeverInt
<1>2. NoProc = [st |-> "off", live |-> TRUE, list |-> None, seen |-> 0, grammar |-> {},
           counters |-> c, base |-> c, hup |-> FALSE,
           reading |-> None, raced |-> FALSE, known |-> FALSE, calls |-> n,
           sess |-> s]
  BY DEF NoProc
<1> HIDE DEF s, c, n
<1>3. NoProc \in Processes /\ NoProc.sess = s
  BY <1>1, <1>2 DEF Processes, ProcStates, Started
<1> QED BY <1>3 DEF s

\* The grammar is made of words.
LEMMA GrammarType ==
    ASSUME NEW n \in LoadedFiles PROVE Grammar(n) \in SUBSET Words
  BY LexiconWords DEF Grammar

\* Spending leaves the words of a plan.
LEMMA Spent ==
    ASSUME WorldInv, NEW what \in Budgets, Spend(what)
    PROVE  left'.vocabulary = left.vocabulary /\ DOMAIN left' = DOMAIN left
<1>1. left' = [left EXCEPT ![what] = left[what] - 1]
  BY DEF Spend
<1>2. what # "vocabulary" /\ "vocabulary" \in DOMAIN left
  BY DEF Budgets, WorldInv
<1> QED BY <1>1, <1>2

\* A session opens.
LEMMA OpenedKeeps ==
    ASSUME WorldInv, HearInv, NEW p \in Procs
    PROVE  LET o == Opened(p) IN
           /\ o \in Processes /\ o.sess.open
           /\ o.st = proc[p].st /\ o.known = proc[p].known /\ o.live = proc[p].live
           /\ o.list = proc[p].list /\ o.base = proc[p].base
           /\ Tallies(proc[p].live, proc[p].counters, log, o.counters, log)
           /\ Max2(sids, o.sess.sid) \in Nat /\ sids <= Max2(sids, o.sess.sid)
           /\ o.sess.sid \in 1 .. Max2(sids, o.sess.sid)
           /\ Over(o.sess.win) => o.sess.aged
           /\ Booked(log, o.sess.win, o.sess.sid)
           /\ \A q \in Procs \ {p} : proc[q].sess.open => proc[q].sess.sid # o.sess.sid
<1> DEFINE o == Opened(p)
           r == proc[p]
           counts == r.known /\ r.calls = Never
           at == IF counts THEN clock ELSE r.calls
           c == Count(r.counters, TRUE, "calls", clock)
           counters == IF counts THEN c ELSE r.counters
           s == [NoSession EXCEPT !.open = TRUE, !.sid = sids + 1, !.counted = at]
<1>1. r \in Processes /\ SessionKept(r.sess) /\ sids \in Nat /\ clock \in Nat
  BY DEF HearInv, WorldInv
<1>2. r.sess \in Sessions /\ r.counters \in CounterRecords /\ r.calls \in Int
      /\ r.known \in BOOLEAN /\ r.live \in BOOLEAN
  BY <1>1 DEF Processes
<1>3. log \in Seq(Entries)
  BY DEF HearInv, LogInv
<1>4. /\ Tallies(r.live, r.counters, log, r.counters, log)
      /\ Tallies(r.live, r.counters, log, counters, log)
  <2> DEFINE old == r.counters
             live == r.live
  <2>1. old \in CounterRecords /\ live \in BOOLEAN /\ clock \in Nat
    BY <1>1, <1>2
  <2>2. counters = Count(old, TRUE, "calls", clock) \/ counters = old OBVIOUS
  <2> HIDE DEF old, live, counters
  <2>3. Tallies(live, old, log, old, log) /\ Tallies(live, old, log, counters, log)
    BY <1>3, <2>1, <2>2, TalliesSame, TalliesCall
  <2> QED BY <2>3 DEF old, live
<1>5. CASE r.sess.open
  <2>1. o = r
    BY <1>5 DEF Opened
  <2>2. r.sess.sid \in 1 .. sids /\ Booked(log, r.sess.win, r.sess.sid)
    BY <1>1, <1>5 DEF SessionKept
  <2>3. \A q \in Procs \ {p} : proc[q].sess.open => proc[q].sess.sid # r.sess.sid
    BY <1>5 DEF HearInv, OwnSessions
  <2>4. Max2(sids, r.sess.sid) = sids
    BY <1>1, <2>2 DEF Max2
  <2> HIDE DEF o
  <2> QED BY <1>1, <1>5, <1>4, <2>1, <2>2, <2>3, <2>4 DEF SessionKept, o
<1>6. CASE ~r.sess.open
  <2>1. o = [r EXCEPT !.sess = s, !.calls = at, !.counters = counters]
    <3>1. o = [r EXCEPT !.sess = s, !.calls = IF counts THEN clock ELSE r.calls,
                        !.counters = IF counts THEN c ELSE r.counters]
      BY <1>6, Zenon DEF Opened
    <3> QED BY <3>1
  <2>2. at \in Int
    BY <1>1, <1>2
  <2>3. counters \in CounterRecords
    <3>1. c \in CounterRecords
      BY <1>1, <1>2, CountType DEF EventKinds
    <3> HIDE DEF c
    <3> QED BY <1>2, <3>1
  <2> HIDE DEF at, counters
  <2>4. s = [NoSession EXCEPT !.open = TRUE, !.sid = sids + 1, !.counted = at] OBVIOUS
  <2> HIDE DEF s
  <2> DEFINE w == NewWindow
             none == Never
  <2>5. NoSession = [open |-> FALSE, gone |-> FALSE, pend |-> <<>>, win |-> w,
                     sid |-> 0, counted |-> none, aged |-> FALSE]
    BY DEF NoSession
  <2>6. w \in Windows /\ <<>> \in Seq(left.vocabulary) /\ ~Over(w)
    BY NewWindowType, NoSessionType
  <2> HIDE DEF w, none
  <2>7. s = [open |-> TRUE, gone |-> FALSE, pend |-> <<>>, win |-> w,
             sid |-> sids + 1, counted |-> at, aged |-> FALSE]
    BY <2>4, <2>5
  <2>8. s \in Sessions
    BY <1>1, <2>2, <2>6, <2>7 DEF Sessions
  <2>9. o \in Processes /\ o.sess = s /\ o.st = r.st /\ o.known = r.known /\ o.live = r.live
        /\ o.list = r.list /\ o.base = r.base /\ o.counters = counters
    <3> HIDE DEF o, r
    <3>1. /\ DOMAIN r = ProcFields /\ r.st \in ProcStates /\ r.live \in BOOLEAN
          /\ r.list \in FileNames \cup {None} /\ r.seen \in Nat /\ r.grammar \in SUBSET Words
          /\ r.base \in CounterRecords /\ r.hup \in BOOLEAN
          /\ r.reading \in {None} \cup [file : FileNames, at : Nat] /\ r.raced \in BOOLEAN
          /\ r = [st |-> r.st, live |-> r.live, list |-> r.list, seen |-> r.seen,
                  grammar |-> r.grammar, counters |-> r.counters, base |-> r.base,
                  hup |-> r.hup, reading |-> r.reading, raced |-> r.raced,
                  known |-> r.known, calls |-> r.calls, sess |-> r.sess]
          /\ r.st \in Started => r.list \in FileNames
      BY <1>1 DEF Processes, ProcFields
    <3>2. o = [st |-> r.st, live |-> r.live, list |-> r.list, seen |-> r.seen,
               grammar |-> r.grammar, counters |-> counters, base |-> r.base,
               hup |-> r.hup, reading |-> r.reading, raced |-> r.raced,
               known |-> r.known, calls |-> at, sess |-> s]
      BY <2>1, <3>1
    <3> QED BY <1>2, <2>2, <2>3, <2>8, <3>1, <3>2 DEF Processes
  <2>10. Booked(log, w, sids + 1)
    <3> SUFFICES ASSUME NEW i \in DOMAIN log, log[i].event = "match", log[i].sid = sids + 1
                 PROVE  FALSE
      BY DEF Booked
    <3> QED BY <1>1 DEF HearInv, LogInv
  <2>11. \A q \in Procs \ {p} : proc[q].sess.open => proc[q].sess.sid # sids + 1
    BY <1>1 DEF HearInv, SessionKept
  <2>12. s.win = w /\ s.sid = sids + 1 /\ s.open
    BY <2>7
  <2>13. Max2(sids, sids + 1) = sids + 1
    BY <1>1 DEF Max2
  <2>14. Tallies(r.live, r.counters, log, o.counters, log)
    <3> HIDE DEF o, r
    <3> QED BY <1>4, <2>9
  <2> HIDE DEF o
  <2> QED BY <1>1, <2>6, <2>9, <2>10, <2>11, <2>12, <2>13, <2>14 DEF o
<1> QED BY <1>5, <1>6

\* What p hears is counted as it is logged.
HeardTallied(p) ==
    \E r : /\ Goes(p, r) /\ r.st = proc[p].st /\ r.live = proc[p].live
           /\ r.base = proc[p].base /\ r.counters \in CounterRecords
           /\ Tallies(proc[p].live, proc[p].counters, log, r.counters, log')

\* A word is heard, and the last of an utterance is acted on.
LEMMA HearOnAudio ==
    ASSUME WorldInv, HearInv, ListInv, NEW p \in Procs, NEW w \in left.vocabulary,
           NEW final \in BOOLEAN, OnAudio(p, w, final)
    PROVE  HearInv' /\ HeardTallied(p)
<1> DEFINE o == Opened(p)
           pend == Heard(o, w)
           s == [win |-> o.sess.win, pend |-> pend, sid |-> o.sess.sid,
                 counted |-> o.sess.counted, aged |-> o.sess.aged,
                 counters |-> o.counters, log |-> log]
           said == Utterance(p, s, pend)
           heard == [o.sess EXCEPT !.win = said.win, !.pend = <<>>, !.aged = said.aged]
           waits == [o.sess EXCEPT !.pend = pend]
           r == [o EXCEPT !.counters = said.counters, !.sess = heard]
           q == [o EXCEPT !.sess = waits]
<1>1. /\ o \in Processes /\ o.sess.open
      /\ o.st = proc[p].st /\ o.known = proc[p].known /\ o.live = proc[p].live
      /\ o.list = proc[p].list /\ o.base = proc[p].base
      /\ Tallies(proc[p].live, proc[p].counters, log, o.counters, log)
      /\ Max2(sids, o.sess.sid) \in Nat /\ sids <= Max2(sids, o.sess.sid)
      /\ o.sess.sid \in 1 .. Max2(sids, o.sess.sid)
      /\ Over(o.sess.win) => o.sess.aged
      /\ Booked(log, o.sess.win, o.sess.sid)
      /\ \A x \in Procs \ {p} : proc[x].sess.open => proc[x].sess.sid # o.sess.sid
  BY OpenedKeeps
<1>2. /\ sids' = Max2(sids, o.sess.sid) /\ Spend("say")
      /\ \/ final /\ Goes(p, r) /\ log' = said.log
         \/ ~final /\ Goes(p, q) /\ log' = log
      /\ proc[p].st = "running"
  <2>1. CASE final
    BY <2>1, Zenon DEF OnAudio
  <2>2. CASE ~final
    BY <2>2, Zenon DEF OnAudio
  <2> QED BY <2>1, <2>2
<1> HIDE DEF o
<1>3. /\ o.sess \in Sessions /\ o.counters \in CounterRecords /\ o.sess.win \in Windows
      /\ o.sess.pend \in Seq(left.vocabulary) /\ o.sess.sid \in Nat /\ o.sess.counted \in Int
      /\ o.sess.aged \in BOOLEAN
  <2>1. o.sess \in Sessions /\ o.counters \in CounterRecords
    BY <1>1 DEF Processes
  <2> QED BY <2>1 DEF Sessions
<1>4. pend \in Seq(left.vocabulary)
  <2> DEFINE V == left.vocabulary
             x == o.sess.pend
  <2>2. x \in Seq(V) /\ w \in V
    BY <1>3
  <2> HIDE DEF V, x
  <2>3. Append(x, w) \in Seq(V)
    BY <2>2
  <2>1. Append(o.sess.pend, w) \in Seq(left.vocabulary)
    BY <2>3 DEF V, x
  <2> QED BY <1>3, <2>1 DEF Heard
<1> HIDE DEF pend
<1>5. log \in Seq(Entries) /\ Apart(log) /\ Len(log) \in Nat
  BY DEF HearInv, LogInv
<1>6. s \in Hearings /\ s.sid = o.sess.sid /\ s.log = log /\ s.counters = o.counters
  BY <1>1, <1>3, <1>4, <1>5 DEF Hearings
<1>7. Hears(p) /\ clock \in Nat /\ left.vocabulary \subseteq Words
      /\ \E V \in Vocabularies : left.vocabulary \subseteq V
  <2>1. proc[p] \in Processes
    BY DEF HearInv
  <2>2. Loads(Files[proc[p].list]) /\ proc[p].st \in {"opening", "running"}
    BY <1>2 DEF ListInv, ListKept, Started
  <2> QED BY <1>2, <2>1, <2>2 DEF Hears, Processes, LoadedFiles, WorldInv, Started
<1> HIDE DEF s
<1>8. /\ said \in Hearings /\ said.sid = s.sid /\ Grows(s.log, said.log, s.sid)
      /\ Tallies(proc[p].live, s.counters, s.log, said.counters, said.log)
  BY <1>4, <1>6, <1>7, UtteranceKeeps
<1>9. /\ said.win \in Windows /\ said.counters \in CounterRecords /\ said.aged \in BOOLEAN
      /\ said.log \in Seq(Entries) /\ Apart(said.log) /\ said.sid = o.sess.sid
      /\ Booked(said.log, said.win, said.sid) /\ Grows(log, said.log, o.sess.sid)
      /\ Over(said.win) => said.aged
  BY <1>6, <1>8 DEF Hearings
<1> HIDE DEF said
<1>10. Tallies(proc[p].live, proc[p].counters, log, said.counters, said.log)
  <2> DEFINE live == proc[p].live
             c == proc[p].counters
  <2>1. live \in BOOLEAN /\ c \in CounterRecords
    BY DEF HearInv, Processes
  <2>2. Tallies(live, c, log, o.counters, log)
    BY <1>1
  <2>3. Tallies(live, o.counters, log, said.counters, said.log)
    BY <1>6, <1>8
  <2> HIDE DEF live, c
  <2>4. Tallies(live, c, log, said.counters, said.log)
    BY <1>3, <1>5, <1>9, <2>1, <2>2, <2>3, TalliesOn
  <2> QED BY <2>4 DEF live, c
<1>11. left'.vocabulary = left.vocabulary
  BY <1>2, Spent DEF Budgets
<1>12. CASE ~final
  <2>1. waits = [open |-> o.sess.open, gone |-> o.sess.gone, pend |-> pend,
                 win |-> o.sess.win, sid |-> o.sess.sid, counted |-> o.sess.counted,
                 aged |-> o.sess.aged]
    <3>1. o.sess = [open |-> o.sess.open, gone |-> o.sess.gone, pend |-> o.sess.pend,
                 win |-> o.sess.win, sid |-> o.sess.sid, counted |-> o.sess.counted,
                 aged |-> o.sess.aged]
      BY <1>3 DEF Sessions
    <3>2. waits = [o.sess EXCEPT !.pend = pend] OBVIOUS
    <3> HIDE DEF waits
    <3> QED BY <3>1, <3>2
  <2>2. waits \in Sessions
    <3> HIDE DEF waits
    <3> QED BY <1>3, <1>4, <2>1 DEF Sessions
  <2>3. /\ waits.open /\ waits.win = o.sess.win /\ waits.sid = o.sess.sid
        /\ waits.aged = o.sess.aged
    <3> HIDE DEF waits
    <3> QED BY <1>1, <2>1
  <2> HIDE DEF waits
  <2>4. q \in Processes /\ q.sess = waits /\ q.st = o.st /\ q.live = o.live
        /\ q.base = o.base /\ q.counters = o.counters
    BY <1>1, <2>2 DEF Processes
  <2>5. Goes(p, q) /\ log' = log /\ Grows(log, log, o.sess.sid)
    BY <1>2, <1>5, <1>12 DEF Grows
  <2> HIDE DEF q
  <2>6. HeardTallied(p)
    BY <1>1, <1>3, <2>4, <2>5 DEF HeardTallied
  <2> QED
    BY <1>1, <1>2, <1>3, <1>5, <1>7, <1>11, <2>3, <2>4, <2>5, <2>6, OneHears DEF WorldInv
<1>13. CASE final
  <2>1. heard = [open |-> o.sess.open, gone |-> o.sess.gone, pend |-> <<>>,
                 win |-> said.win, sid |-> o.sess.sid, counted |-> o.sess.counted,
                 aged |-> said.aged]
    <3>1. o.sess = [open |-> o.sess.open, gone |-> o.sess.gone, pend |-> o.sess.pend,
                 win |-> o.sess.win, sid |-> o.sess.sid, counted |-> o.sess.counted,
                 aged |-> o.sess.aged]
      BY <1>3 DEF Sessions
    <3>2. heard = [o.sess EXCEPT !.win = said.win, !.pend = <<>>, !.aged = said.aged]
      OBVIOUS
    <3> HIDE DEF heard
    <3> QED BY <3>1, <3>2
  <2>2. heard \in Sessions
    <3> HIDE DEF heard
    <3>1. <<>> \in Seq(left.vocabulary) OBVIOUS
    <3> QED BY <1>3, <1>9, <2>1, <3>1 DEF Sessions
  <2>3. /\ heard.open /\ heard.win = said.win /\ heard.sid = o.sess.sid
        /\ heard.aged = said.aged
    <3> HIDE DEF heard
    <3> QED BY <1>1, <2>1
  <2> HIDE DEF heard
  <2> DEFINE c == said.counters
  <2>4. r \in Processes /\ r.sess = heard /\ r.st = o.st /\ r.live = o.live
        /\ r.base = o.base /\ r.counters = c
    <3>1. r = [o EXCEPT !.counters = c, !.sess = heard] /\ c \in CounterRecords
      BY <1>9
    <3> HIDE DEF c, r
    <3> QED BY <1>1, <2>2, <3>1 DEF Processes
  <2>5. Goes(p, r) /\ log' = said.log
    BY <1>2, <1>13
  <2> HIDE DEF r
  <2>6. HeardTallied(p)
    BY <1>1, <1>9, <1>10, <2>4, <2>5 DEF HeardTallied
  <2> QED
    BY SMTT(30), <1>1, <1>2, <1>3, <1>5, <1>7, <1>9, <1>11, <2>3, <2>4, <2>5, <2>6, OneHears DEF WorldInv
<1> QED BY <1>12, <1>13

\* A process that ends, or starts again, has no session.
LEMMA HearGone ==
    ASSUME WorldInv, HearInv, NEW p \in Procs, Goes(p, NoProc), sids' = sids, log' = log,
           left'.vocabulary = left.vocabulary
    PROVE  HearInv'
  BY NoProcType, OneElse DEF WorldInv

\* Flags, and what starts.
LEMMA HearFlags ==
    ASSUME WorldInv, HearInv, NEW p \in Procs,
           Hup(p) \/ Attributed(p) \/ StreamEnds(p) \/ Opens(p) \/ ReloadReads(p)
    PROVE  HearInv'
<1> DEFINE o == proc[p]
           u == [o EXCEPT !.hup = TRUE]
           k == [o EXCEPT !.known = TRUE]
           ends == [o.sess EXCEPT !.gone = TRUE]
           g == [o EXCEPT !.sess = ends]
           n == [o EXCEPT !.st = "running"]
           row == [file |-> file, at |-> mtime]
           d == [o EXCEPT !.hup = FALSE, !.reading = row]
<1>1. o \in Processes /\ o.sess \in Sessions
  BY DEF HearInv, Processes
<1>2. Goes(p, u) \/ Goes(p, k) \/ Goes(p, g) \/ Opens(p) \/ Goes(p, d)
  <2>1. CASE Hup(p)
    <3>1. Goes(p, u)
      BY <2>1, Zenon DEF Hup
    <3> QED BY <3>1
  <2>2. CASE Attributed(p)
    <3>1. Goes(p, k)
      BY <2>2, Zenon DEF Attributed
    <3> QED BY <3>1
  <2>3. CASE StreamEnds(p)
    <3>1. Goes(p, g)
      BY <2>3 DEF StreamEnds
    <3> QED BY <3>1
  <2>4. CASE ReloadReads(p)
    <3>1. Goes(p, d)
      BY <2>4, Zenon DEF ReloadReads
    <3> QED BY <3>1
  <2> HIDE DEF u, k, g, d
  <2> QED BY <2>1, <2>2, <2>3, <2>4
<1>3. left'.vocabulary = left.vocabulary
  BY Spent DEF Budgets, Hup, Attributed, StreamEnds, Opens, ReloadReads, env
<1>4. sids' = sids /\ log' = log /\ sids \in Nat
  BY DEF Hup, Attributed, StreamEnds, Opens, ReloadReads, ghosts, WorldInv
<1>5. row \in [file : FileNames, at : Nat]
  BY DEF WorldInv
<1> HIDE DEF o, row
<1>6. u \in Processes /\ u.sess = o.sess
  BY <1>1 DEF Processes
<1>7. k \in Processes /\ k.sess = o.sess
  BY <1>1 DEF Processes
<1>8. d \in Processes /\ d.sess = o.sess
  BY <1>1, <1>5 DEF Processes
<1>9. ends \in Sessions /\ ends.open = o.sess.open /\ ends.win = o.sess.win
      /\ ends.sid = o.sess.sid /\ ends.aged = o.sess.aged
  BY <1>1 DEF Sessions
<1> HIDE DEF ends
<1>10. g \in Processes /\ g.sess = ends
  BY <1>1, <1>9 DEF Processes
<1>11. CASE Opens(p)
  <2>1. o.st = "opening"
    BY <1>11 DEF Opens, o
  <2>2. n \in Processes /\ n.sess = o.sess
    BY <1>1, <2>1 DEF Processes, ProcStates, Started
  <2>3. Goes(p, n)
    BY <1>11, Zenon DEF Opens, o
  <2> HIDE DEF n
  <2> QED BY <1>3, <1>4, <2>2, <2>3, OneElse DEF o
<1> HIDE DEF u, k, g, d, n
<1>12. CASE Goes(p, u) \/ Goes(p, k) \/ Goes(p, d)
  BY <1>3, <1>4, <1>6, <1>7, <1>8, <1>12, OneElse DEF o
<1>13. CASE Goes(p, g)
  BY <1>3, <1>4, <1>9, <1>10, <1>13, OneElse DEF o
<1> QED BY <1>2, <1>11, <1>12, <1>13

\* A process starts.
LEMMA HearStarts ==
    ASSUME WorldInv, HearInv, UnitStarts \/ HandStarts PROVE HearInv'
<1>1. PICK p \in Procs, live \in BOOLEAN :
          Goes(p, [NoProc EXCEPT !.st = "exec", !.live = live]) \/ Goes(p, [NoProc EXCEPT !.st = "exec"])
  BY DEF UnitStarts, HandStarts, Procs
<1> DEFINE a == [NoProc EXCEPT !.st = "exec", !.live = live]
           b == [NoProc EXCEPT !.st = "exec"]
<1>2. a \in Processes /\ a.sess = NoSession /\ b \in Processes /\ b.sess = NoSession
  <2> DEFINE o == NoProc
             none == NoSession
  <2>1. o \in Processes /\ o.sess = none
    BY NoProcType
  <2>2. a = [o EXCEPT !.st = "exec", !.live = live] /\ b = [o EXCEPT !.st = "exec"]
    BY Zenon
  <2> HIDE DEF o, none, a, b
  <2>3. a \in Processes /\ a.sess = none
    BY <2>1, <2>2 DEF Processes, ProcStates, Started
  <2>4. b \in Processes /\ b.sess = none
    BY <2>1, <2>2 DEF Processes, ProcStates, Started
  <2> QED BY <2>3, <2>4 DEF none
<1>3. left'.vocabulary = left.vocabulary
  BY Spent DEF Budgets, UnitStarts, HandStarts
<1>4. sids' = sids /\ log' = log /\ sids \in Nat
  BY DEF UnitStarts, HandStarts, ghosts, WorldInv
<1> HIDE DEF a, b
<1> QED BY <1>1, <1>2, <1>3, <1>4, OneElse DEF a, b

\* What the constructor reads of the state file.
LEMMA ReadableType ==
    ASSUME WorldInv, NEW base \in Readable
    PROVE  base \in CounterRecords /\ (base = store \/ base = NoCounters)
  BY NeverInt DEF Readable, WorldInv

\* The constructor reads list, counters and grammar.
LEMMA HearBuild ==
    ASSUME WorldInv, HearInv, NEW p \in Procs, Build(p) PROVE HearInv'
<1>1. left' = left /\ log' = log /\ sids' = sids /\ sids \in Nat
  BY DEF Build, env, ghosts, WorldInv
<1>2. CASE Loads(Files[file])
  <2>0. PICK base \in Readable :
            Goes(p, [proc[p] EXCEPT !.st = "built", !.list = file, !.seen = mtime,
                       !.grammar = Grammar(file), !.base = base,
                       !.counters = LoadCounters(base, clock)])
    BY <1>2, Zenon DEF Build
  <2> DEFINE o == proc[p]
             g == Grammar(file)
             c == LoadCounters(base, clock)
             r == [o EXCEPT !.st = "built", !.list = file, !.seen = mtime,
                            !.grammar = g, !.base = base, !.counters = c]
  <2>1. Goes(p, r)
    BY <2>0
  <2>2. /\ file \in FileNames /\ mtime \in Nat /\ base \in CounterRecords
        /\ c \in CounterRecords /\ g \in SUBSET Words
    BY <1>2, ReadableType, StoredType, GrammarType DEF WorldInv, LoadedFiles
  <2>3. o \in Processes
    BY DEF HearInv
  <2> HIDE DEF o, c, g
  <2>4. r \in Processes /\ r.sess = o.sess
    BY <2>2, <2>3 DEF Processes, ProcStates
  <2> HIDE DEF r
  <2> QED BY <1>1, <2>1, <2>4, OneElse DEF o
<1>3. CASE ~Loads(Files[file])
  BY <1>1, <1>3, HearGone DEF Build, Gone
<1> QED BY <1>2, <1>3

\* The lock is taken, or the process ends.
LEMMA HearTakeLock ==
    ASSUME WorldInv, HearInv, NEW p \in Procs, TakeLock(p) PROVE HearInv'
<1>1. left' = left /\ log' = log /\ sids' = sids /\ sids \in Nat /\ proc[p].st = "built"
  BY DEF TakeLock, env, ghosts, WorldInv
<1>2. CASE Gone(p, 1, "refused")
  BY <1>1, <1>2, HearGone DEF Gone
<1>3. ASSUME NEW s \in {"opening", "running"}, Goes(p, [proc[p] EXCEPT !.st = s])
      PROVE  HearInv'
  <2> DEFINE o == proc[p]
             r == [o EXCEPT !.st = s]
  <2>1. o \in Processes /\ o.st = "built"
    BY <1>1 DEF HearInv
  <2> HIDE DEF o
  <2>2. r \in Processes /\ r.sess = o.sess
    BY <2>1 DEF Processes, ProcStates, Started
  <2>3. Goes(p, r)
    BY <1>3 DEF o
  <2> HIDE DEF r
  <2> QED BY <1>1, <2>2, <2>3, OneElse DEF o
<1> QED BY <1>2, <1>3 DEF TakeLock

\* A reload keeps a process what it is, with its session.
LEMMA ReloadedType ==
    ASSUME NEW r \in Processes, mtime \in Nat
    PROVE  /\ Reloaded(r) \in Processes /\ Reloaded(r).sess = r.sess
           /\ Reloaded(r).counters = r.counters /\ Reloaded(r).live = r.live
           /\ Reloaded(r).st = r.st /\ Reloaded(r).calls = r.calls
           /\ Reloaded(r).base = r.base
<1> DEFINE a == [r EXCEPT !.list = r.reading.file, !.seen = mtime, !.reading = None,
                          !.raced = r.reading.at # mtime]
           b == [r EXCEPT !.seen = r.reading.at, !.reading = None]
<1>1. CASE r.reading = None
  BY <1>1 DEF Reloaded
<1>2. CASE r.reading # None
  <2>1. r.reading.file \in FileNames /\ r.reading.at \in Nat
    <3>1. r.reading \in {None} \cup [file : FileNames, at : Nat]
      BY DEF Processes
    <3>2. r.reading \in [file : FileNames, at : Nat]
      BY <1>2, <3>1
    <3> QED BY <3>2
  <2> DEFINE f == r.reading.file
             at == r.reading.at
             late == at # mtime
  <2>2. f \in FileNames /\ at \in Nat /\ late \in BOOLEAN
    BY <2>1
  <2>3. Reloaded(r) = a \/ Reloaded(r) = b
    BY <1>2, Zenon DEF Reloaded
  <2>4. a = [r EXCEPT !.list = f, !.seen = mtime, !.reading = None, !.raced = late]
        /\ b = [r EXCEPT !.seen = at, !.reading = None]
    BY Zenon
  <2> HIDE DEF a, b, f, at, late
  <2>5. a \in Processes /\ a.sess = r.sess /\ a.counters = r.counters /\ a.live = r.live
        /\ a.st = r.st /\ a.calls = r.calls /\ a.base = r.base
    BY <2>2, <2>4 DEF Processes
  <2>6. b \in Processes /\ b.sess = r.sess /\ b.counters = r.counters /\ b.live = r.live
        /\ b.st = r.st /\ b.calls = r.calls /\ b.base = r.base
    BY <2>2, <2>4 DEF Processes
  <2> QED BY <2>3, <2>5, <2>6
<1> QED BY <1>1, <1>2

\* What a step that leaves env leaves.
LEMMA EnvStays == ASSUME UNCHANGED env PROVE UNCHANGED <<clock, left, file, mtime, disk>>
  BY DEF env

\* What housekeeping makes of its process.
LEMMA HousekeepGoes ==
    ASSUME NEW p \in Procs, Housekeep(p)
    PROVE  LET o == Reloaded(proc[p])
               c == CheckAlerts(o.counters, clock)
               b == IF "state" \in disk THEN c ELSE o.base
               s == IF o.sess.gone THEN NoSession ELSE o.sess
           IN /\ Goes(p, [o EXCEPT !.counters = c, !.base = b, !.sess = s])
              /\ Save(p, c) /\ UNCHANGED <<env, sids, unit, lock>>
  BY Zenon DEF Housekeep

\* Housekeeping: reload, alerts, save, and the session of a stream that is gone.
LEMMA HearHousekeep ==
    ASSUME WorldInv, HearInv, NEW p \in Procs, Housekeep(p) PROVE HearInv'
<1> DEFINE o == Reloaded(proc[p])
           c == CheckAlerts(o.counters, clock)
           s == IF o.sess.gone THEN NoSession ELSE o.sess
           b == IF "state" \in disk THEN c ELSE o.base
           r == [o EXCEPT !.counters = c, !.base = b, !.sess = s]
<1>1. o \in Processes /\ o.sess = proc[p].sess /\ proc[p] \in Processes
  BY ReloadedType DEF HearInv, WorldInv
<1>2. Goes(p, r) /\ left' = left /\ sids' = sids /\ sids \in Nat
  <2>1. Goes(p, r) /\ UNCHANGED <<env, sids>>
    BY HousekeepGoes, Zenon
  <2> HIDE DEF r
  <2> QED BY <2>1, EnvStays DEF WorldInv
<1>3. log' = log \/ log' = Append(log, Entry(p, "alert"))
  BY Zenon DEF Housekeep
<1>4. Entry(p, "alert") \in OtherEntries
  BY <1>1 DEF Entry, OtherEntries, Processes, WorldInv
<1> HIDE DEF o
<1>5. c \in CounterRecords
  <2>1. o.counters \in CounterRecords /\ clock \in Nat
    BY <1>1 DEF Processes, WorldInv
  <2> QED BY <2>1, StoredType
<1>6. s \in Sessions /\ (s = NoSession \/ s = o.sess)
  BY <1>1, NoSessionType DEF Processes
<1>8. b \in CounterRecords
  BY <1>1, <1>5 DEF Processes
<1> HIDE DEF c, s, b
<1>7. r \in Processes /\ r.sess = s
  BY <1>1, <1>5, <1>6, <1>8 DEF Processes
<1> HIDE DEF r
<1> QED BY <1>1, <1>2, <1>3, <1>4, <1>6, <1>7, OneElse

\* The rest of the world leaves sessions and log alone.
LEMMA HearElse ==
    ASSUME WorldInv, HearInv, left'.vocabulary = left.vocabulary,
           UNCHANGED <<proc, log, sids>>
    PROVE  HearInv'
<1>1. LogInv' /\ OwnSessions' /\ DOMAIN proc' = Procs
  BY DEF HearInv, LogInv, OwnSessions
<1>2. ASSUME NEW q \in Procs PROVE (proc[q] \in Processes /\ SessionKept(proc[q].sess))'
  BY SameWords DEF HearInv, SessionKept, Over
<1> QED BY <1>1, <1>2 DEF HearInv

\* A step spends of the plan, or leaves it.
Spends == UNCHANGED left \/ \E what \in Budgets : Spend(what)

\* No step changes the words of the run.
LEMMA WordsStay == ASSUME WorldInv, [Next]_vars PROVE
    left'.vocabulary = left.vocabulary /\ DOMAIN left' = DOMAIN left
<1>1. CASE UNCHANGED left
  BY <1>1
<1>2. ASSUME \E what \in Budgets : Spend(what)
      PROVE  left'.vocabulary = left.vocabulary /\ DOMAIN left' = DOMAIN left
  BY <1>2, Spent
<1>3. Spends
  <2>1. \A what \in Budgets : Spend(what) => Spends
    BY DEF Spends
  <2>2. UNCHANGED left => Spends
    BY DEF Spends
  <2>3. CASE UNCHANGED vars
    BY <2>2, <2>3 DEF vars, env
  <2>4. ASSUME NEW p \in Procs, Run(p) PROVE Spends
    <3>1. ASSUME NEW w, NEW final, OnAudio(p, w, final) PROVE Spends
      BY <2>1, <3>1 DEF OnAudio, Budgets
    <3>2. CASE CaptureEnds(p)
      BY <2>1, <2>2, <3>2 DEF CaptureEnds, Budgets
    <3> QED
      <4>1. CASE ReloadReads(p) \/ Housekeep(p) \/ Build(p) \/ TakeLock(p) \/ Opens(p)
        <5>1. UNCHANGED env
          BY <4>1, Zenon DEF ReloadReads, Housekeep, Build, TakeLock, Opens
        <5> QED BY <2>2, <5>1, EnvStays
      <4> QED BY <2>4, <3>1, <3>2, <4>1, Zenon DEF Run
  <2>5. ASSUME NEW p \in Procs, CaptureFails(p) \/ Stop(p) \/ Crash(p) \/ Hup(p)
                                  \/ Attributed(p) \/ StreamEnds(p)
        PROVE  Spends
    <3>1. \E what \in {"eof", "stop", "crash", "hup", "know", "ends"} : Spend(what)
      BY <2>5 DEF CaptureFails, Stop, Crash, Hup, Attributed, StreamEnds
    <3> QED BY <2>1, <3>1 DEF Budgets
  <2>6. CASE UnitStarts \/ GivesUp \/ HandStarts \/ Tick \/ Edit \/ DiskChanges
    <3>1. CASE UnitStarts
      BY <2>1, <2>2, <3>1 DEF UnitStarts, Budgets
    <3>2. CASE GivesUp
      BY <2>2, <3>2, EnvStays DEF GivesUp
    <3>3. CASE HandStarts \/ Tick \/ Edit \/ DiskChanges
      <4>1. \E what \in {"hand", "tick", "edit", "disk"} : Spend(what)
        BY <3>3, Zenon DEF HandStarts, Tick, Edit, DiskChanges
      <4> QED BY <2>1, <4>1 DEF Budgets
    <3> QED BY <2>6, <3>1, <3>2, <3>3
  <2>8. ASSUME NEW p \in Procs,
               Run(p) \/ CaptureFails(p) \/ Stop(p) \/ Crash(p) \/ Hup(p) \/ Attributed(p)
                 \/ StreamEnds(p)
        PROVE  Spends
    BY <2>4, <2>5, <2>8
  <2>7. Spends
    <3>1. CASE Next
      BY <2>6, <2>8, <3>1, Zenon DEF Next
    <3> QED BY <2>3, <3>1
  <2> QED BY <2>7
<1> QED BY <1>1, <1>2, <1>3 DEF Spends

\* What the world is given by a step.
LEMMA SavedType ==
    ASSUME WorldInv, NEW p \in Procs, NEW c \in CounterRecords, Save(p, c)
    PROVE  store' \in CounterRecords /\ lost' \in BOOLEAN
  BY DEF Save, WorldInv

\* What the world is given by the last save of a process.
LEMMA LastSavedType ==
    ASSUME WorldInv, NEW p \in Procs, proc[p].counters \in CounterRecords, LastSave(p)
    PROVE  store' \in CounterRecords /\ lost' \in BOOLEAN
<1>1. CASE "state" \in disk
  BY <1>1, SavedType DEF LastSave
<1>2. CASE "state" \notin disk
  BY <1>2 DEF LastSave, WorldInv
<1> QED BY <1>1, <1>2

\* What the end of a process leaves.
LEMMA GoneType ==
    ASSUME WorldInv, NEW p \in Procs, NEW rc, NEW why, Gone(p, rc, why)
    PROVE  /\ lock' \in Procs \cup {None} /\ DOMAIN unit' = {"st", "starts", "why"}
           /\ unit'.st \in {"active", "wait", "ended", "failed", "stopped"}
  BY DEF Gone, WorldInv

\* All of WorldInv that is not about the plan.
WorldParts ==
    /\ clock \in Nat /\ mtime \in Nat /\ sids \in Nat /\ lost \in BOOLEAN
    /\ file \in FileNames /\ store \in CounterRecords /\ lock \in Procs \cup {None}
    /\ disk \subseteq {"log", "state"}
    /\ DOMAIN unit = {"st", "starts", "why"}
    /\ unit.st \in {"active", "wait", "ended", "failed", "stopped"}

\* Every step leaves the world around the processes in order.
LEMMA WorldStep ==
    ASSUME WorldInv, HearInv, Next PROVE WorldParts'
<1>1. ASSUME NEW p \in Procs
      PROVE  /\ proc[p].counters \in CounterRecords /\ proc[p] \in Processes
             /\ proc[p].sess.sid \in Nat
  BY DEF HearInv, Processes, Sessions
<1>2. ASSUME NEW p \in Procs, Run(p) PROVE WorldParts'
  <2>1. ASSUME NEW w, NEW final, OnAudio(p, w, final) PROVE WorldParts'
    <3>1. sids' = Max2(sids, Opened(p).sess.sid)
          /\ UNCHANGED <<clock, file, mtime, disk, store, lock, unit, lost>>
      BY <2>1 DEF OnAudio
    <3>2. sids' \in Nat
      BY <3>1, OpenedKeeps
    <3> QED BY <3>1, <3>2 DEF WorldInv, WorldParts
  <2>2. CASE Housekeep(p)
    <3> DEFINE c == CheckAlerts(Reloaded(proc[p]).counters, clock)
    <3>1. UNCHANGED <<clock, file, mtime, disk, sids, lock, unit>> /\ Save(p, c)
      BY <2>2, HousekeepGoes, EnvStays, Zenon
    <3>2. c \in CounterRecords
      <4>1. Reloaded(proc[p]).counters \in CounterRecords
        BY <1>1, ReloadedType DEF Processes, WorldInv
      <4> QED BY <4>1, StoredType DEF WorldInv
    <3> HIDE DEF c
    <3> QED BY <3>1, <3>2, SavedType DEF WorldInv, WorldParts
  <2>3. CASE CaptureEnds(p)
    BY <1>1, <2>3, LastSavedType, GoneType DEF CaptureEnds, WorldInv, WorldParts
  <2>4. CASE ReloadReads(p) \/ Opens(p)
    <3>1. UNCHANGED <<env, store, lock, unit, ghosts>>
      BY <2>4, Zenon DEF ReloadReads, Opens
    <3>2. UNCHANGED <<clock, file, mtime, disk>> /\ UNCHANGED <<lost, sids>>
      BY <3>1, EnvStays DEF ghosts
    <3> QED BY <3>1, <3>2 DEF WorldInv, WorldParts
  <2>5. CASE Build(p) \/ TakeLock(p)
    <3>1. UNCHANGED <<clock, file, mtime, disk, store, sids, lost>>
      <4>1. UNCHANGED <<env, store, ghosts>>
        BY <2>5, Zenon DEF Build, TakeLock
      <4> QED BY <4>1, EnvStays DEF ghosts
    <3>2. \/ Gone(p, 1, "refused")
          \/ (lock' = lock \/ lock' = p) /\ UNCHANGED unit
      BY <2>5, Zenon DEF Build, TakeLock
    <3> QED BY <3>1, <3>2, GoneType DEF WorldInv, WorldParts
  <2> QED BY <1>2, <2>1, <2>2, <2>3, <2>4, <2>5 DEF Run
<1>3. ASSUME NEW p \in Procs, CaptureFails(p) PROVE WorldParts'
  BY <1>1, <1>3, LastSavedType, GoneType DEF CaptureFails, WorldInv, WorldParts
<1>4. ASSUME NEW p \in Procs, Stop(p) PROVE WorldParts'
  <2>1. store' \in CounterRecords /\ lost' \in BOOLEAN
    BY <1>1, <1>4, LastSavedType DEF Stop
  <2>2. UNCHANGED <<clock, file, mtime, disk, sids>>
        /\ (lock' = lock \/ lock' = None)
        /\ (unit' = unit \/ unit' = [unit EXCEPT !.st = "stopped"])
    BY <1>4 DEF Stop
  <2> QED BY <2>1, <2>2 DEF WorldInv, WorldParts
<1>5. ASSUME NEW p \in Procs, Crash(p) PROVE WorldParts'
  <2>1. lost' \in BOOLEAN /\ UNCHANGED <<clock, file, mtime, disk, store, sids>>
        /\ Gone(p, 9, "crash")
    BY <1>5 DEF Crash, WorldInv
  <2> QED BY <2>1, GoneType DEF WorldInv, WorldParts
<1>6. ASSUME NEW p \in Procs, Hup(p) \/ Attributed(p) \/ StreamEnds(p) PROVE WorldParts'
  BY <1>6 DEF Hup, Attributed, StreamEnds, WorldInv, WorldParts, ghosts
<1>7. CASE UnitStarts
  BY <1>7 DEF UnitStarts, WorldInv, WorldParts, ghosts
<1>8. CASE GivesUp
  <2>1. UNCHANGED <<clock, file, mtime, disk>> /\ UNCHANGED <<lost, sids>>
    BY <1>8, EnvStays DEF GivesUp, ghosts
  <2> QED BY <1>8, <2>1 DEF GivesUp, WorldInv, WorldParts
<1>9. CASE HandStarts
  BY <1>9 DEF HandStarts, WorldInv, WorldParts, ghosts
<1>10. CASE Tick \/ Edit
  <2>1. CASE Tick
    BY <2>1 DEF Tick, WorldInv, WorldParts, ghosts
  <2>2. CASE Edit
    BY <2>2 DEF Edit, WorldInv, WorldParts, ghosts
  <2> QED BY <1>10, <2>1, <2>2
<1>11. CASE DiskChanges
  BY <1>11 DEF DiskChanges, WorldInv, WorldParts, ghosts
<1> QED BY <1>2, <1>3, <1>4, <1>5, <1>6, <1>7, <1>8, <1>9, <1>10, <1>11 DEF Next

\* Every step leaves the sessions and the log in order.
LEMMA HearStep ==
    ASSUME WorldInv, HearInv, ListInv, [Next]_vars PROVE HearInv'
<1>1. left'.vocabulary = left.vocabulary
  BY WordsStay
<1>2. CASE UNCHANGED vars
  BY <1>1, <1>2, HearElse DEF vars, ghosts
<1>3. ASSUME NEW p \in Procs, Run(p) PROVE HearInv'
  <2>1. CASE CaptureEnds(p)
    BY <1>1, <2>1, HearGone DEF CaptureEnds, Gone
  <2> QED
    BY <1>3, <2>1, HearOnAudio, HearFlags, HearHousekeep, HearBuild, HearTakeLock DEF Run
<1>4. ASSUME NEW p \in Procs, CaptureFails(p) \/ Stop(p) \/ Crash(p) PROVE HearInv'
  BY <1>1, <1>4, HearGone DEF CaptureFails, Stop, Crash, Gone, ghosts
<1>5. CASE GivesUp \/ Tick \/ Edit \/ DiskChanges
  BY <1>1, <1>5, HearElse DEF GivesUp, Tick, Edit, DiskChanges, ghosts
<1> QED BY <1>2, <1>3, <1>4, <1>5, HearFlags, HearStarts DEF Next

\* The inductive invariant.
DaemonInv == WorldInv /\ HearInv /\ ListInv

\* The invariant holds at the start ...
LEMMA DaemonInvInit == Init => DaemonInv
<1> SUFFICES ASSUME Init PROVE DaemonInv OBVIOUS
<1>1. WorldInv
  <2>1. left \in Plans
    BY DEF Init
  <2>2. /\ Budgets \cup {"vocabulary"} \subseteq DOMAIN left
        /\ left.vocabulary \subseteq Words
        /\ \E V \in Vocabularies : left.vocabulary \subseteq V
    BY <2>1, PlansGiven
  <2> QED BY <2>2, NeverInt DEF Init, WorldInv
<1>2. HearInv
  <2> DEFINE e == [NoProc EXCEPT !.st = "exec"]
  <2>1. /\ log = <<>> /\ DOMAIN proc = Procs
        /\ \A q \in Procs : proc[q] = NoProc \/ proc[q] = e
    BY DEF Init
  <2>2. e \in Processes /\ e.sess = NoSession
    <3> DEFINE o == NoProc
               none == NoSession
    <3>1. o \in Processes /\ o.sess = none
      BY NoProcType
    <3>2. e = [o EXCEPT !.st = "exec"] OBVIOUS
    <3> HIDE DEF o, none, e
    <3>3. e \in Processes /\ e.sess = none
      BY <3>1, <3>2 DEF Processes, ProcStates, Started
    <3> QED BY <3>3 DEF none
  <2>3. \A q \in Procs : proc[q] \in Processes /\ proc[q].sess = NoSession
    <3> HIDE DEF e
    <3> QED BY <2>1, <2>2, NoProcType
  <2>4. ~NoSession.open /\ ~Over(NoSession.win)
    BY NoSessionType DEF NoSession
  <2>5. LogInv
    BY <2>1 DEF LogInv, Apart
  <2> QED BY <2>1, <2>3, <2>4, <2>5 DEF HearInv, SessionKept, OwnSessions
<1> QED BY <1>1, <1>2, ListInvInit DEF DaemonInv

\* ... and every step keeps it.
LEMMA DaemonInvNext == DaemonInv /\ [Next]_vars => DaemonInv'
<1> SUFFICES ASSUME DaemonInv, [Next]_vars PROVE DaemonInv' OBVIOUS
<1>1. WorldInv /\ HearInv /\ ListInv
  BY DEF DaemonInv
<1>2. WorldParts'
  <2>1. CASE UNCHANGED vars
    BY <1>1, <2>1 DEF vars, env, ghosts, WorldInv, WorldParts
  <2> QED BY <1>1, <2>1, WorldStep
<1>3. WorldInv'
  <2>1. left'.vocabulary = left.vocabulary /\ DOMAIN left' = DOMAIN left
    BY <1>1, WordsStay
  <2> QED BY <1>1, <1>2, <2>1 DEF WorldInv, WorldParts
<1> QED BY <1>1, <1>3, HearStep, ListInvNext DEF DaemonInv

-----------------------------------------------------------------------------
(* The theorems.                                                           *)

\* Every variable holds a value of its kind, words and their times stay in
\* step through every roll of the window, and a live copy that runs holds the
\* lock.
THEOREM DaemonTypes == Spec => []TypeOK
<1>1. DaemonInv => TypeOK
  <2> SUFFICES ASSUME DaemonInv PROVE TypeOK OBVIOUS
  <2>1. ASSUME NEW p \in Procs
        PROVE  /\ proc[p].st \in {"off", "exec", "built", "opening", "running"}
               /\ proc[p].counters \in CounterRecords /\ proc[p].grammar \subseteq Words
               /\ proc[p].sess.win.tokens \in Seq(Words)
               /\ Len(proc[p].sess.win.times) = Len(proc[p].sess.win.tokens)
               /\ proc[p].live /\ Up(p) => lock = p
    <3>1. proc[p] \in Processes /\ LockHeld(p) /\ left.vocabulary \subseteq Words
      BY DEF DaemonInv, HearInv, ListInv, WorldInv
    <3>2. proc[p].sess.win \in Windows
      BY <3>1 DEF Processes, Sessions
    <3> DEFINE t == proc[p].sess.win.tokens
               V == left.vocabulary
    <3>3. t \in Seq(V) /\ V \subseteq Words
      BY <3>1, <3>2 DEF Windows
    <3> HIDE DEF t, V
    <3>4. t \in Seq(Words)
      BY <3>3
    <3> QED BY <3>1, <3>2, <3>4 DEF Processes, ProcStates, LockHeld, Windows, t
  <2> QED BY <2>1 DEF DaemonInv, WorldInv, TypeOK
<1> QED BY <1>1, DaemonInvInit, DaemonInvNext, PTL DEF Spec

\* The same words of a stream are never reported twice for one row of the
\* phrase list: accept's notes of what was reported are kept, and stay true,
\* until the words they are about have left the window.
THEOREM NoWordsTwice == Spec => []ReportsDoNotOverlap
<1>1. DaemonInv => ReportsDoNotOverlap
  BY DEF DaemonInv, HearInv, LogInv, Apart, ReportsDoNotOverlap
<1> QED BY <1>1, DaemonInvInit, DaemonInvNext, PTL DEF Spec

\* A window over the threshold on a category that has not fired has said so,
\* unless a suppressor has grown too old since the last match: matches are
\* handled one by one, and no other step raises a score.
THEOREM ThresholdIsReported == Spec => []CrossingIsReported
<1>1. DaemonInv => CrossingIsReported
  BY DEF DaemonInv, HearInv, SessionKept, Over, CrossingIsReported
<1> QED BY <1>1, DaemonInvInit, DaemonInvNext, PTL DEF Spec

-----------------------------------------------------------------------------
(* The evidence.                                                           *)

LiveUp(q) == proc[q].live /\ Up(q)
Held(q, x) == Times(proc[q].counters.events, x)
Based(q, x) == Times(proc[q].base.events, x)
Stored(x) == Times(store.events, x)
InLog(x) == Said(log, x)
LiveInLog(x) == SaidLive(log, x)

\* No mark is saved or counted more often than it is logged.  While nothing is
\* lost, what the live copy logged of a young mark is in the state file, or is
\* what the live copy counted since it last read or wrote the file.
MarkKept(x) ==
    /\ Stored(x) <= InLog(x)
    /\ \A q \in Procs : /\ Held(q, x) <= InLog(x) /\ Based(q, x) <= InLog(x)
                        /\ Young(x) => Based(q, x) <= Held(q, x)
    /\ Young(x) /\ ~lost =>
           /\ (\A q \in Procs : ~LiveUp(q)) => LiveInLog(x) <= Stored(x)
           /\ \A q \in Procs : LiveUp(q) => LiveInLog(x) + Based(q, x) <= Stored(x) + Held(q, x)

\* systemd starts the service when no process of it is left.
UnitInv == proc[Service].st # "off" => unit.st = "active"

EvidenceInv == UnitInv /\ \A x \in Marks : MarkKept(x)

\* All that is compared is a number.
LEMMA MarkNumbers ==
    ASSUME WorldInv, HearInv, NEW x
    PROVE  /\ Stored(x) \in Nat /\ InLog(x) \in Nat /\ LiveInLog(x) \in Nat
           /\ \A q \in Procs : Held(q, x) \in Nat /\ Based(q, x) \in Nat
<1>1. store \in CounterRecords /\ log \in Seq(Entries)
  BY DEF WorldInv, HearInv, LogInv
<1>2. \A q \in Procs : proc[q].counters \in CounterRecords /\ proc[q].base \in CounterRecords
  BY DEF HearInv, Processes
<1>3. Stored(x) \in Nat /\ InLog(x) \in Nat /\ LiveInLog(x) \in Nat
  BY <1>1, TallyNumbers DEF Stored, InLog, LiveInLog
<1>4. \A q \in Procs : Held(q, x) \in Nat /\ Based(q, x) \in Nat
  BY <1>1, <1>2, TallyNumbers DEF Held, Based
<1> QED BY <1>3, <1>4

\* What must be shown of the step of p to r.
Tells(p, r, x) ==
    LET held == Times(r.counters.events, x)
        based == Times(r.base.events, x)
    IN /\ held \in Nat /\ based \in Nat
       /\ Stored(x)' <= InLog(x)' /\ InLog(x) <= InLog(x)'
       /\ held <= InLog(x)' /\ based <= InLog(x)' /\ (Young(x) => based <= held)
       /\ Young(x) /\ ~lost' =>
            /\ ~lost
            /\ r.live /\ r.st \in {"opening", "running"}
                 => LiveInLog(x)' + based <= Stored(x)' + held
            /\ ~(r.live /\ r.st \in {"opening", "running"})
                 => /\ LiveInLog(x)' = LiveInLog(x) /\ Stored(x) <= Stored(x)'
                    /\ LiveUp(p) => LiveInLog(x) <= Stored(x)'

\* ... and that it is enough.
LEMMA OneTells ==
    ASSUME WorldInv, HearInv, ListInv, WorldInv', HearInv', ListInv', clock' = clock,
           NEW p \in Procs, NEW r, Goes(p, r), NEW x \in Marks, MarkKept(x), Tells(p, r, x)
    PROVE  MarkKept(x)'
<1>1. DOMAIN proc' = Procs /\ proc'[p] = r /\ \A q \in Procs \ {p} : proc'[q] = proc[q]
  BY DEF Goes, ListInv
<1> DEFINE held == Times(r.counters.events, x)
           based == Times(r.base.events, x)
<1>2. Held(p, x)' = held /\ Based(p, x)' = based
      /\ (LiveUp(p)' <=> r.live /\ r.st \in {"opening", "running"})
  BY <1>1 DEF Held, Based, LiveUp, Up
<1>3. \A q \in Procs \ {p} : Held(q, x)' = Held(q, x) /\ Based(q, x)' = Based(q, x)
                             /\ (LiveUp(q)' <=> LiveUp(q))
  BY <1>1 DEF Held, Based, LiveUp, Up
<1>4. Young(x)' <=> Young(x)
  BY DEF Young, Fresh
<1>5. /\ Stored(x) \in Nat /\ InLog(x) \in Nat /\ LiveInLog(x) \in Nat
      /\ \A q \in Procs : Held(q, x) \in Nat /\ Based(q, x) \in Nat
  BY MarkNumbers
<1>6. /\ (Stored(x) \in Nat)' /\ (InLog(x) \in Nat)' /\ (LiveInLog(x) \in Nat)'
  <2>1. /\ store' \in CounterRecords /\ log' \in Seq(Entries)
    BY DEF WorldInv, HearInv, LogInv
  <2> QED BY <2>1, TallyNumbers DEF Stored, InLog, LiveInLog
<1>7. held \in Nat /\ based \in Nat
  BY DEF Tells
<1>8. \A q \in Procs : LiveUp(p)' /\ LiveUp(q)' => q = p
  BY DEF LiveUp, ListInv, LockHeld
<1> HIDE DEF held, based
<1>9. /\ Stored(x)' <= InLog(x)' /\ InLog(x) <= InLog(x)'
      /\ held <= InLog(x)' /\ based <= InLog(x)' /\ (Young(x) => based <= held)
      /\ Young(x) /\ ~lost' =>
            /\ ~lost
            /\ LiveUp(p)' => LiveInLog(x)' + based <= Stored(x)' + held
            /\ ~LiveUp(p)'
                 => /\ LiveInLog(x)' = LiveInLog(x) /\ Stored(x) <= Stored(x)'
                    /\ LiveUp(p) => LiveInLog(x) <= Stored(x)'
  BY <1>2 DEF Tells, held, based
<1>10. ASSUME NEW q \in Procs
       PROVE  /\ Held(q, x)' <= InLog(x)' /\ Based(q, x)' <= InLog(x)'
              /\ Young(x) => Based(q, x)' <= Held(q, x)'
  <2>1. CASE q = p
    BY <1>2, <1>9, <2>1
  <2>2. CASE q # p
    <3>1. /\ Held(q, x) <= InLog(x) /\ Based(q, x) <= InLog(x)
          /\ Young(x) => Based(q, x) <= Held(q, x)
      BY DEF MarkKept
    <3>2. Held(q, x)' = Held(q, x) /\ Based(q, x)' = Based(q, x)
      BY <1>3, <2>2
    <3> QED BY <1>5, <1>6, <1>9, <3>1, <3>2
  <2> QED BY <2>1, <2>2
<1>11. ASSUME Young(x), ~lost', \A q \in Procs : ~LiveUp(q)' PROVE LiveInLog(x)' <= Stored(x)'
  <2>1. /\ ~lost /\ LiveInLog(x)' = LiveInLog(x) /\ Stored(x) <= Stored(x)'
        /\ LiveUp(p) => LiveInLog(x) <= Stored(x)'
    BY <1>9, <1>11
  <2>2. CASE LiveUp(p)
    BY <2>1, <2>2
  <2>3. CASE ~LiveUp(p)
    <3>1. \A q \in Procs : ~LiveUp(q)
      BY <1>3, <1>11, <2>3
    <3>2. LiveInLog(x) <= Stored(x)
      BY <1>11, <2>1, <3>1 DEF MarkKept
    <3> QED BY <1>5, <1>6, <2>1, <3>2
  <2> QED BY <2>2, <2>3
<1>12. ASSUME Young(x), ~lost', NEW q \in Procs, LiveUp(q)'
       PROVE  LiveInLog(x)' + Based(q, x)' <= Stored(x)' + Held(q, x)'
  <2>1. CASE q = p
    BY <1>2, <1>9, <1>12, <2>1
  <2>2. CASE q # p
    <3>1. ~LiveUp(p)' /\ LiveUp(q)
      BY <1>3, <1>8, <1>12, <2>2
    <3>2. ~lost /\ LiveInLog(x)' = LiveInLog(x) /\ Stored(x) <= Stored(x)'
      BY <1>9, <1>12, <3>1
    <3>3. LiveInLog(x) + Based(q, x) <= Stored(x) + Held(q, x)
      BY <1>12, <3>1, <3>2 DEF MarkKept
    <3>4. Held(q, x)' = Held(q, x) /\ Based(q, x)' = Based(q, x)
      BY <1>3, <2>2
    <3> QED BY <1>5, <1>6, <3>2, <3>3, <3>4
  <2> QED BY <2>1, <2>2
<1> QED BY <1>4, <1>9, <1>10, <1>11, <1>12 DEF MarkKept

\* The step is one of one process, and its marks are told.
StepTells(x) == \E p \in Procs : \E r : Goes(p, r) /\ Tells(p, r, x)

\* What a process counts with.
LEMMA ProcNumbers ==
    ASSUME HearInv, NEW p \in Procs
    PROVE  /\ proc[p].counters \in CounterRecords /\ proc[p].base \in CounterRecords
           /\ proc[p].live \in BOOLEAN /\ proc[p].known \in BOOLEAN
  BY DEF HearInv, Processes

\* A process that has not started has counted nothing.
LEMMA NothingCounted ==
    /\ NoProc.counters = NoCounters /\ NoProc.base = NoCounters /\ NoProc.st = "off"
    /\ \A x : Times(NoCounters.events, x) = 0
<1>1. NoProc.counters = NoCounters /\ NoProc.base = NoCounters /\ NoProc.st = "off"
  BY DEF NoProc
<1>2. ASSUME NEW x PROVE Times(NoCounters.events, x) = 0
  <2>1. {i \in DOMAIN <<>> : <<>>[i] = x} = {} OBVIOUS
  <2>2. NoCounters.events = <<>>
    BY DEF NoCounters
  <2> QED BY <2>1, <2>2, FS_EmptySet DEF Times
<1> QED BY <1>1, <1>2

\* What is heard.
LEMMA TellsAudio ==
    ASSUME WorldInv, HearInv, ListInv, NEW p \in Procs, NEW w \in left.vocabulary,
           NEW final \in BOOLEAN, OnAudio(p, w, final), log' \in Seq(Entries),
           NEW x \in Marks, MarkKept(x)
    PROVE  StepTells(x)
<1>1. HeardTallied(p)
  BY HearOnAudio
<1> DEFINE live == proc[p].live
           c == proc[p].counters
<1>2. PICK r : /\ Goes(p, r) /\ r.st = proc[p].st /\ r.live = proc[p].live
               /\ r.base = proc[p].base /\ r.counters \in CounterRecords
               /\ Tallies(live, c, log, r.counters, log')
  BY <1>1 DEF HeardTallied
<1>3. Tallied(live, c, log, r.counters, log', x) /\ live \in BOOLEAN
  BY <1>2, ProcNumbers DEF Tallies
<1> DEFINE held == Times(r.counters.events, x)
           based == Times(r.base.events, x)
<1>4. held \in Nat
  BY <1>2, TallyNumbers
<1>5. based = Based(p, x) /\ Stored(x)' = Stored(x) /\ lost' = lost /\ proc[p].st = "running"
  BY <1>2 DEF Based, Stored, OnAudio
<1>6. /\ Stored(x) \in Nat /\ InLog(x) \in Nat /\ LiveInLog(x) \in Nat
      /\ Held(p, x) \in Nat /\ Based(p, x) \in Nat
  BY MarkNumbers
<1>7. InLog(x)' \in Nat /\ LiveInLog(x)' \in Nat
  <2>1. Said(log', x) \in Nat /\ SaidLive(log', x) \in Nat
    BY <1>2, TallyNumbers
  <2> QED BY <2>1 DEF InLog, LiveInLog
<1>8. /\ held + InLog(x) <= Held(p, x) + InLog(x)'
      /\ Young(x) => held + InLog(x) = Held(p, x) + InLog(x)'
      /\ InLog(x) <= InLog(x)'
      /\ live => LiveInLog(x)' + InLog(x) = LiveInLog(x) + InLog(x)'
      /\ ~live => LiveInLog(x)' = LiveInLog(x)
  BY <1>3, Zenon DEF Tallied, InLog, LiveInLog, Held
<1>9. /\ Stored(x) <= InLog(x) /\ Held(p, x) <= InLog(x) /\ Based(p, x) <= InLog(x)
      /\ Young(x) => Based(p, x) <= Held(p, x)
      /\ Young(x) /\ ~lost /\ live
           => LiveInLog(x) + Based(p, x) <= Stored(x) + Held(p, x)
      /\ LiveUp(p) <=> live
  BY <1>5 DEF MarkKept, LiveUp, Up
<1>10. r.live = live /\ r.st = "running"
  BY <1>2, <1>5
<1> HIDE DEF held, based, live
<1>11. /\ held \in Nat /\ based \in Nat
       /\ Stored(x)' <= InLog(x)' /\ InLog(x) <= InLog(x)'
       /\ held <= InLog(x)' /\ based <= InLog(x)'
  BY <1>4, <1>5, <1>6, <1>7, <1>8, <1>9
<1>12. Young(x) => based <= held
  BY <1>4, <1>5, <1>6, <1>7, <1>8, <1>9
<1>13. Young(x) /\ ~lost /\ live => LiveInLog(x)' + based <= Stored(x)' + held
  BY <1>4, <1>5, <1>6, <1>7, <1>8, <1>9
<1>14. ~live => /\ LiveInLog(x)' = LiveInLog(x) /\ Stored(x) <= Stored(x)' /\ ~LiveUp(p)
  BY <1>5, <1>6, <1>8, <1>9
<1>15. Tells(p, r, x)
  BY <1>5, <1>10, <1>11, <1>12, <1>13, <1>14 DEF Tells, held, based
<1> QED BY <1>2, <1>15 DEF StepTells

\* A step that counts, logs and saves nothing, of a process that is as much up
\* after it as before, or becomes so while no live copy is up.
LEMMA TellsQuiet ==
    ASSUME WorldInv, HearInv, NEW p \in Procs, NEW r, Goes(p, r),
           UNCHANGED <<store, log, lost>>, NEW x \in Marks, MarkKept(x),
           r.counters = proc[p].counters, r.base = proc[p].base,
           \/ r.live /\ r.st \in {"opening", "running"} <=> LiveUp(p)
           \/ \A q \in Procs : ~LiveUp(q)
    PROVE  StepTells(x)
<1> DEFINE held == Times(r.counters.events, x)
           based == Times(r.base.events, x)
<1>1. held = Held(p, x) /\ based = Based(p, x)
  BY DEF Held, Based
<1>2. /\ Stored(x)' = Stored(x) /\ InLog(x)' = InLog(x) /\ LiveInLog(x)' = LiveInLog(x)
      /\ lost' = lost
  BY DEF Stored, InLog, LiveInLog
<1>3. /\ Stored(x) \in Nat /\ InLog(x) \in Nat /\ LiveInLog(x) \in Nat
      /\ Held(p, x) \in Nat /\ Based(p, x) \in Nat
  BY MarkNumbers
<1>4. /\ Stored(x) <= InLog(x) /\ Held(p, x) <= InLog(x) /\ Based(p, x) <= InLog(x)
      /\ Young(x) => Based(p, x) <= Held(p, x)
      /\ Young(x) /\ ~lost /\ LiveUp(p)
           => LiveInLog(x) + Based(p, x) <= Stored(x) + Held(p, x)
      /\ Young(x) /\ ~lost /\ (\A q \in Procs : ~LiveUp(q)) => LiveInLog(x) <= Stored(x)
  BY DEF MarkKept
<1> DEFINE up == r.live /\ r.st \in {"opening", "running"}
<1> HIDE DEF held, based
<1>5. Young(x) /\ ~lost /\ up => LiveInLog(x)' + based <= Stored(x)' + held
  <2>1. CASE LiveUp(p)
    BY <1>1, <1>2, <1>4, <2>1
  <2>2. CASE ~LiveUp(p)
    BY <1>1, <1>2, <1>3, <1>4, <2>2
  <2> QED BY <2>1, <2>2
<1>6. ~up => ~LiveUp(p) OBVIOUS
<1>7. Stored(x) <= Stored(x)' /\ InLog(x) <= InLog(x)'
  BY <1>2, <1>3
<1>8. Tells(p, r, x)
  BY <1>1, <1>2, <1>3, <1>4, <1>5, <1>6, <1>7 DEF Tells, held, based
<1> QED BY <1>8 DEF StepTells

\* A process that is not up ends or starts.
LEMMA TellsNothing ==
    ASSUME WorldInv, HearInv, NEW p \in Procs, NEW r, Goes(p, r),
           UNCHANGED <<store, log, lost>>, NEW x \in Marks, MarkKept(x),
           r.counters = NoCounters, r.base = NoCounters,
           r.st \notin {"opening", "running"}, ~LiveUp(p)
    PROVE  StepTells(x)
<1>1. Times(r.counters.events, x) = 0 /\ Times(r.base.events, x) = 0
  BY NothingCounted
<1>2. /\ Stored(x)' = Stored(x) /\ InLog(x)' = InLog(x) /\ LiveInLog(x)' = LiveInLog(x)
      /\ lost' = lost
  BY DEF Stored, InLog, LiveInLog
<1>3. Stored(x) \in Nat /\ InLog(x) \in Nat /\ Stored(x) <= InLog(x)
  BY MarkNumbers DEF MarkKept
<1>4. Stored(x) <= Stored(x)' /\ InLog(x) <= InLog(x)' /\ 0 <= InLog(x)' /\ Stored(x)' <= InLog(x)'
  BY <1>2, <1>3
<1>5. Tells(p, r, x)
  BY <1>1, <1>2, <1>3, <1>4 DEF Tells
<1> QED BY <1>5 DEF StepTells

\* A process that is up could not save, and goes on with its record trimmed.
LEMMA TellsUnsaved ==
    ASSUME WorldInv, HearInv, NEW p \in Procs, NEW r, Goes(p, r),
           UNCHANGED <<store, lost>>, NEW x \in Marks, MarkKept(x),
           InLog(x)' = InLog(x), LiveInLog(x)' = LiveInLog(x),
           r.counters \in CounterRecords, r.base = proc[p].base,
           Times(r.counters.events, x) <= Held(p, x),
           Young(x) => Times(r.counters.events, x) = Held(p, x),
           r.live = proc[p].live, r.st = proc[p].st
    PROVE  StepTells(x)
<1> DEFINE held == Times(r.counters.events, x)
           based == Times(r.base.events, x)
           up == r.live /\ r.st \in {"opening", "running"}
<1>1. based = Based(p, x) /\ held \in Nat
  BY TallyNumbers DEF Based, HearInv, LogInv
<1>2. Stored(x)' = Stored(x) /\ lost' = lost
  BY DEF Stored
<1>3. /\ Stored(x) \in Nat /\ InLog(x) \in Nat /\ LiveInLog(x) \in Nat
      /\ Held(p, x) \in Nat /\ Based(p, x) \in Nat
  BY MarkNumbers
<1>4. /\ Stored(x) <= InLog(x) /\ Held(p, x) <= InLog(x) /\ Based(p, x) <= InLog(x)
      /\ Young(x) => Based(p, x) <= Held(p, x)
      /\ Young(x) /\ ~lost /\ LiveUp(p)
           => LiveInLog(x) + Based(p, x) <= Stored(x) + Held(p, x)
  BY DEF MarkKept
<1>5. up <=> LiveUp(p)
  BY DEF LiveUp, Up
<1>6. held <= Held(p, x) /\ (Young(x) => held = Held(p, x)) OBVIOUS
<1> HIDE DEF held, based, up
<1>7. /\ Stored(x) <= Stored(x)' /\ InLog(x) <= InLog(x)' /\ Stored(x)' <= InLog(x)'
      /\ held <= InLog(x)' /\ based <= InLog(x)' /\ based \in Nat
      /\ Young(x) => based <= held
  BY <1>1, <1>2, <1>3, <1>4, <1>6
<1>8. Young(x) /\ ~lost /\ up => LiveInLog(x)' + based <= Stored(x)' + held
  BY <1>1, <1>2, <1>3, <1>4, <1>5, <1>6
<1>9. Tells(p, r, x)
  BY <1>1, <1>2, <1>3, <1>5, <1>7, <1>8 DEF Tells, held, based, up
<1> QED BY <1>9 DEF StepTells

\* A process that is up saves all it has counted, and goes on or ends.
LEMMA TellsSaved ==
    ASSUME WorldInv, HearInv, NEW p \in Procs, NEW r, Goes(p, r), Up(p), "state" \in disk,
           NEW c \in CounterRecords, Save(p, c), NEW x \in Marks, MarkKept(x),
           Times(c.events, x) <= Held(p, x), Young(x) => Times(c.events, x) = Held(p, x),
           InLog(x)' = InLog(x), LiveInLog(x)' = LiveInLog(x),
           \/ r.counters = c /\ r.base = c /\ r.live = proc[p].live
           \/ /\ r.counters = NoCounters /\ r.base = NoCounters
              /\ r.st \notin {"opening", "running"}
    PROVE  StepTells(x)
<1> DEFINE held == Times(r.counters.events, x)
           based == Times(r.base.events, x)
           kept == Times(c.events, x)
<1>1. Stored(x)' = kept /\ kept \in Nat
  BY TallyNumbers DEF Stored, Save, HearInv, LogInv
<1>2. \/ held = kept /\ based = kept /\ r.live = proc[p].live
      \/ held = 0 /\ based = 0 /\ r.st \notin {"opening", "running"}
  BY NothingCounted
<1>3. /\ Stored(x) \in Nat /\ InLog(x) \in Nat /\ LiveInLog(x) \in Nat
      /\ Held(p, x) \in Nat /\ Based(p, x) \in Nat
  BY MarkNumbers
<1>4. /\ Held(p, x) <= InLog(x)
      /\ Young(x) => Based(p, x) <= Held(p, x)
      /\ Young(x) /\ ~lost /\ LiveUp(p)
           => LiveInLog(x) + Based(p, x) <= Stored(x) + Held(p, x)
  BY DEF MarkKept
<1>5. ~lost' => ~lost /\ Based(p, x) = Stored(x)
  BY DEF Save, Based, Stored
<1>6. kept <= Held(p, x) /\ (Young(x) => kept = Held(p, x)) OBVIOUS
<1>7. LiveUp(p) <=> proc[p].live
  BY DEF LiveUp
<1> DEFINE up == r.live /\ r.st \in {"opening", "running"}
<1> HIDE DEF held, based, kept
<1>8. /\ held \in Nat /\ based \in Nat /\ Stored(x)' <= InLog(x)' /\ InLog(x) <= InLog(x)'
      /\ held <= InLog(x)' /\ based <= InLog(x)' /\ based <= held
  BY <1>1, <1>2, <1>3, <1>4, <1>6
<1>9. ASSUME Young(x), ~lost' PROVE Stored(x) <= Stored(x)' /\ (LiveUp(p) => LiveInLog(x) <= Stored(x)')
  BY <1>1, <1>3, <1>4, <1>5, <1>6, <1>9
<1>10. ASSUME Young(x), ~lost', up PROVE LiveInLog(x)' + based <= Stored(x)' + held
  <2>1. LiveUp(p) /\ held = kept /\ based = kept
    BY <1>2, <1>7, <1>10
  <2> QED BY <1>1, <1>3, <1>9, <1>10, <2>1
<1>11. Tells(p, r, x)
  BY <1>5, <1>8, <1>9, <1>10 DEF Tells, held, based
<1> QED BY <1>11 DEF StepTells

\* What is young has been saved if all of the last day has.
LEMMA SavedYoung ==
    ASSUME WorldInv, HearInv, NEW p \in Procs, ~Unsaved(p), NEW x, Young(x)
    PROVE  Held(p, x) = Based(p, x)
<1> DEFINE c == proc[p].counters.events
           b == proc[p].base.events
<1>1. Recent(c, clock) = Recent(b, clock)
  BY DEF Unsaved
<1>2. c \in Seq(TallyRows) /\ b \in Seq(TallyRows)
  BY ProcNumbers DEF CounterRecords, TallyRows
<1>3. x.at >= clock - DayS
  BY DEF Young, Fresh
<1>4. Held(p, x) = Times(c, x) /\ Based(p, x) = Times(b, x)
  BY DEF Held, Based
<1> HIDE DEF c, b
<1>5. Times(Recent(c, clock), x) = Times(c, x) /\ Times(Recent(b, clock), x) = Times(b, x)
  BY <1>2, <1>3, TrimmedTimes
<1> QED BY <1>1, <1>4, <1>5

\* A process ends without a save: if nothing is lost, nothing was counted since
\* the last one.
LEMMA TellsCrash ==
    ASSUME WorldInv, HearInv, NEW p \in Procs, Goes(p, NoProc), UNCHANGED <<store, log>>,
           lost' = (lost \/ Unsaved(p)), NEW x \in Marks, MarkKept(x)
    PROVE  StepTells(x)
<1> DEFINE r == NoProc
<1>1. Goes(p, r) /\ store' = store /\ log' = log OBVIOUS
<1>2. Times(r.counters.events, x) = 0 /\ Times(r.base.events, x) = 0
      /\ r.st \notin {"opening", "running"}
  BY NothingCounted
<1>3. /\ Stored(x)' = Stored(x) /\ InLog(x)' = InLog(x) /\ LiveInLog(x)' = LiveInLog(x)
  BY <1>1 DEF Stored, InLog, LiveInLog
<1>4. /\ Stored(x) \in Nat /\ InLog(x) \in Nat /\ LiveInLog(x) \in Nat
      /\ Held(p, x) \in Nat /\ Based(p, x) \in Nat
  BY MarkNumbers
<1>5. ASSUME Young(x), ~lost' PROVE ~lost /\ (LiveUp(p) => LiveInLog(x) <= Stored(x))
  <2>1. ~lost /\ Held(p, x) = Based(p, x)
    BY <1>5, SavedYoung
  <2>2. LiveUp(p) => LiveInLog(x) + Based(p, x) <= Stored(x) + Held(p, x)
    BY <1>5, <2>1 DEF MarkKept
  <2> QED BY <1>4, <2>1, <2>2
<1>6. Stored(x) <= InLog(x)
  BY DEF MarkKept
<1> HIDE DEF r
<1>7. Stored(x) <= Stored(x)' /\ InLog(x) <= InLog(x)' /\ Stored(x)' <= InLog(x)' /\ 0 <= InLog(x)'
  BY <1>3, <1>4, <1>6
<1>8. Tells(p, r, x)
  BY <1>2, <1>3, <1>5, <1>7 DEF Tells
<1> QED BY <1>1, <1>8 DEF StepTells

\* A process reads the state file.
LEMMA TellsBuild ==
    ASSUME WorldInv, HearInv, NEW p \in Procs, Build(p), NEW x \in Marks, MarkKept(x)
    PROVE  StepTells(x)
<1>1. UNCHANGED <<store, log, lost>> /\ ~LiveUp(p)
  <2>1. UNCHANGED <<store, log, ghosts>> /\ proc[p].st = "exec"
    BY Zenon DEF Build
  <2> QED BY <2>1 DEF ghosts, LiveUp, Up
<1>2. CASE ~Loads(Files[file])
  <2>1. Goes(p, NoProc)
    BY <1>2 DEF Build, Gone
  <2> QED BY <1>1, <2>1, NothingCounted, TellsNothing
<1>3. CASE Loads(Files[file])
  <2>0. PICK base \in Readable :
            Goes(p, [proc[p] EXCEPT !.st = "built", !.list = file, !.seen = mtime,
                       !.grammar = Grammar(file), !.base = base,
                       !.counters = LoadCounters(base, clock)])
    BY <1>3, Zenon DEF Build
  <2> DEFINE o == proc[p]
             g == Grammar(file)
             c == LoadCounters(base, clock)
             r == [o EXCEPT !.st = "built", !.list = file, !.seen = mtime,
                            !.grammar = g, !.base = base, !.counters = c]
  <2>1. Goes(p, r)
    BY <2>0
  <2>2. o \in Processes
    BY DEF HearInv
  <2>3. /\ base \in CounterRecords /\ c = [base EXCEPT !.events = Recent(base.events, clock)]
        /\ base = store \/ base = NoCounters
    BY ReadableType DEF LoadCounters
  <2> HIDE DEF o, c, g
  <2>4. r.st = "built" /\ r.base = base /\ r.counters = c
    BY <2>2 DEF Processes
  <2> HIDE DEF r
  <2>5. c.events = Recent(base.events, clock) /\ base.events \in Seq(TallyRows)
    BY <2>3 DEF CounterRecords, TallyRows
  <2> DEFINE held == Times(r.counters.events, x)
             based == Times(r.base.events, x)
  <2>6. held \in Nat /\ held <= based /\ (Young(x) => held = based)
    <3> DEFINE rows == base.events
               l == Recent(rows, clock)
    <3> HIDE DEF rows, l
    <3>1. /\ Times(l, x) \in Nat /\ Times(l, x) <= Times(rows, x)
          /\ x.at >= clock - DayS => Times(l, x) = Times(rows, x)
      BY <2>5, TrimmedTimes DEF rows, l
    <3>2. held = Times(l, x) /\ Times(rows, x) = based
      BY <2>4, <2>5 DEF rows, l
    <3> QED BY <3>1, <3>2 DEF Young, Fresh
  <2>7. /\ Stored(x)' = Stored(x) /\ InLog(x)' = InLog(x) /\ LiveInLog(x)' = LiveInLog(x)
        /\ lost' = lost
    BY <1>1 DEF Stored, InLog, LiveInLog
  <2>8. Stored(x) \in Nat /\ InLog(x) \in Nat /\ Stored(x) <= InLog(x)
    BY MarkNumbers DEF MarkKept
  <2>9. based = Stored(x) \/ based = 0
    BY <2>3, <2>4, NothingCounted DEF Stored
  <2> HIDE DEF held, based
  <2>10. /\ held \in Nat /\ based \in Nat /\ Stored(x)' <= InLog(x)' /\ InLog(x) <= InLog(x)'
         /\ held <= InLog(x)' /\ based <= InLog(x)' /\ (Young(x) => based <= held)
         /\ Stored(x) <= Stored(x)'
    BY <2>6, <2>7, <2>8, <2>9
  <2>11. Tells(p, r, x)
    BY <1>1, <2>4, <2>7, <2>10 DEF Tells, held, based
  <2> QED BY <2>1, <2>11 DEF StepTells
<1> QED BY <1>2, <1>3

\* The lock is free only if no live copy is up.
LEMMA TellsTakeLock ==
    ASSUME WorldInv, HearInv, ListInv, NEW p \in Procs, TakeLock(p),
           NEW x \in Marks, MarkKept(x)
    PROVE  StepTells(x)
<1>1. UNCHANGED <<store, log, lost>> /\ ~LiveUp(p)
  BY DEF TakeLock, ghosts, LiveUp, Up
<1>2. CASE Gone(p, 1, "refused")
  <2>1. Goes(p, NoProc)
    BY <1>2 DEF Gone
  <2> QED BY <1>1, <2>1, NothingCounted, TellsNothing
<1> DEFINE o == proc[p]
           Moved(s) == [o EXCEPT !.st = s]
<1>3. ASSUME NEW s
      PROVE  /\ Moved(s).counters = o.counters /\ Moved(s).base = o.base /\ Moved(s).st = s
             /\ Moved(s).live = o.live
  <2>1. o \in Processes
    BY DEF HearInv
  <2> HIDE DEF o
  <2> QED BY <2>1 DEF Processes
<1>4. CASE ~o.live /\ Goes(p, Moved("running"))
  <2>1. ~Moved("running").live
    BY <1>3, <1>4
  <2> DEFINE r == Moved("running")
  <2>2. r.counters = proc[p].counters /\ r.base = proc[p].base /\ ~r.live
    BY <1>3, <2>1
  <2>3. Goes(p, r)
    BY <1>4
  <2> HIDE DEF r
  <2> QED BY <1>1, <2>2, <2>3, TellsQuiet
<1>5. CASE lock = None /\ Goes(p, Moved("opening"))
  <2>1. \A q \in Procs : ~LiveUp(q)
    BY <1>5, NoneIsNothing DEF ListInv, LockHeld, LiveUp
  <2> DEFINE r == Moved("opening")
  <2>2. r.counters = proc[p].counters /\ r.base = proc[p].base
    BY <1>3
  <2>3. Goes(p, r)
    BY <1>5
  <2> HIDE DEF r
  <2> QED BY <1>1, <2>1, <2>2, <2>3, TellsQuiet
<1> QED BY <1>2, <1>4, <1>5 DEF TakeLock

\* Flags, and the capture opens.
LEMMA TellsFlags ==
    ASSUME WorldInv, HearInv, NEW p \in Procs,
           Hup(p) \/ Attributed(p) \/ StreamEnds(p) \/ Opens(p) \/ ReloadReads(p),
           NEW x \in Marks, MarkKept(x)
    PROVE  StepTells(x)
<1> DEFINE o == proc[p]
<1>1. PICK r : /\ Goes(p, r) /\ r.counters = o.counters /\ r.base = o.base /\ r.live = o.live
               /\ r.st = o.st \/ (r.st = "running" /\ o.st = "opening")
  <2>1. PICK s, d : \/ Goes(p, [o EXCEPT !.hup = TRUE])
                    \/ Goes(p, [o EXCEPT !.known = TRUE])
                    \/ Goes(p, [o EXCEPT !.sess = s])
                    \/ Goes(p, [o EXCEPT !.hup = FALSE, !.reading = d])
                    \/ o.st = "opening" /\ Goes(p, [o EXCEPT !.st = "running"])
    BY Zenon DEF Hup, Attributed, StreamEnds, Opens, ReloadReads
  <2>2. o \in Processes
    BY DEF HearInv
  <2> DEFINE As(r) == /\ r.counters = o.counters /\ r.base = o.base /\ r.live = o.live
                      /\ r.st = o.st \/ (r.st = "running" /\ o.st = "opening")
             u == [o EXCEPT !.hup = TRUE]
             k == [o EXCEPT !.known = TRUE]
             g == [o EXCEPT !.sess = s]
             n == [o EXCEPT !.st = "running"]
             m == [o EXCEPT !.hup = FALSE, !.reading = d]
  <2> HIDE DEF o
  <2>3. As(u) /\ As(k) /\ As(g) /\ As(m) /\ (o.st = "opening" => As(n))
    BY <2>2 DEF Processes
  <2> HIDE DEF As, u, k, g, n, m
  <2>4. PICK r : Goes(p, r) /\ As(r)
    BY <2>1, <2>3 DEF u, k, g, n, m
  <2> QED BY <2>4 DEF As
<1>2. UNCHANGED <<store, log, lost>>
  BY DEF Hup, Attributed, StreamEnds, Opens, ReloadReads, ghosts
<1>3. r.live /\ r.st \in {"opening", "running"} <=> LiveUp(p)
  BY <1>1 DEF LiveUp, Up
<1> QED BY <1>1, <1>2, <1>3, TellsQuiet

\* A process starts where none was.
LEMMA StartsWhereNone ==
    ASSUME UnitInv, UnitStarts \/ HandStarts
    PROVE  \E p \in Procs, live \in BOOLEAN :
             /\ \/ Goes(p, [NoProc EXCEPT !.st = "exec", !.live = live])
                \/ Goes(p, [NoProc EXCEPT !.st = "exec"])
             /\ ~LiveUp(p)
<1>1. CASE UnitStarts
  <2>1. Goes(Service, [NoProc EXCEPT !.st = "exec"]) /\ Service \in Procs
    BY <1>1, Zenon DEF UnitStarts, Procs
  <2>2. unit.st # "active"
    BY <1>1, Zenon DEF UnitStarts
  <2>3. ~LiveUp(Service)
    BY <2>2 DEF UnitInv, LiveUp, Up
  <2> QED BY <2>1, <2>3, Zenon
<1>2. CASE HandStarts
  <2>1. PICK live \in BOOLEAN : Goes("hand", [NoProc EXCEPT !.st = "exec", !.live = live])
    BY <1>2, Zenon DEF HandStarts
  <2>2. "hand" \in Procs /\ proc["hand"].st = "off"
    BY <1>2, Zenon DEF HandStarts, Procs
  <2>3. ~LiveUp("hand")
    BY <2>2 DEF LiveUp, Up
  <2> QED BY <2>1, <2>2, <2>3, Zenon
<1> QED BY <1>1, <1>2, Zenon

\* What starts has counted nothing.
LEMMA TellsStarts ==
    ASSUME WorldInv, HearInv, UnitInv, UnitStarts \/ HandStarts, NEW x \in Marks, MarkKept(x)
    PROVE  StepTells(x)
<1>1. PICK p \in Procs, live \in BOOLEAN :
          /\ \/ Goes(p, [NoProc EXCEPT !.st = "exec", !.live = live])
             \/ Goes(p, [NoProc EXCEPT !.st = "exec"])
          /\ ~LiveUp(p)
  BY StartsWhereNone, Zenon
<1> DEFINE a == [NoProc EXCEPT !.st = "exec", !.live = live]
           b == [NoProc EXCEPT !.st = "exec"]
<1>2. /\ a.counters = NoCounters /\ a.base = NoCounters /\ a.st = "exec"
      /\ b.counters = NoCounters /\ b.base = NoCounters /\ b.st = "exec"
  BY DEF NoProc
<1>3. UNCHANGED <<store, log, lost>>
  <2>1. UNCHANGED <<store, log, ghosts>>
    BY Zenon DEF UnitStarts, HandStarts
  <2> QED BY <2>1 DEF ghosts
<1> HIDE DEF a, b
<1> QED BY <1>1, <1>2, <1>3, TellsNothing DEF a, b

\* Housekeeping ages and saves, and logs no mark.
LEMMA TellsHousekeep ==
    ASSUME WorldInv, HearInv, NEW p \in Procs, Housekeep(p), NEW x \in Marks, MarkKept(x)
    PROVE  StepTells(x)
<1> DEFINE o == Reloaded(proc[p])
           c == CheckAlerts(o.counters, clock)
           s == IF o.sess.gone THEN NoSession ELSE o.sess
           b == IF "state" \in disk THEN c ELSE o.base
           r == [o EXCEPT !.counters = c, !.base = b, !.sess = s]
           e == Entry(p, "alert")
<1>1. /\ o \in Processes /\ o.counters = proc[p].counters /\ o.live = proc[p].live
      /\ o.base = proc[p].base /\ o.st = proc[p].st /\ clock \in Nat
  BY ReloadedType DEF HearInv, WorldInv
<1>2. Goes(p, r) /\ Up(p) /\ Save(p, c)
  BY HousekeepGoes, Zenon DEF Housekeep
<1>3. log' = log \/ log' = Append(log, e)
  BY Zenon DEF Housekeep
<1>4. /\ e \in Entries /\ e.event = "alert"
  BY ProcNumbers DEF Entry, Entries, OtherEntries, WorldInv
<1>5. c \in CounterRecords /\ c.events = Trimmed(proc[p].counters.events, clock)
  <2>1. c \in CounterRecords
    BY <1>1, ProcNumbers, StoredType
  <2>2. c.events = Trimmed(o.counters.events, clock)
    BY DEF CheckAlerts
  <2> QED BY <1>1, <2>1, <2>2
<1>9. b = IF "state" \in disk THEN c ELSE proc[p].base
  BY <1>1
<1> HIDE DEF o, c, s, e, b
<1>6. r.counters = c /\ r.base = b /\ r.live = proc[p].live /\ r.st = proc[p].st
  BY <1>1 DEF Processes
<1> HIDE DEF r
<1>7. InLog(x)' = InLog(x) /\ LiveInLog(x)' = LiveInLog(x)
  <2>1. CASE log' = log
    BY <2>1 DEF InLog, LiveInLog
  <2>2. CASE log' = Append(log, e)
    <3>1. log \in Seq(Entries)
      BY DEF HearInv, LogInv
    <3>2. KindOf(e) = "none"
      BY <1>4 DEF KindOf
    <3>3. KindOf(e) # x.kind
      BY <3>2 DEF Marks, EventKinds
    <3>4. Said(Append(log, e), x) = Said(log, x) /\ SaidLive(Append(log, e), x) = SaidLive(log, x)
      BY <1>4, <3>1, <3>3, SaidAppend
    <3> QED BY <2>2, <3>4 DEF InLog, LiveInLog
  <2> QED BY <1>3, <2>1, <2>2
<1>8. Times(c.events, x) <= Held(p, x) /\ (Young(x) => Times(c.events, x) = Held(p, x))
  <2> DEFINE rows == proc[p].counters.events
             t == Trimmed(rows, clock)
  <2>1. rows \in Seq(TallyRows)
    BY ProcNumbers DEF CounterRecords, TallyRows
  <2>2. /\ Times(t, x) <= Times(rows, x)
        /\ x.at >= clock - DayS => Times(t, x) = Times(rows, x)
    <3> HIDE DEF rows
    <3> QED BY <2>1, TrimmedTimes
  <2> QED BY <1>5, <2>2 DEF Young, Fresh, Held
<1>10. CASE "state" \in disk
  BY <1>2, <1>5, <1>6, <1>7, <1>8, <1>9, <1>10, TellsSaved
<1>11. CASE "state" \notin disk
  <2>1. UNCHANGED <<store, lost>>
    BY <1>2, <1>11 DEF Save
  <2> QED BY <1>2, <1>5, <1>6, <1>7, <1>8, <1>9, <1>11, <2>1, TellsUnsaved
<1> QED BY <1>10, <1>11

\* A process ends by itself or is stopped.
LEMMA TellsEnds ==
    ASSUME WorldInv, HearInv, NEW p \in Procs, CaptureEnds(p) \/ CaptureFails(p) \/ Stop(p),
           NEW x \in Marks, MarkKept(x)
    PROVE  StepTells(x)
<1> DEFINE c == proc[p].counters
           r == NoProc
<1>1. Goes(p, r) /\ Up(p) /\ LastSave(p) /\ log' = log
  BY DEF CaptureEnds, CaptureFails, Stop, Gone, Up
<1>2. c \in CounterRecords
  BY ProcNumbers
<1>3. Times(c.events, x) = Held(p, x) /\ Held(p, x) \in Nat
  BY MarkNumbers DEF Held
<1>4. InLog(x)' = InLog(x) /\ LiveInLog(x)' = LiveInLog(x)
  BY <1>1 DEF InLog, LiveInLog
<1>5. r.counters = NoCounters /\ r.base = NoCounters /\ r.st \notin {"opening", "running"}
  BY NothingCounted
<1>6. Times(c.events, x) <= Held(p, x)
  BY <1>3
<1>7. CASE "state" \in disk
  <2>1. Save(p, c)
    BY <1>1, <1>7 DEF LastSave
  <2> HIDE DEF c, r
  <2> QED BY <1>1, <1>2, <1>3, <1>4, <1>5, <1>6, <1>7, <2>1, TellsSaved
<1>8. CASE "state" \notin disk
  <2>1. UNCHANGED store /\ lost' = (lost \/ Unsaved(p))
    BY <1>1, <1>8 DEF LastSave
  <2> QED BY <1>1, <2>1, TellsCrash
<1> QED BY <1>7, <1>8

\* The clock ticks, the phrase list is replaced, or nothing happens.
LEMMA MarksElse ==
    ASSUME WorldInv, UNCHANGED <<proc, store, log, lost>>, clock' \in {clock, clock + 1},
           NEW x \in Marks, MarkKept(x)
    PROVE  MarkKept(x)'
<1>1. clock \in Nat /\ x.at \in Nat /\ DayS \in Nat
  BY CountersNat DEF WorldInv, Marks
<1>2. Young(x)' => Young(x)
  BY <1>1 DEF Young, Fresh
<1>3. /\ Stored(x)' = Stored(x) /\ InLog(x)' = InLog(x) /\ LiveInLog(x)' = LiveInLog(x)
      /\ lost' = lost
      /\ \A q \in Procs : /\ Held(q, x)' = Held(q, x) /\ Based(q, x)' = Based(q, x)
                          /\ LiveUp(q)' <=> LiveUp(q)
  BY DEF Stored, InLog, LiveInLog, Held, Based, LiveUp, Up
<1>4. /\ Stored(x)' <= InLog(x)'
      /\ \A q \in Procs : /\ Held(q, x)' <= InLog(x)' /\ Based(q, x)' <= InLog(x)'
                          /\ Young(x)' => Based(q, x)' <= Held(q, x)'
  BY <1>2, <1>3 DEF MarkKept
<1>5. Young(x)' /\ ~lost' =>
           /\ (\A q \in Procs : ~LiveUp(q)') => LiveInLog(x)' <= Stored(x)'
           /\ \A q \in Procs : LiveUp(q)'
                => LiveInLog(x)' + Based(q, x)' <= Stored(x)' + Held(q, x)'
  BY <1>2, <1>3 DEF MarkKept
<1> QED BY <1>4, <1>5 DEF MarkKept

\* The clock does not tick while a process works.
LEMMA RunKeepsTime == ASSUME NEW p \in Procs, Run(p) PROVE clock' = clock
<1>1. CASE ReloadReads(p) \/ Housekeep(p) \/ Build(p) \/ TakeLock(p) \/ Opens(p)
  <2>1. UNCHANGED env
    BY <1>1, Zenon DEF ReloadReads, Housekeep, Build, TakeLock, Opens
  <2> QED BY <2>1, EnvStays
<1>2. ASSUME NEW w, NEW final, OnAudio(p, w, final) PROVE clock' = clock
  BY <1>2, Zenon DEF OnAudio
<1>3. CASE CaptureEnds(p)
  BY <1>3, Zenon DEF CaptureEnds
<1> QED BY <1>1, <1>2, <1>3, Zenon DEF Run

\* Every step keeps what is said of a mark.
LEMMA MarksStep ==
    ASSUME DaemonInv, UnitInv, [Next]_vars, NEW x \in Marks, MarkKept(x) PROVE MarkKept(x)'
<1>1. WorldInv /\ HearInv /\ ListInv
  BY DEF DaemonInv
<1>2. WorldInv' /\ HearInv' /\ ListInv'
  <2>1. DaemonInv'
    BY DaemonInvNext
  <2> QED BY <2>1 DEF DaemonInv
<1>3. log' \in Seq(Entries)
  BY <1>2 DEF HearInv, LogInv
<1>4. ASSUME StepTells(x), clock' = clock PROVE MarkKept(x)'
  <2>1. PICK p \in Procs : \E r : Goes(p, r) /\ Tells(p, r, x)
    BY <1>4 DEF StepTells
  <2>2. PICK r : Goes(p, r) /\ Tells(p, r, x)
    BY <2>1
  <2> QED BY <1>1, <1>2, <1>4, <2>2, OneTells
<1>5. CASE UNCHANGED vars
  BY <1>1, <1>5, MarksElse DEF vars, env, ghosts
<1>6. CASE GivesUp \/ Tick \/ Edit \/ DiskChanges
  <2>1. UNCHANGED <<proc, store, log, lost>> /\ clock' \in {clock, clock + 1}
    BY <1>6 DEF GivesUp, Tick, Edit, DiskChanges, env, ghosts
  <2> QED BY <1>1, <2>1, MarksElse
<1>7. ASSUME NEW p \in Procs, Run(p) PROVE MarkKept(x)'
  <2>1. clock' = clock
    BY <1>7, RunKeepsTime
  <2>2. StepTells(x)
    BY <1>1, <1>3, <1>7, TellsAudio, TellsFlags, TellsHousekeep, TellsBuild, TellsTakeLock,
       TellsEnds DEF Run
  <2> QED BY <1>4, <2>1, <2>2
<1>8. ASSUME NEW p \in Procs, CaptureFails(p) \/ Stop(p) \/ Crash(p) \/ Hup(p)
                                \/ Attributed(p) \/ StreamEnds(p)
      PROVE  MarkKept(x)'
  <2>1. clock' = clock
    BY <1>8 DEF CaptureFails, Stop, Crash, Hup, Attributed, StreamEnds
  <2>2. StepTells(x)
    <3>1. CASE Crash(p)
      <4>1. /\ Goes(p, NoProc) /\ UNCHANGED <<store, log>>
            /\ lost' = (lost \/ Unsaved(p))
        BY <3>1 DEF Crash, Gone
      <4> QED BY <1>1, <4>1, TellsCrash
    <3> QED BY <1>1, <1>8, <3>1, TellsEnds, TellsFlags
  <2> QED BY <1>4, <2>1, <2>2
<1>9. CASE UnitStarts \/ HandStarts
  <2>1. clock' = clock
    BY <1>9, Zenon DEF UnitStarts, HandStarts
  <2> QED BY <1>1, <1>4, <1>9, <2>1, TellsStarts
<1> QED BY <1>5, <1>6, <1>7, <1>8, <1>9 DEF Next

\* p takes a step: systemd hears of it if p is the service's process and ends.
Lives(p) ==
    /\ \A q \in Procs \ {p} : proc'[q] = proc[q]
    /\ p # Service => unit' = unit
    /\ \/ proc'[p].st = "off"
       \/ unit' = unit /\ proc[p].st # "off"

\* Every step of a process is one.
LEMMA LivesStep ==
    ASSUME HearInv, NEW p \in Procs,
           \/ Run(p) \/ CaptureFails(p) \/ Stop(p) \/ Crash(p)
           \/ Hup(p) \/ Attributed(p) \/ StreamEnds(p)
    PROVE  Lives(p)
<1>1. /\ DOMAIN proc = Procs /\ NoProc.st = "off"
      /\ \A r : Goes(p, r) => proc'[p] = r /\ \A q \in Procs \ {p} : proc'[q] = proc[q]
  BY NothingCounted DEF HearInv, Goes
<1>2. ASSUME NEW rc, NEW why, Gone(p, rc, why) PROVE Lives(p)
  BY <1>1, <1>2 DEF Gone, Lives
<1>3. CASE Stop(p)
  BY <1>1, <1>3 DEF Stop, Lives
<1>4. CASE CaptureFails(p) \/ CaptureEnds(p) \/ Crash(p)
  BY <1>2, <1>4 DEF CaptureFails, CaptureEnds, Crash
<1>5. ASSUME NEW r, Goes(p, r), unit' = unit, proc[p].st # "off" PROVE Lives(p)
  BY <1>1, <1>5 DEF Lives
<1>6. ASSUME NEW w, NEW final, OnAudio(p, w, final) PROVE Lives(p)
  <2>1. unit' = unit /\ proc[p].st # "off"
    BY <1>6 DEF OnAudio
  <2>2. \E r : Goes(p, r)
    BY <1>6, Zenon DEF OnAudio
  <2> QED BY <1>5, <2>1, <2>2
<1>7. CASE ReloadReads(p) \/ Housekeep(p) \/ Opens(p) \/ Hup(p) \/ Attributed(p)
  <2>1. unit' = unit /\ proc[p].st # "off"
    <3>1. unit' = unit /\ (Up(p) \/ proc[p].st = "opening" \/ proc[p].st = "running")
      BY <1>7, Zenon DEF ReloadReads, Housekeep, Opens, Hup, Attributed
    <3> QED BY <3>1 DEF Up
  <2>2. \E r : Goes(p, r)
    BY <1>7, Zenon DEF ReloadReads, Housekeep, Opens, Hup, Attributed
  <2> QED BY <1>5, <2>1, <2>2
<1>8. CASE Build(p) \/ TakeLock(p)
  <2>1. proc[p].st # "off"
    <3>1. proc[p].st = "exec" \/ proc[p].st = "built"
      BY <1>8, Zenon DEF Build, TakeLock
    <3> QED BY <3>1
  <2>2. \/ \E why : Gone(p, 1, why)
        \/ unit' = unit /\ \E r : Goes(p, r)
    BY <1>8, Zenon DEF Build, TakeLock
  <2> QED BY <1>2, <1>5, <2>1, <2>2
<1>9. CASE StreamEnds(p)
  <2> DEFINE o == proc[p]
  <2>1. PICK s : Goes(p, [o EXCEPT !.sess = s])
    BY <1>9, Zenon DEF StreamEnds
  <2>2. unit' = unit
    BY <1>9 DEF StreamEnds
  <2> DEFINE r == [o EXCEPT !.sess = s]
  <2>3. r.st = o.st
    <3>1. o \in Processes
      BY DEF HearInv
    <3> HIDE DEF o
    <3> QED BY <3>1 DEF Processes
  <2> HIDE DEF r
  <2> QED BY <1>1, <2>1, <2>2, <2>3 DEF Lives, r
<1> QED BY <1>3, <1>4, <1>6, <1>7, <1>8, <1>9 DEF Run

\* Every step keeps unit and process in step.
LEMMA UnitStep ==
    ASSUME WorldInv, HearInv, UnitInv, [Next]_vars PROVE UnitInv'
<1>1. DOMAIN proc = Procs /\ "st" \in DOMAIN unit /\ Service \in Procs
  BY DEF HearInv, WorldInv, Procs
<1>2. ASSUME NEW p \in Procs, Lives(p) PROVE UnitInv'
  BY <1>1, <1>2 DEF Lives, UnitInv
<1>3. CASE UNCHANGED vars \/ Tick \/ Edit \/ DiskChanges
  BY <1>3 DEF vars, env, Tick, Edit, DiskChanges, UnitInv
<1>4. CASE GivesUp
  BY <1>1, <1>4 DEF GivesUp, UnitInv
<1>5. CASE UnitStarts
  BY <1>5 DEF UnitStarts, UnitInv
<1>6. CASE HandStarts
  BY <1>1, <1>6 DEF HandStarts, UnitInv, Goes, Service
<1> QED BY <1>2, <1>3, <1>4, <1>5, <1>6, LivesStep DEF Next

\* Nothing is logged or counted at the start.
LEMMA EvidenceInit == Init => EvidenceInv
<1> SUFFICES ASSUME Init PROVE EvidenceInv OBVIOUS
<1>1. UnitInv
  BY DEF Init, UnitInv
<1>2. ASSUME NEW x \in Marks PROVE MarkKept(x)
  <2> DEFINE e == [NoProc EXCEPT !.st = "exec"]
             l == <<>>
  <2>1. \A q \in Procs : proc[q] = NoProc \/ proc[q] = e
    BY DEF Init
  <2>2. /\ NoProc.counters = NoCounters /\ NoProc.base = NoCounters /\ NoProc.st = "off"
        /\ e.counters = NoCounters /\ e.base = NoCounters /\ e.st = "exec"
    BY DEF NoProc
  <2> HIDE DEF e
  <2>3. \A q \in Procs : Held(q, x) = 0 /\ Based(q, x) = 0 /\ ~LiveUp(q)
    BY <2>1, <2>2, NothingCounted DEF Held, Based, LiveUp, Up
  <2>4. Stored(x) = 0
    BY NothingCounted DEF Init, Stored
  <2>5. InLog(x) = 0 /\ LiveInLog(x) = 0
    <3>1. Saying(l, x) = {} /\ SayingLive(l, x) = {}
      BY DEF Saying, SayingLive
    <3>2. log = l
      BY DEF Init
    <3> HIDE DEF l
    <3> QED BY <3>1, <3>2, FS_EmptySet DEF InLog, LiveInLog, Said, SaidLive
  <2> QED BY <2>3, <2>4, <2>5 DEF MarkKept
<1> QED BY <1>1, <1>2 DEF EvidenceInv

\* What EvidenceKept says of one mark.
LEMMA MarkIsEvidence ==
    ASSUME DaemonInv, EvidenceInv PROVE EvidenceKept
<1> SUFFICES ASSUME NEW p \in Procs, Up(p), NEW at \in Max2(0, clock - DayS) .. clock,
                    NEW kind \in EventKinds \ {"calls"}
             PROVE  /\ Cardinality(Counted(p, at, kind))
                         <= Cardinality({i \in Logged(at, kind) : log[i].written})
                              + Cardinality(Logged(at, kind)
                                              \ {i \in Logged(at, kind) : log[i].written})
                    /\ proc[p].live /\ Current(p) =>
                         Cardinality({i \in Logged(at, kind) : log[i].live})
                           <= Cardinality(Counted(p, at, kind))
  BY DEF EvidenceKept
<1> DEFINE x == [at |-> at, kind |-> kind]
<1>1. clock \in Nat /\ DayS \in Nat
  BY CountersNat DEF DaemonInv, WorldInv
<1>2. Max2(0, clock - DayS) \in Nat /\ Max2(0, clock - DayS) >= clock - DayS
  BY <1>1 DEF Max2
<1>3. at \in Nat /\ at >= clock - DayS
  BY <1>1, <1>2
<1>4. x \in Marks /\ Young(x) /\ x.at = at /\ x.kind = kind
  BY <1>3 DEF Marks, Young, Fresh
<1>5. Cardinality(Counted(p, at, kind)) = Held(p, x)
  BY DEF Counted, Held, Times
<1>6. Logged(at, kind) = Saying(log, x)
  BY <1>4 DEF Logged, Saying
<1> HIDE DEF x
<1>7. Cardinality(Logged(at, kind)) = InLog(x)
      /\ Cardinality({i \in Logged(at, kind) : log[i].live}) = LiveInLog(x)
  BY <1>6 DEF InLog, LiveInLog, Said, SaidLive, SayingLive
<1>8. MarkKept(x)
  BY <1>4 DEF EvidenceInv
<1>9. ASSUME proc[p].live, Current(p) PROVE LiveInLog(x) <= Held(p, x)
  <2>1. ~lost /\ Based(p, x) = Stored(x)
    BY <1>9 DEF Current, Based, Stored
  <2>2. LiveInLog(x) + Based(p, x) <= Stored(x) + Held(p, x)
    BY <1>4, <1>8, <1>9, <2>1 DEF MarkKept, LiveUp
  <2>3. Stored(x) \in Nat /\ LiveInLog(x) \in Nat /\ Held(p, x) \in Nat
    BY MarkNumbers DEF DaemonInv
  <2> QED BY <2>1, <2>2, <2>3
<1> DEFINE logged == Logged(at, kind)
           written == {i \in logged : log[i].written}
<1>10. Cardinality(logged) = Cardinality(written) + Cardinality(logged \ written)
  <2>1. log \in Seq(Entries)
    BY DEF DaemonInv, HearInv, LogInv
  <2> HIDE DEF written
  <2>a. DOMAIN log = 1 .. Len(log) /\ Len(log) \in Nat
    BY <2>1
  <2>b. logged \subseteq 1 .. Len(log)
    BY <2>a DEF Logged
  <2> HIDE DEF logged
  <2>2. IsFiniteSet(1 .. Len(log)) /\ logged \subseteq 1 .. Len(log)
    BY <2>a, <2>b, FS_Interval
  <2> USE DEF written
  <2>3. IsFiniteSet(logged) /\ written \subseteq logged
    BY <2>2, FS_Subset
  <2> HIDE DEF logged, written
  <2> QED BY <2>3, SplitCardinality
<1>11. Cardinality(Counted(p, at, kind)) <= Cardinality(logged)
  BY <1>5, <1>7, <1>8 DEF MarkKept
<1>12. Cardinality(Counted(p, at, kind)) <= Cardinality(written) + Cardinality(logged \ written)
  BY <1>10, <1>11
<1>13. proc[p].live /\ Current(p) =>
          Cardinality({i \in logged : log[i].live}) <= Cardinality(Counted(p, at, kind))
  BY <1>5, <1>7, <1>9
<1> QED BY <1>12, <1>13, Zenon

\* The 24-hour record and the log tell the same story, however processes save,
\* fail to save, age, crash, are stopped and take the file from each other: what
\* is counted has its line in the log, but for the lines that could not be
\* written, and nothing the live copy reported in the last day is missing from
\* its record unless it was lost to a crash, to a last save that failed, or to a
\* copy that saved over a file it had not read.
THEOREM EvidenceHolds == Spec => []EvidenceKept
<1> DEFINE Inv == DaemonInv /\ EvidenceInv
<1>1. Init => Inv
  BY DaemonInvInit, EvidenceInit
<1>2. Inv /\ [Next]_vars => Inv'
  <2> SUFFICES ASSUME Inv, [Next]_vars PROVE Inv' OBVIOUS
  <2>1. DaemonInv' /\ UnitInv'
    BY DaemonInvNext, UnitStep DEF DaemonInv, EvidenceInv
  <2>2. \A x \in Marks : MarkKept(x)'
    BY MarksStep DEF EvidenceInv
  <2> QED BY <2>1, <2>2 DEF EvidenceInv
<1>3. Inv => EvidenceKept
  BY MarkIsEvidence
<1> QED BY <1>1, <1>2, <1>3, PTL DEF Spec

-----------------------------------------------------------------------------
(* The calls and the alerts.                                               *)

CallMark(t) == [at |-> t, kind |-> "calls"]

\* Every place the window notes as reported is that of a match logged of the
\* session.
Noted(entries, win, sid) ==
    \A r \in win.reported : \E i \in DOMAIN entries :
        /\ entries[i].event = "match" /\ entries[i].sid = sid
        /\ entries[i].row = r.row /\ entries[i].from = r.from /\ entries[i].to = r.to

\* What p logs from hearing s on is of its session's call; what it counted and
\* has not aged stays; and what it notes it logs.
Carries(p, s, t) ==
    /\ t.counted = s.counted /\ t.counters.last = s.counters.last
    /\ \A i \in Len(s.log) + 1 .. Len(t.log) :
          t.log[i].event = "match"
              => t.log[i].counted = s.counted /\ t.log[i].live = proc[p].live
    /\ \A x : Young(x) => Times(s.counters.events, x) <= Times(t.counters.events, x)
    /\ Noted(s.log, s.win, s.sid) => Noted(t.log, t.win, t.sid)

\* A count forgets nothing young.
LEMMA CountCarries ==
    ASSUME NEW c \in CounterRecords, NEW known, NEW kind \in EventKinds, clock \in Nat
    PROVE  /\ Count(c, known, kind, clock).last = c.last
           /\ \A x : Young(x) => Times(c.events, x) <= Times(Count(c, known, kind, clock).events, x)
           /\ \A x : Times(c.events, x) \in Nat /\ Times(Count(c, known, kind, clock).events, x) \in Nat
<1>1. CASE ~known
  <2>1. Count(c, known, kind, clock) = c
    BY <1>1 DEF Count
  <2>2. \A x : Times(c.events, x) \in Nat
    BY SinceTimes DEF CounterRecords, TallyRows
  <2> QED BY <2>1, <2>2
<1>2. CASE known
  <2> DEFINE d == Count(c, TRUE, kind, clock)
             row == [at |-> clock, kind |-> kind]
  <2>1. Count(c, known, kind, clock) = d
    BY <1>2 DEF Count
  <2>2. d.last = c.last
    BY DEF Count, CounterRecords
  <2>3. row \in TallyRows /\ row.at = clock /\ row.kind = kind
    BY DEF TallyRows
  <2> HIDE DEF row, d
  <2>4. ASSUME NEW x
        PROVE  /\ Times(c.events, x) \in Nat /\ Times(d.events, x) \in Nat
               /\ Young(x) => Times(c.events, x) <= Times(d.events, x)
    <3> DEFINE C == Times(c.events, x)
               D == Times(d.events, x)
    <3>1. /\ C \in Nat /\ D \in Nat
          /\ Fresh(x, clock) => D >= IF x = row THEN C + 1 ELSE C
      BY <2>3, CountTimes DEF d
    <3> HIDE DEF C, D
    <3>2. Fresh(x, clock) => C <= D
      BY <3>1
    <3> QED BY <3>1, <3>2 DEF Young, C, D
  <2> QED BY <2>1, <2>2, <2>4
<1> QED BY <1>1, <1>2

\* What carries twice has carried.
LEMMA CarriesOn ==
    ASSUME NEW p, NEW s \in Hearings, NEW t \in Hearings, NEW u \in Hearings,
           Grows(s.log, t.log, s.sid), Grows(t.log, u.log, s.sid),
           Carries(p, s, t), Carries(p, t, u)
    PROVE  Carries(p, s, u)
<1>1. /\ s.log \in Seq(Entries) /\ t.log \in Seq(Entries) /\ u.log \in Seq(Entries)
      /\ s.counters \in CounterRecords /\ t.counters \in CounterRecords
      /\ u.counters \in CounterRecords
  BY DEF Hearings
<1>2. ASSUME NEW i \in Len(s.log) + 1 .. Len(u.log), u.log[i].event = "match"
      PROVE  u.log[i].counted = s.counted /\ u.log[i].live = proc[p].live
  <2>1. CASE i <= Len(t.log)
    <3>1. i \in Len(s.log) + 1 .. Len(t.log) /\ i \in 1 .. Len(t.log)
      BY <1>1, <2>1
    <3>2. u.log[i] = t.log[i]
      BY <3>1 DEF Grows
    <3> QED BY <1>2, <3>1, <3>2 DEF Carries
  <2>2. CASE ~(i <= Len(t.log))
    <3>1. i \in Len(t.log) + 1 .. Len(u.log)
      BY <1>1, <2>2
    <3> QED BY <1>2, <3>1 DEF Carries
  <2> QED BY <2>1, <2>2
<1>3. ASSUME NEW x, Young(x) PROVE Times(s.counters.events, x) <= Times(u.counters.events, x)
  <2> DEFINE A == Times(s.counters.events, x)
             B == Times(t.counters.events, x)
             C == Times(u.counters.events, x)
  <2>1. A \in Nat /\ B \in Nat /\ C \in Nat
    BY <1>1, TallyNumbers
  <2>2. A <= B /\ B <= C
    BY <1>3 DEF Carries
  <2> HIDE DEF A, B, C
  <2>3. A <= C
    BY <2>1, <2>2
  <2> QED BY <2>3 DEF A, C
<1> QED BY <1>2, <1>3, Zenon DEF Carries

\* Handling a match carries.
LEMMA HandleMatchCarries ==
    ASSUME NEW p \in Procs, Hears(p), clock \in Nat, NEW s \in Hearings, NEW m \in Found
    PROVE  Carries(p, s, HandleMatch(p, s, m))
<1> DEFINE t == HandleMatch(p, s, m)
           win == Record(s.win, m, clock)
           known == proc[p].known
           kind == IF m.tier = "A" THEN "kill" ELSE "near"
           counters == IF m.tier \in {"A", "A-near"}
                       THEN Count(s.counters, known, kind, clock) ELSE s.counters
           e == MatchEntry(p, s, m)
           log2 == Append(s.log, e)
           aged == s.aged /\ m.tier = "A"
           noted == [s EXCEPT !.win = win, !.counters = counters, !.log = log2, !.aged = aged]
           b == Entry(p, "b_threshold")
           counters2 == Count(counters, known, "b_event", clock)
           log3 == Append(log2, b)
           fired == [noted EXCEPT !.win = Fire(win), !.counters = counters2, !.log = log3]
           L == Len(s.log)
<1>1. /\ s = [win |-> s.win, pend |-> s.pend, sid |-> s.sid, counted |-> s.counted,
              aged |-> s.aged, counters |-> s.counters, log |-> s.log]
      /\ s.win \in Windows /\ s.counters \in CounterRecords
      /\ s.log \in Seq(Entries) /\ L \in Nat
  BY DEF Hearings
<1>2. t = IF ~IsNew(s.win, m) THEN s
          ELSE IF m.tier = "A" \/ ~Crosses(win) THEN noted ELSE fired
  BY Zenon DEF HandleMatch
<1>3. win.reported = s.win.reported \cup {Absolute(s.win, m)} /\ win \in Windows
      /\ Fire(win).reported = win.reported
  BY <1>1, RecordKeeps, FireKeeps
<1>4. /\ e \in MatchEntries /\ b \in OtherEntries
  BY MatchEntryType
<1>5. /\ e.event = "match" /\ e.sid = s.sid /\ e.counted = s.counted /\ e.live = proc[p].live
      /\ e.row = m.phrase.row /\ e.from = s.win.dropped + m.from /\ e.to = s.win.dropped + m.to
  BY DEF MatchEntry
<1>6. b.event = "b_threshold"
  BY DEF Entry
<1>7. counters \in CounterRecords /\ counters.last = s.counters.last
      /\ \A x : /\ Times(s.counters.events, x) \in Nat /\ Times(counters.events, x) \in Nat
                /\ Young(x) => Times(s.counters.events, x) <= Times(counters.events, x)
  <2> DEFINE c == s.counters
  <2>1. kind \in EventKinds /\ known \in BOOLEAN
    BY DEF EventKinds, Hears
  <2> HIDE DEF kind, known, c
  <2>2. c \in CounterRecords
    BY <1>1 DEF c
  <2>4. \A x : Times(c.events, x) \in Nat
    BY <2>2, TallyNumbers, <1>1
  <2>3. CASE counters = c
    BY <2>2, <2>3, <2>4 DEF c
  <2>5. CASE counters = Count(c, known, kind, clock)
    BY <2>1, <2>2, <2>5, CountType, CountCarries DEF c
  <2> QED BY <2>3, <2>5 DEF c
<1> HIDE DEF counters
<1>8. counters2.last = s.counters.last
      /\ \A x : Young(x) => Times(s.counters.events, x) <= Times(counters2.events, x)
  <2>1. "b_event" \in EventKinds
    BY DEF EventKinds
  <2> HIDE DEF known
  <2>2. /\ counters2.last = counters.last
        /\ \A x : Young(x) => Times(counters.events, x) <= Times(counters2.events, x)
        /\ \A x : Times(counters2.events, x) \in Nat
    BY <1>7, <2>1, CountCarries
  <2> DEFINE A(x) == Times(s.counters.events, x)
             B(x) == Times(counters.events, x)
             C(x) == Times(counters2.events, x)
  <2>3. \A x : /\ A(x) \in Nat /\ B(x) \in Nat /\ C(x) \in Nat
               /\ Young(x) => A(x) <= B(x) /\ B(x) <= C(x)
    BY <1>7, <2>2
  <2> HIDE DEF A, B, C
  <2>4. \A x : Young(x) => A(x) <= C(x)
    BY <2>3
  <2> QED BY <1>7, <2>2, <2>4 DEF A, C
<1> HIDE DEF counters2, t, e, b, win, aged
<1>9. /\ log2 \in Seq(Entries) /\ Len(log2) = L + 1 /\ log2[L + 1] = e
      /\ \A i \in 1 .. L : log2[i] = s.log[i]
  <2> DEFINE l == s.log
  <2>1. l \in Seq(Entries) /\ e \in Entries
    BY <1>1, <1>4 DEF Entries
  <2> HIDE DEF l
  <2>2. LET g == Append(l, e) IN
        /\ g \in Seq(Entries) /\ Len(g) = Len(l) + 1 /\ g[Len(l) + 1] = e
        /\ \A i \in 1 .. Len(l) : g[i] = l[i]
    BY <2>1
  <2> QED BY <2>2 DEF l
<1>10. /\ log3 \in Seq(Entries) /\ Len(log3) = L + 2 /\ log3[L + 1] = e /\ log3[L + 2] = b
       /\ \A i \in 1 .. L : log3[i] = s.log[i]
  <2>1. b \in Entries
    BY <1>4 DEF Entries
  <2> HIDE DEF log2, L
  <2> QED BY <1>1, <1>9, <2>1
<1>11. ASSUME NEW l, l \in Seq(Entries), Len(l) >= L + 1, l[L + 1] = e,
              \A i \in 1 .. L : l[i] = s.log[i], Noted(s.log, s.win, s.sid),
              NEW w, w.reported = win.reported
       PROVE  Noted(l, w, s.sid)
  <2> SUFFICES ASSUME NEW r \in w.reported
               PROVE  \E i \in DOMAIN l :
                  /\ l[i].event = "match" /\ l[i].sid = s.sid
                  /\ l[i].row = r.row /\ l[i].from = r.from /\ l[i].to = r.to
    BY DEF Noted
  <2>1. CASE r \in s.win.reported
    <3>1. PICK i \in DOMAIN s.log :
                  /\ s.log[i].event = "match" /\ s.log[i].sid = s.sid
                  /\ s.log[i].row = r.row /\ s.log[i].from = r.from /\ s.log[i].to = r.to
      BY <1>11, <2>1 DEF Noted
    <3>2. i \in DOMAIN l /\ l[i] = s.log[i]
      BY <1>1, <1>11
    <3> QED BY <3>1, <3>2
  <2>2. CASE r = Absolute(s.win, m)
    <3>1. r.row = e.row /\ r.from = e.from /\ r.to = e.to
      BY <1>5, <2>2 DEF Absolute
    <3>2. L + 1 \in DOMAIN l
      BY <1>1, <1>11
    <3> QED BY <1>5, <1>11, <3>1, <3>2
  <2> QED BY <1>3, <1>11, <2>1, <2>2
<1>12. CASE ~IsNew(s.win, m)
  <2>1. t = s
    BY <1>2, <1>12
  <2>2. \A x : Times(s.counters.events, x) <= Times(s.counters.events, x)
    BY <1>7
  <2>3. Len(s.log) + 1 .. Len(s.log) = {}
    BY <1>1
  <2> QED BY <2>1, <2>2, <2>3, Zenon DEF Carries, t
<1>13. CASE IsNew(s.win, m) /\ (m.tier = "A" \/ ~Crosses(win))
  <2>1. t = noted
    BY <1>2, <1>13
  <2> HIDE DEF log2, L
  <2>2. /\ noted.win = win /\ noted.sid = s.sid /\ noted.counted = s.counted
        /\ noted.counters = counters /\ noted.log = log2
    BY <1>1
  <2> HIDE DEF noted
  <2>3. \A i \in L + 1 .. Len(log2) : log2[i] = e
    BY <1>1, <1>9
  <2>4. Noted(s.log, s.win, s.sid) => Noted(log2, win, s.sid)
    BY <1>1, <1>9, <1>11
  <2> QED BY <1>5, <1>7, <2>1, <2>2, <2>3, <2>4, Zenon DEF Carries, t, L
<1>14. CASE IsNew(s.win, m) /\ ~(m.tier = "A" \/ ~Crosses(win))
  <2>1. t = fired
    BY <1>2, <1>14
  <2> DEFINE f == Fire(win)
  <2> HIDE DEF log2, log3, L, f
  <2>2. /\ fired.win = f /\ fired.sid = s.sid /\ fired.counted = s.counted
        /\ fired.counters = counters2 /\ fired.log = log3
    <3>1. fired = [noted EXCEPT !.win = f, !.counters = counters2, !.log = log3]
      BY Zenon DEF f
    <3> HIDE DEF fired
    <3> QED BY <1>1, <3>1
  <2> HIDE DEF fired
  <2>3. \A i \in L + 1 .. Len(log3) : log3[i] = e \/ log3[i] = b
    BY <1>1, <1>10
  <2>4. Noted(s.log, s.win, s.sid) => Noted(log3, f, s.sid)
    BY <1>1, <1>3, <1>10, <1>11 DEF f
  <2>5. \A i \in L + 1 .. Len(log3) : log3[i].event = "match" => log3[i] = e
    BY <1>6, <2>3
  <2> QED BY <1>5, <1>8, <2>1, <2>2, <2>4, <2>5, Zenon DEF Carries, t, L
<1> QED BY <1>12, <1>13, <1>14 DEF t

\* An utterance carries.
LEMMA UtteranceCarries ==
    ASSUME NEW p \in Procs, Hears(p), clock \in Nat, NEW s \in Hearings,
           left.vocabulary \subseteq Words,
           \E V \in Vocabularies : left.vocabulary \subseteq V,
           NEW words \in Seq(left.vocabulary)
    PROVE  Carries(p, s, Utterance(p, s, words))
<1>1. PICK k \in Nat : \E found : \E h :
              Turns(p, s, words, k, found, h) /\ Utterance(p, s, words) = h[k]
  BY UtteranceTurns
<1>2. PICK found, h : Turns(p, s, words, k, found, h) /\ Utterance(p, s, words) = h[k]
  BY <1>1
<1> DEFINE a == Add(s.win, words, clock)
           heard == Listened(s, words)
<1>3. /\ heard.win = a.win /\ heard.sid = s.sid /\ heard.counted = s.counted
      /\ heard.counters = s.counters /\ heard.log = s.log
  <2> DEFINE v == a.win
             g == s.aged \/ Suppressing(s.win) # Suppressing(v)
  <2>1. heard = [s EXCEPT !.win = v, !.pend = <<>>, !.aged = g]
    BY DEF Listened
  <2> HIDE DEF v, g, heard
  <2>2. DOMAIN s = {"win", "pend", "sid", "counted", "aged", "counters", "log"}
    BY DEF Hearings
  <2>3. /\ heard.win = v /\ heard.sid = s.sid /\ heard.counted = s.counted
        /\ heard.counters = s.counters /\ heard.log = s.log
    BY <2>1, <2>2
  <2> QED BY <2>3 DEF v
<1>4. a.win.reported \subseteq s.win.reported
  BY AddKeeps DEF Hearings
<1>5. h[0] = heard /\ \A i \in 1 .. k : h[i] = HandleMatch(p, h[i - 1], found[i])
  BY <1>2 DEF Turns, HandledTo
<1>6. \A i \in 0 .. k : h[i] \in Hearings /\ h[i].sid = s.sid /\ Grows(s.log, h[i].log, s.sid)
  BY <1>2 DEF Turns
<1>7. \A i \in 1 .. k : found[i] \in Found
  BY <1>2 DEF Turns
<1> HIDE DEF a, heard
<1> DEFINE T == {i \in 0 .. k : Carries(p, s, h[i])}
<1>8. 0 \in T
  <2>1. \A x : Times(s.counters.events, x) <= Times(s.counters.events, x)
    <3>1. s.counters \in CounterRecords /\ s.log \in Seq(Entries)
      BY DEF Hearings
    <3>2. \A x : Times(s.counters.events, x) \in Nat
      BY <3>1, TallyNumbers
    <3> QED BY <3>2
  <2>2. Len(s.log) + 1 .. Len(s.log) = {}
    BY DEF Hearings
  <2>3. Noted(s.log, s.win, s.sid) => Noted(s.log, a.win, s.sid)
    BY <1>4 DEF Noted
  <2>4. Carries(p, s, heard)
    BY <1>3, <2>1, <2>2, <2>3, Zenon DEF Carries
  <2> QED BY <1>5, <2>4
<1>9. ASSUME NEW i \in 1 .. k, i - 1 \in T PROVE i \in T
  <2> DEFINE g == h[i - 1]
             t == h[i]
  <2>1. i - 1 \in 0 .. k /\ i \in 0 .. k OBVIOUS
  <2>2. g \in Hearings /\ g.sid = s.sid /\ Grows(s.log, g.log, s.sid) /\ t \in Hearings
    BY <1>6, <2>1
  <2>3. t = HandleMatch(p, g, found[i]) /\ found[i] \in Found
    BY <1>5, <1>7
  <2>4. Carries(p, s, g)
    BY <1>9
  <2> HIDE DEF g, t
  <2>5. Carries(p, g, t) /\ Grows(g.log, t.log, s.sid)
    BY <2>2, <2>3, HandleMatchCarries, HandleMatchKeeps
  <2>6. Carries(p, s, t)
    BY <2>2, <2>4, <2>5, CarriesOn
  <2> QED BY <2>1, <2>6 DEF t
<1> HIDE DEF T
<1>10. 0 .. k \subseteq T
  BY <1>8, <1>9, Induct
<1>11. k \in T
  BY <1>10
<1> QED BY <1>2, <1>11 DEF T

\* What is known of the calls a process counted, and of the notes it made.
OfOwnCall(r) == r.sess.counted \in {Never, r.calls}
SessionNoted(entries, r) == r.sess.open => Noted(entries, r.sess.win, r.sess.sid)

\* A session opens: its call is counted then, was counted before, or is not.
LEMMA OpenedCarries ==
    ASSUME WorldInv, HearInv, NEW p \in Procs
    PROVE  LET o == Opened(p) IN
           /\ o.counters.last = proc[p].counters.last
           /\ \A x : Young(x) => Held(p, x) <= Times(o.counters.events, x)
           /\ \/ o.calls = proc[p].calls
              \/ proc[p].calls = Never /\ o.calls = clock
                 /\ Times(o.counters.events, CallMark(clock)) >= 1
           /\ OfOwnCall(proc[p]) => OfOwnCall(o)
           /\ SessionNoted(log, proc[p]) => SessionNoted(log, o)
<1> DEFINE o == Opened(p)
           r == proc[p]
           counts == r.known /\ r.calls = Never
           at == IF counts THEN clock ELSE r.calls
           c == Count(r.counters, TRUE, "calls", clock)
           counters == IF counts THEN c ELSE r.counters
           s == [NoSession EXCEPT !.open = TRUE, !.sid = sids + 1, !.counted = at]
<1>1. r \in Processes /\ r.counters \in CounterRecords /\ clock \in Nat
  BY DEF HearInv, WorldInv, Processes
<1>2. \A x : Held(p, x) \in Nat
  BY MarkNumbers
<1>3. CASE r.sess.open
  <2>1. o = r
    BY <1>3 DEF Opened
  <2> HIDE DEF o
  <2>2. \A x : Held(p, x) <= Times(o.counters.events, x)
    BY <1>2, <2>1 DEF Held
  <2> QED BY <2>1, <2>2 DEF o
<1>4. CASE ~r.sess.open
  <2>1. o = [r EXCEPT !.sess = s, !.calls = at, !.counters = counters]
    <3>1. o = [r EXCEPT !.sess = s, !.calls = IF counts THEN clock ELSE r.calls,
                        !.counters = IF counts THEN c ELSE r.counters]
      BY <1>4, Zenon DEF Opened
    <3> QED BY <3>1
  <2>2. /\ counters.last = r.counters.last
        /\ \A x : Young(x) => Times(r.counters.events, x) <= Times(counters.events, x)
    <3> DEFINE old == r.counters
    <3>1. old \in CounterRecords /\ "calls" \in EventKinds
      BY <1>1 DEF EventKinds
    <3>2. \A x : Times(old.events, x) \in Nat
      BY <1>2 DEF Held
    <3>3. counters = old \/ counters = Count(old, TRUE, "calls", clock) OBVIOUS
    <3> HIDE DEF old, counters
    <3>4. /\ counters.last = old.last
          /\ \A x : Young(x) => Times(old.events, x) <= Times(counters.events, x)
      <4>1. CASE counters = old
        BY <3>2, <4>1
      <4>2. CASE counters = Count(old, TRUE, "calls", clock)
        BY <1>1, <3>1, <4>2, CountCarries
      <4> QED BY <3>3, <4>1, <4>2
    <3> QED BY <3>4 DEF old
  <2>3. counts => Times(counters.events, CallMark(clock)) >= 1
    <3> SUFFICES ASSUME counts PROVE Times(counters.events, CallMark(clock)) >= 1
      OBVIOUS
    <3> DEFINE old == r.counters
               x == CallMark(clock)
               kind == "calls"
    <3>1. counters = Count(old, TRUE, kind, clock) OBVIOUS
    <3>2. old \in CounterRecords /\ x \in TallyRows /\ x.at = clock /\ x.kind = kind
          /\ kind \in EventKinds
      BY <1>1 DEF TallyRows, EventKinds, CallMark
    <3>3. Fresh(x, clock)
      BY <1>1, <3>2, CountersNat DEF Fresh
    <3> HIDE DEF x, kind, old, counters, counts
    <3>4. LET d == Count(old, TRUE, kind, clock)
          IN /\ Times(old.events, x) \in Nat /\ Times(d.events, x) \in Nat
             /\ Times(d.events, x) >= Times(old.events, x) + 1
      BY <1>1, <3>2, <3>3, CountTimes
    <3> DEFINE A == Times(old.events, x)
               B == Times(counters.events, x)
    <3>5. A \in Nat /\ B \in Nat /\ B >= A + 1
      BY <3>1, <3>4
    <3> HIDE DEF A, B
    <3>6. B >= 1
      BY <3>5
    <3> QED BY <3>6 DEF B, x
  <2> HIDE DEF counters, o
  <2>4. s.open /\ s.sid = sids + 1 /\ s.counted = at /\ s.win = NewWindow
    BY NoSessionType DEF NoSession
  <2> HIDE DEF s
  <2>5. /\ o.sess = s /\ o.calls = at /\ o.counters = counters
    <3> HIDE DEF at, r
    <3>1. DOMAIN r = ProcFields
      BY <1>1 DEF Processes, ProcFields
    <3> QED BY <2>1, <3>1 DEF ProcFields
  <2>6. Noted(log, NewWindow, sids + 1)
    BY DEF Noted, NewWindow
  <2>7. OfOwnCall(o) /\ SessionNoted(log, o)
    BY <2>4, <2>5, <2>6 DEF OfOwnCall, SessionNoted
  <2>8. \/ o.calls = r.calls
        \/ r.calls = Never /\ o.calls = clock /\ Times(o.counters.events, CallMark(clock)) >= 1
    BY <2>3, <2>5
  <2> QED BY <2>2, <2>5, <2>7, <2>8 DEF Held, o
<1> QED BY <1>3, <1>4

\* What p hears, of its own call and noted.
HeardCarried(p) ==
    \E r : /\ Goes(p, r) /\ r.st = proc[p].st /\ r.live = proc[p].live /\ r.base = proc[p].base
           /\ r.counters.last = proc[p].counters.last
           /\ \A x : Young(x) => Held(p, x) <= Times(r.counters.events, x)
           /\ \/ r.calls = proc[p].calls
              \/ proc[p].calls = Never /\ r.calls = clock
                 /\ Times(r.counters.events, CallMark(clock)) >= 1
           /\ OfOwnCall(proc[p]) => OfOwnCall(r)
           /\ SessionNoted(log, proc[p]) => SessionNoted(log', r)
           /\ Grows(log, log', r.sess.sid)
           /\ \A i \in Len(log) + 1 .. Len(log') : log'[i].event = "match"
                  => log'[i].counted = r.sess.counted /\ log'[i].live = r.live

\* What is heard is.
LEMMA OnAudioCarries ==
    ASSUME WorldInv, HearInv, ListInv, NEW p \in Procs, NEW w \in left.vocabulary,
           NEW final \in BOOLEAN, OnAudio(p, w, final)
    PROVE  HeardCarried(p)
<1> DEFINE o == Opened(p)
           pend == Heard(o, w)
           s == [win |-> o.sess.win, pend |-> pend, sid |-> o.sess.sid,
                 counted |-> o.sess.counted, aged |-> o.sess.aged,
                 counters |-> o.counters, log |-> log]
           said == Utterance(p, s, pend)
           heard == [o.sess EXCEPT !.win = said.win, !.pend = <<>>, !.aged = said.aged]
           waits == [o.sess EXCEPT !.pend = pend]
           r == [o EXCEPT !.counters = said.counters, !.sess = heard]
           q == [o EXCEPT !.sess = waits]
<1>1. /\ o \in Processes /\ o.sess.open
      /\ o.st = proc[p].st /\ o.known = proc[p].known /\ o.live = proc[p].live
      /\ o.list = proc[p].list /\ o.base = proc[p].base
      /\ Over(o.sess.win) => o.sess.aged
      /\ Booked(log, o.sess.win, o.sess.sid)
  BY OpenedKeeps
<1>2. /\ o.counters.last = proc[p].counters.last
      /\ \A x : Young(x) => Held(p, x) <= Times(o.counters.events, x)
      /\ \/ o.calls = proc[p].calls
         \/ proc[p].calls = Never /\ o.calls = clock
            /\ Times(o.counters.events, CallMark(clock)) >= 1
      /\ OfOwnCall(proc[p]) => OfOwnCall(o)
      /\ SessionNoted(log, proc[p]) => SessionNoted(log, o)
  BY OpenedCarries
<1>3. /\ \/ final /\ Goes(p, r) /\ log' = said.log
         \/ ~final /\ Goes(p, q) /\ log' = log
      /\ proc[p].st = "running"
  <2>1. CASE final
    BY <2>1, Zenon DEF OnAudio
  <2>2. CASE ~final
    BY <2>2, Zenon DEF OnAudio
  <2> QED BY <2>1, <2>2
<1> HIDE DEF o
<1>4. /\ o.sess \in Sessions /\ o.counters \in CounterRecords /\ o.sess.win \in Windows
      /\ o.sess.pend \in Seq(left.vocabulary) /\ o.sess.sid \in Nat /\ o.sess.counted \in Int
      /\ o.sess.aged \in BOOLEAN
  <2>1. o.sess \in Sessions /\ o.counters \in CounterRecords
    BY <1>1 DEF Processes
  <2> QED BY <2>1 DEF Sessions
<1>5. pend \in Seq(left.vocabulary)
  <2> DEFINE V == left.vocabulary
             x == o.sess.pend
  <2>1. x \in Seq(V) /\ w \in V
    BY <1>4
  <2> HIDE DEF V, x
  <2>2. Append(x, w) \in Seq(V)
    BY <2>1
  <2>3. Append(o.sess.pend, w) \in Seq(left.vocabulary)
    BY <2>2 DEF V, x
  <2> QED BY <1>4, <2>3 DEF Heard
<1> HIDE DEF pend
<1>6. log \in Seq(Entries) /\ Apart(log) /\ Len(log) \in Nat
  BY DEF HearInv, LogInv
<1>7. s \in Hearings /\ s.sid = o.sess.sid /\ s.log = log /\ s.counters = o.counters
      /\ s.counted = o.sess.counted /\ s.win = o.sess.win
  BY <1>1, <1>4, <1>5, <1>6 DEF Hearings
<1>8. Hears(p) /\ clock \in Nat /\ left.vocabulary \subseteq Words
      /\ \E V \in Vocabularies : left.vocabulary \subseteq V
  <2>1. proc[p] \in Processes
    BY DEF HearInv
  <2>2. Loads(Files[proc[p].list]) /\ proc[p].st \in {"opening", "running"}
    BY <1>3 DEF ListInv, ListKept, Started
  <2> QED BY <1>3, <2>1, <2>2 DEF Hears, Processes, LoadedFiles, WorldInv, Started
<1> HIDE DEF s
<1>9. /\ said \in Hearings /\ said.sid = s.sid /\ Grows(s.log, said.log, s.sid)
      /\ Carries(p, s, said)
  BY <1>5, <1>7, <1>8, UtteranceKeeps, UtteranceCarries
<1> HIDE DEF said
<1>10. /\ DOMAIN o = ProcFields
       /\ DOMAIN o.sess = {"open", "gone", "pend", "win", "sid", "counted", "aged"}
  BY <1>1, <1>4 DEF Processes, ProcFields, Sessions
<1>11. CASE ~final
  <2>1. waits.open /\ waits.win = o.sess.win /\ waits.sid = o.sess.sid
        /\ waits.counted = o.sess.counted
    BY <1>1, <1>10
  <2> HIDE DEF waits
  <2>2. q.sess = waits /\ q.st = o.st /\ q.live = o.live /\ q.base = o.base
        /\ q.counters = o.counters /\ q.calls = o.calls
    BY <1>10 DEF ProcFields
  <2>3. Goes(p, q) /\ log' = log
    BY <1>3, <1>11
  <2> HIDE DEF q
  <2>4. /\ OfOwnCall(o) => OfOwnCall(q)
        /\ SessionNoted(log, o) => SessionNoted(log', q)
    BY <1>1, <2>1, <2>2, <2>3 DEF OfOwnCall, SessionNoted
  <2>5. Grows(log, log', q.sess.sid) /\ Len(log) + 1 .. Len(log') = {}
    BY <1>6, <2>3 DEF Grows
  <2> QED BY <1>1, <1>2, <2>2, <2>3, <2>4, <2>5, Zenon DEF HeardCarried
<1>12. CASE final
  <2> DEFINE v == said.win
             g == said.aged
             c == said.counters
  <2>1. heard.open /\ heard.win = said.win /\ heard.sid = o.sess.sid
        /\ heard.counted = o.sess.counted
    <3>1. heard = [o.sess EXCEPT !.win = v, !.pend = <<>>, !.aged = g] OBVIOUS
    <3> HIDE DEF v, g, heard
    <3>2. heard.open /\ heard.win = v /\ heard.sid = o.sess.sid
          /\ heard.counted = o.sess.counted
      BY <1>1, <1>10, <3>1
    <3> QED BY <3>2 DEF v
  <2> HIDE DEF heard
  <2>2. r.sess = heard /\ r.st = o.st /\ r.live = o.live /\ r.base = o.base
        /\ r.counters = c /\ r.calls = o.calls
    <3>1. r = [o EXCEPT !.counters = c, !.sess = heard] OBVIOUS
    <3> HIDE DEF c, r
    <3> QED BY <1>10, <3>1 DEF ProcFields
  <2>3. Goes(p, r) /\ log' = said.log
    BY <1>3, <1>12
  <2> HIDE DEF r
  <2>4. /\ said.counters.last = o.counters.last
        /\ \A i \in Len(log) + 1 .. Len(log') :
             log'[i].event = "match" => log'[i].counted = o.sess.counted
                                        /\ log'[i].live = proc[p].live
        /\ \A x : Young(x) => Times(o.counters.events, x) <= Times(said.counters.events, x)
        /\ Noted(log, o.sess.win, o.sess.sid) => Noted(log', said.win, o.sess.sid)
    BY <1>7, <1>9, <2>3, Zenon DEF Carries
  <2>5. /\ OfOwnCall(o) => OfOwnCall(r)
        /\ SessionNoted(log, o) => SessionNoted(log', r)
    BY <1>1, <2>1, <2>2, <2>4 DEF OfOwnCall, SessionNoted
  <2>6. Grows(log, log', r.sess.sid)
    BY <1>7, <1>9, <2>1, <2>2, <2>3
  <2>7. ASSUME NEW x
        PROVE  /\ Young(x) => Held(p, x) <= Times(r.counters.events, x)
               /\ Young(x) /\ Times(o.counters.events, x) >= 1 => Times(r.counters.events, x) >= 1
    <3> DEFINE A == Held(p, x)
               B == Times(o.counters.events, x)
               C == Times(r.counters.events, x)
    <3>1. A \in Nat /\ B \in Nat /\ C \in Nat
      <4>1. A \in Nat
        BY MarkNumbers
      <4>2. r.counters \in CounterRecords
        BY <1>9, <2>2 DEF Hearings
      <4> QED BY <1>4, <1>6, <4>1, <4>2, TallyNumbers
    <3>2. Young(x) => A <= B /\ B <= C
      BY <1>2, <2>2, <2>4
    <3> HIDE DEF A, B, C
    <3>3. Young(x) => A <= C /\ (B >= 1 => C >= 1)
      BY <3>1, <3>2
    <3> QED BY <3>3 DEF A, B, C
  <2>8. Young(CallMark(clock))
    BY <1>8, CountersNat DEF Young, Fresh, CallMark
  <2>9. \/ r.calls = proc[p].calls
        \/ proc[p].calls = Never /\ r.calls = clock
            /\ Times(r.counters.events, CallMark(clock)) >= 1
    BY <1>2, <2>2, <2>7, <2>8
  <2>10. r.counters.last = proc[p].counters.last
    BY <1>2, <2>2, <2>4
  <2>11. /\ r.st = proc[p].st /\ r.live = proc[p].live /\ r.base = proc[p].base
         /\ r.sess.counted = o.sess.counted
    BY <1>1, <2>1, <2>2
  <2>12. \A i \in Len(log) + 1 .. Len(log') : log'[i].event = "match"
                  => log'[i].counted = r.sess.counted /\ log'[i].live = r.live
    BY <2>4, <2>11
  <2>13. \A x : Young(x) => Held(p, x) <= Times(r.counters.events, x)
    BY <2>7
  <2>14. /\ OfOwnCall(proc[p]) => OfOwnCall(r)
         /\ SessionNoted(log, proc[p]) => SessionNoted(log', r)
    BY <1>2, <2>5
  <2> QED BY <2>3, <2>6, <2>9, <2>10, <2>11, <2>12, <2>13, <2>14, Zenon DEF HeardCarried
<1> QED BY <1>11, <1>12

\* A live copy logged a match of the call that was counted at t.
Named(entries, t) ==
    \E i \in DOMAIN entries :
        entries[i].event = "match" /\ entries[i].live /\ entries[i].counted = t

\* The call counted at t: who counted it holds it, and while nothing is lost it
\* is, if the log names it, in the state file or held by the live copy.
CallKept(t) ==
    LET x == CallMark(t) IN
    Young(x) =>
        /\ \A q \in Procs : /\ proc[q].calls = t => Held(q, x) >= 1
                            /\ Based(q, x) <= Held(q, x)
        /\ ~lost =>
             /\ \A q \in Procs : Based(q, x) <= Stored(x)
             /\ Named(log, t) =>
                  /\ (\A q \in Procs : ~LiveUp(q)) => Stored(x) >= 1
                  /\ \A q \in Procs : LiveUp(q) => Held(q, x) >= 1 \/ Based(q, x) < Stored(x)

\* The time of the last alert is that of one that was logged.
Alerted(entries, at) ==
    at = Never \/ \E i \in DOMAIN entries : entries[i].event = "alert" /\ entries[i].at = at

\* What holds of process r and the log.
RunKept(entries, r) ==
    /\ OfOwnCall(r) /\ SessionNoted(entries, r) /\ Alerted(entries, r.counters.last)
    /\ r.calls # Never => r.st = "running"

CallsInv ==
    /\ Alerted(log, store.last)
    /\ \A q \in Procs : RunKept(log, proc[q])
    /\ \A t \in Nat : CallKept(t)

\* The log only grows.
Extends(new, old) == Len(old) <= Len(new) /\ \A i \in 1 .. Len(old) : new[i] = old[i]

\* What was known stays known as the log grows.
LEMMA ExtendedKeeps ==
    ASSUME NEW old \in Seq(Entries), NEW new \in Seq(Entries), Extends(new, old)
    PROVE  /\ \A at : Alerted(old, at) => Alerted(new, at)
           /\ \A r : SessionNoted(old, r) => SessionNoted(new, r)
           /\ \A r : RunKept(old, r) => RunKept(new, r)
<1>1. \A i \in DOMAIN old : i \in DOMAIN new /\ new[i] = old[i]
  BY DEF Extends
<1>2. \A at : Alerted(old, at) => Alerted(new, at)
  BY <1>1 DEF Alerted
<1>3. ASSUME NEW win, NEW sid, Noted(old, win, sid) PROVE Noted(new, win, sid)
  <2> SUFFICES ASSUME NEW r \in win.reported
               PROVE  \E i \in DOMAIN new :
                  /\ new[i].event = "match" /\ new[i].sid = sid
                  /\ new[i].row = r.row /\ new[i].from = r.from /\ new[i].to = r.to
    BY DEF Noted
  <2>1. PICK i \in DOMAIN old :
                  /\ old[i].event = "match" /\ old[i].sid = sid
                  /\ old[i].row = r.row /\ old[i].from = r.from /\ old[i].to = r.to
    BY <1>3 DEF Noted
  <2> QED BY <1>1, <2>1
<1>4. \A r : SessionNoted(old, r) => SessionNoted(new, r)
  BY <1>3 DEF SessionNoted
<1> QED BY <1>2, <1>4 DEF RunKept

\* What must be shown of a step of p for the call counted at t, whose mark is x,
\* when it leaves p up or not with its last call at calls and that many held
\* and based.
CallGoes(p, t, x, calls, held, based, up) ==
    Young(x) =>
      /\ calls = t => held >= 1
      /\ based <= held
      /\ ~lost' =>
           /\ ~lost /\ based <= Stored(x)' /\ Stored(x) <= Stored(x)'
           /\ Named(log', t) => Named(log, t) \/ (up /\ held >= 1)
           /\ Named(log', t) /\ up => held >= 1 \/ based < Stored(x)'
           /\ Named(log, t) /\ ~up /\ LiveUp(p) => Stored(x)' >= 1

CallTells(p, r, t) ==
    LET x == CallMark(t)
        held == Times(r.counters.events, x)
        based == Times(r.base.events, x)
        up == r.live /\ r.st \in {"opening", "running"}
    IN CallGoes(p, t, x, r.calls, held, based, up)

\* ... and of all else.
RunTells(r) ==
    /\ Extends(log', log) /\ RunKept(log', r) /\ Alerted(log', store'.last)

CallStep ==
    \E p \in Procs : \E r : Goes(p, r) /\ RunTells(r) /\ \A t \in Nat : CallTells(p, r, t)

\* That is enough.
LEMMA OneCalls ==
    ASSUME DaemonInv, DaemonInv', clock' = clock, CallsInv, CallStep
    PROVE  CallsInv'
<1>1. PICK p \in Procs : \E r : Goes(p, r) /\ RunTells(r) /\ \A t \in Nat : CallTells(p, r, t)
  BY DEF CallStep
<1>2. PICK r : Goes(p, r) /\ RunTells(r) /\ \A t \in Nat : CallTells(p, r, t)
  BY <1>1
<1>3. DOMAIN proc' = Procs /\ proc'[p] = r /\ \A q \in Procs \ {p} : proc'[q] = proc[q]
  BY <1>2 DEF Goes, DaemonInv, ListInv
<1>4. log \in Seq(Entries) /\ log' \in Seq(Entries)
  BY DEF DaemonInv, HearInv, LogInv
<1>5. \A q \in Procs : RunKept(log, proc[q])'
  BY <1>2, <1>3, <1>4, ExtendedKeeps DEF RunTells, CallsInv
<1>6. Alerted(log, store.last)'
  BY <1>2 DEF RunTells
<1>7. ASSUME NEW t \in Nat PROVE CallKept(t)'
  <2> DEFINE x == CallMark(t)
             held == Times(r.counters.events, x)
             based == Times(r.base.events, x)
             up == r.live /\ r.st \in {"opening", "running"}
  <2>1. Held(p, x)' = held /\ Based(p, x)' = based /\ (LiveUp(p)' <=> up) /\ proc'[p].calls = r.calls
    BY <1>3 DEF Held, Based, LiveUp, Up
  <2>2. \A q \in Procs \ {p} : /\ Held(q, x)' = Held(q, x) /\ Based(q, x)' = Based(q, x)
                               /\ LiveUp(q)' <=> LiveUp(q)
                               /\ proc'[q].calls = proc[q].calls
    BY <1>3 DEF Held, Based, LiveUp, Up
  <2>3. Young(x)' <=> Young(x)
    BY DEF Young, Fresh
  <2>4. /\ Stored(x) \in Nat /\ Stored(x)' \in Nat
        /\ \A q \in Procs : Held(q, x) \in Nat /\ Based(q, x) \in Nat
    <3>1. WorldInv /\ HearInv /\ WorldInv' /\ HearInv'
      BY DEF DaemonInv
    <3>2. store' \in CounterRecords
      BY <3>1 DEF WorldInv
    <3> QED BY <1>4, <3>1, <3>2, MarkNumbers, TallyNumbers DEF Stored
  <2>5. \A q \in Procs : LiveUp(p)' /\ LiveUp(q)' => q = p
    BY DEF LiveUp, DaemonInv, ListInv, LockHeld
  <2>6. Young(x) =>
          /\ proc'[p].calls = t => Held(p, x)' >= 1
          /\ Based(p, x)' <= Held(p, x)'
          /\ ~lost' =>
               /\ ~lost /\ Based(p, x)' <= Stored(x)' /\ Stored(x) <= Stored(x)'
               /\ Named(log', t) => Named(log, t) \/ (LiveUp(p)' /\ Held(p, x)' >= 1)
               /\ Named(log', t) /\ LiveUp(p)' => Held(p, x)' >= 1 \/ Based(p, x)' < Stored(x)'
               /\ Named(log, t) /\ ~LiveUp(p)' /\ LiveUp(p) => Stored(x)' >= 1
    BY <1>2, <2>1, Zenon DEF CallTells, CallGoes
  <2>7. Young(x) =>
          /\ \A q \in Procs : /\ proc[q].calls = t => Held(q, x) >= 1
                              /\ Based(q, x) <= Held(q, x)
          /\ ~lost =>
             /\ \A q \in Procs : Based(q, x) <= Stored(x)
             /\ Named(log, t) =>
                  /\ (\A q \in Procs : ~LiveUp(q)) => Stored(x) >= 1
                  /\ \A q \in Procs : LiveUp(q) => Held(q, x) >= 1 \/ Based(q, x) < Stored(x)
    BY Zenon DEF CallsInv, CallKept
  <2> HIDE DEF x, held, based, up
  <2>8. ASSUME Young(x), NEW q \in Procs
        PROVE  /\ proc'[q].calls = t => Held(q, x)' >= 1
               /\ Based(q, x)' <= Held(q, x)'
    BY <2>2, <2>6, <2>7, <2>8
  <2>9. ASSUME Young(x), ~lost', NEW q \in Procs PROVE Based(q, x)' <= Stored(x)'
    <3>1. CASE q = p
      BY <2>6, <2>9, <3>1
    <3>2. CASE q # p
      <4>1. Based(q, x)' = Based(q, x) /\ Based(q, x) <= Stored(x) /\ Stored(x) <= Stored(x)'
        BY <2>2, <2>6, <2>7, <2>9, <3>2
      <4> QED BY <2>4, <4>1
    <3> QED BY <3>1, <3>2
  <2>10. ASSUME Young(x), ~lost', Named(log', t), \A q \in Procs : ~LiveUp(q)'
         PROVE  Stored(x)' >= 1
    <3>1. ~lost /\ Named(log, t) /\ Stored(x) <= Stored(x)'
      BY <2>6, <2>10
    <3>2. CASE LiveUp(p)
      BY <2>6, <2>10, <3>1, <3>2
    <3>3. CASE ~LiveUp(p)
      <4>1. \A q \in Procs : ~LiveUp(q)
        BY <2>2, <2>10, <3>3
      <4>2. Stored(x) >= 1
        BY <2>7, <2>10, <3>1, <4>1
      <4> QED BY <2>4, <3>1, <4>2
    <3> QED BY <3>2, <3>3
  <2>11. ASSUME Young(x), ~lost', Named(log', t), NEW q \in Procs, LiveUp(q)'
         PROVE  Held(q, x)' >= 1 \/ Based(q, x)' < Stored(x)'
    <3>1. CASE q = p
      BY <2>6, <2>11, <3>1
    <3>2. CASE q # p
      <4>1. ~LiveUp(p)' /\ LiveUp(q)
        BY <2>2, <2>5, <2>11, <3>2
      <4>2. ~lost /\ Named(log, t) /\ Stored(x) <= Stored(x)'
        BY <2>6, <2>11, <4>1
      <4>3. Held(q, x) >= 1 \/ Based(q, x) < Stored(x)
        BY <2>7, <2>11, <4>1, <4>2
      <4>4. Held(q, x)' = Held(q, x) /\ Based(q, x)' = Based(q, x)
        BY <2>2, <3>2
      <4> QED BY <2>4, <4>2, <4>3, <4>4
    <3> QED BY <3>1, <3>2
  <2>12. Young(x)' =>
          /\ \A q \in Procs : /\ proc'[q].calls = t => Held(q, x)' >= 1
                              /\ Based(q, x)' <= Held(q, x)'
          /\ ~lost' =>
             /\ \A q \in Procs : Based(q, x)' <= Stored(x)'
             /\ Named(log', t) =>
                  /\ (\A q \in Procs : ~LiveUp(q)') => Stored(x)' >= 1
                  /\ \A q \in Procs : LiveUp(q)' => Held(q, x)' >= 1 \/ Based(q, x)' < Stored(x)'
    BY <2>3, <2>8, <2>9, <2>10, <2>11
  <2> QED BY <2>12, Zenon DEF CallKept, x
<1> QED BY <1>5, <1>6, <1>7 DEF CallsInv

\* What is known of the call counted at t, whose mark is x, in numbers.
CallHolds(p, t, x) ==
    /\ Stored(x) \in Nat /\ Held(p, x) \in Nat /\ Based(p, x) \in Nat
    /\ Young(x) =>
         /\ proc[p].calls = t => Held(p, x) >= 1
         /\ Based(p, x) <= Held(p, x)
         /\ ~lost =>
              /\ Based(p, x) <= Stored(x)
              /\ Named(log, t) =>
                   /\ (\A q \in Procs : ~LiveUp(q)) => Stored(x) >= 1
                   /\ LiveUp(p) => Held(p, x) >= 1 \/ Based(p, x) < Stored(x)

LEMMA CallNow ==
    ASSUME WorldInv, HearInv, CallsInv, NEW p \in Procs, NEW t \in Nat, NEW x, x = CallMark(t)
    PROVE  CallHolds(p, t, x)
<1>1. CallKept(t)
  BY DEF CallsInv
<1> QED BY <1>1, MarkNumbers DEF CallKept, CallHolds

\* A step that saves, counts, names and loses nothing.
LEMMA CallsQuiet ==
    ASSUME WorldInv, HearInv, CallsInv, NEW p \in Procs, NEW r, Goes(p, r),
           UNCHANGED <<store, log, lost>>,
           r.counters = proc[p].counters, r.base = proc[p].base, r.calls = proc[p].calls,
           OfOwnCall(r), SessionNoted(log, r), r.calls # Never => r.st = "running",
           \/ r.live /\ r.st \in {"opening", "running"} <=> LiveUp(p)
           \/ \A q \in Procs : ~LiveUp(q)
    PROVE  CallStep
<1>1. RunTells(r)
  <2>1. RunKept(log, proc[p]) /\ Alerted(log, store.last)
    BY DEF CallsInv
  <2>2. log' = log /\ store' = store OBVIOUS
  <2>3. Alerted(log, r.counters.last)
    BY <2>1 DEF RunKept
  <2>4. log \in Seq(Entries)
    BY DEF HearInv, LogInv
  <2> QED BY <2>1, <2>2, <2>3, <2>4 DEF RunTells, RunKept, Extends
<1>2. ASSUME NEW t \in Nat PROVE CallTells(p, r, t)
  <2> DEFINE x == CallMark(t)
             held == Times(r.counters.events, x)
             based == Times(r.base.events, x)
             up == r.live /\ r.st \in {"opening", "running"}
  <2>1. held = Held(p, x) /\ based = Based(p, x) /\ Stored(x)' = Stored(x) /\ lost' = lost
    BY DEF Held, Based, Stored
  <2>2. Named(log', t) <=> Named(log, t) OBVIOUS
  <2>3. CallHolds(p, t, x)
    BY CallNow
  <2> HIDE DEF x, held, based
  <2>4. ASSUME Young(x), ~lost, Named(log, t), up PROVE held >= 1 \/ based < Stored(x)
    BY <2>1, <2>3, <2>4 DEF CallHolds
  <2>5. ~up => ~LiveUp(p) OBVIOUS
  <2>6. CallGoes(p, t, x, r.calls, held, based, up)
    BY <2>1, <2>2, <2>3, <2>4, <2>5 DEF CallGoes, CallHolds
  <2> QED BY <2>6, Zenon DEF CallTells, x, held, based
<1> QED BY <1>1, <1>2 DEF CallStep

\* What a process that has not started knows.
LEMMA NothingHeard ==
    ASSUME NEW entries, NEW r, r.sess = NoSession, r.counters = NoCounters, r.calls = Never
    PROVE  RunKept(entries, r)
  BY DEF RunKept, OfOwnCall, SessionNoted, Alerted, NoSession, NoCounters

\* A process that is not up ends or starts.
LEMMA CallsNothing ==
    ASSUME WorldInv, HearInv, CallsInv, NEW p \in Procs, NEW r, Goes(p, r),
           UNCHANGED <<store, log, lost>>, r.sess = NoSession, r.counters = NoCounters,
           r.base = NoCounters, r.calls = Never, r.st \notin {"opening", "running"}, ~LiveUp(p)
    PROVE  CallStep
<1>1. RunTells(r)
  <2>1. RunKept(log', r)
    BY NothingHeard
  <2>2. Alerted(log, store.last) /\ log \in Seq(Entries)
    BY DEF CallsInv, HearInv, LogInv
  <2> QED BY <2>1, <2>2 DEF RunTells, Extends
<1>2. ASSUME NEW t \in Nat PROVE CallTells(p, r, t)
  <2> DEFINE x == CallMark(t)
             held == Times(r.counters.events, x)
             based == Times(r.base.events, x)
             up == r.live /\ r.st \in {"opening", "running"}
  <2>1. held = 0 /\ based = 0 /\ Stored(x)' = Stored(x) /\ lost' = lost /\ Stored(x) \in Nat
    BY NothingCounted, CallNow DEF Stored, CallHolds
  <2>2. Never # t
    BY CountersNat DEF Never
  <2> HIDE DEF x, held, based
  <2>3. CallGoes(p, t, x, r.calls, held, based, up)
    BY <2>1, <2>2 DEF CallGoes
  <2> QED BY <2>3, Zenon DEF CallTells, x, held, based
<1> QED BY <1>1, <1>2 DEF CallStep

\* A process that is up could not save, and goes on with its record trimmed.
LEMMA CallsUnsaved ==
    ASSUME WorldInv, HearInv, CallsInv, NEW p \in Procs, NEW r, Goes(p, r),
           UNCHANGED <<store, lost>>, RunTells(r),
           r.counters \in CounterRecords, r.base = proc[p].base, r.calls = proc[p].calls,
           \A x : Young(x) => Times(r.counters.events, x) = Held(p, x),
           \A t \in Nat : Named(log', t) => Named(log, t),
           r.live = proc[p].live, r.st = proc[p].st
    PROVE  CallStep
<1> SUFFICES ASSUME NEW t \in Nat PROVE CallTells(p, r, t)
  BY DEF CallStep
<1> DEFINE x == CallMark(t)
           held == Times(r.counters.events, x)
           based == Times(r.base.events, x)
           up == r.live /\ r.st \in {"opening", "running"}
<1>1. based = Based(p, x) /\ held \in Nat /\ Stored(x)' = Stored(x) /\ lost' = lost
  BY TallyNumbers DEF Based, Stored, HearInv, LogInv
<1>2. CallHolds(p, t, x)
  BY CallNow
<1>3. (Young(x) => held = Held(p, x)) /\ (Named(log', t) => Named(log, t)) OBVIOUS
<1>4. up <=> LiveUp(p)
  BY DEF LiveUp, Up
<1> HIDE DEF held, based, x, up
<1>5. CallGoes(p, t, x, r.calls, held, based, up)
  BY <1>1, <1>2, <1>3, <1>4 DEF CallGoes, CallHolds
<1> QED BY <1>5, Zenon DEF CallTells, x, held, based, up

\* A process that is up saves all it has counted, and goes on or ends.
LEMMA CallsSaved ==
    ASSUME WorldInv, HearInv, CallsInv, NEW p \in Procs, NEW r, Goes(p, r), Up(p),
           "state" \in disk, NEW c \in CounterRecords, Save(p, c), RunTells(r),
           \A x : Young(x) => Times(c.events, x) = Held(p, x),
           \A t \in Nat : Named(log', t) => Named(log, t),
           \/ /\ r.counters = c /\ r.base = c /\ r.live = proc[p].live
              /\ r.calls = proc[p].calls
           \/ /\ r.counters = NoCounters /\ r.base = NoCounters /\ r.calls = Never
              /\ r.st \notin {"opening", "running"}
    PROVE  CallStep
<1> SUFFICES ASSUME NEW t \in Nat PROVE CallTells(p, r, t)
  BY DEF CallStep
<1> DEFINE x == CallMark(t)
           held == Times(r.counters.events, x)
           based == Times(r.base.events, x)
           kept == Times(c.events, x)
           up == r.live /\ r.st \in {"opening", "running"}
<1>1. Stored(x)' = kept /\ kept \in Nat
  BY TallyNumbers DEF Stored, Save, HearInv, LogInv
<1>2. \/ held = kept /\ based = kept /\ r.live = proc[p].live /\ r.calls = proc[p].calls
      \/ held = 0 /\ based = 0 /\ r.st \notin {"opening", "running"} /\ r.calls = Never
  BY NothingCounted
<1>3. Never # t
  BY CountersNat DEF Never
<1>4. CallHolds(p, t, x)
  BY CallNow
<1>5. ~lost' => ~lost /\ Based(p, x) = Stored(x)
  BY DEF Save, Based, Stored
<1>6. (Young(x) => kept = Held(p, x)) /\ (Named(log', t) => Named(log, t)) OBVIOUS
<1>7. LiveUp(p) <=> proc[p].live
  BY DEF LiveUp
<1> HIDE DEF held, based, kept, x
<1>8. ASSUME Young(x), ~lost'
      PROVE  /\ Stored(x) <= Stored(x)' /\ (Named(log, t) /\ LiveUp(p) => kept >= 1)
             /\ based <= Stored(x)'
  BY <1>1, <1>2, <1>4, <1>5, <1>6, <1>8 DEF CallHolds
<1>9. CallGoes(p, t, x, r.calls, held, based, up)
  BY <1>1, <1>2, <1>3, <1>4, <1>5, <1>6, <1>7, <1>8 DEF CallGoes, CallHolds
<1> QED BY <1>9, Zenon DEF CallTells, x, held, based

\* What is heard.
LEMMA CallsAudio ==
    ASSUME WorldInv, HearInv, ListInv, CallsInv, NEW p \in Procs, NEW w \in left.vocabulary,
           NEW final \in BOOLEAN, OnAudio(p, w, final), HearInv'
    PROVE  CallStep
<1>1. PICK r : /\ Goes(p, r) /\ r.st = proc[p].st /\ r.live = proc[p].live /\ r.base = proc[p].base
               /\ r.counters.last = proc[p].counters.last
               /\ \A x : Young(x) => Held(p, x) <= Times(r.counters.events, x)
               /\ \/ r.calls = proc[p].calls
                  \/ proc[p].calls = Never /\ r.calls = clock
                     /\ Times(r.counters.events, CallMark(clock)) >= 1
               /\ OfOwnCall(proc[p]) => OfOwnCall(r)
               /\ SessionNoted(log, proc[p]) => SessionNoted(log', r)
               /\ Grows(log, log', r.sess.sid)
               /\ \A i \in Len(log) + 1 .. Len(log') : log'[i].event = "match"
                      => log'[i].counted = r.sess.counted /\ log'[i].live = r.live
  BY OnAudioCarries DEF HeardCarried
<1>2. /\ proc[p].st = "running" /\ store' = store /\ lost' = lost
      /\ log \in Seq(Entries) /\ log' \in Seq(Entries)
  BY DEF OnAudio, HearInv, LogInv
<1>a. Goes(p, r) /\ r.st = "running" /\ r.live = proc[p].live /\ r.base = proc[p].base
  BY <1>1, <1>2
<1>b. r.counters.last = proc[p].counters.last
  BY <1>1
<1>c. \A x : Young(x) => Held(p, x) <= Times(r.counters.events, x)
  BY <1>1
<1>d. \/ r.calls = proc[p].calls
      \/ r.calls = clock /\ Times(r.counters.events, CallMark(clock)) >= 1
  BY <1>1
<1>e. RunKept(log, proc[p]) /\ Alerted(log, store.last)
  BY DEF CallsInv
<1>f. OfOwnCall(r) /\ SessionNoted(log', r)
  BY <1>1, <1>e DEF RunKept
<1>g. /\ Len(log) <= Len(log') /\ \A i \in 1 .. Len(log) : log'[i] = log[i]
      /\ \A i \in Len(log) + 1 .. Len(log') : log'[i].event = "match"
            => log'[i].counted = r.sess.counted /\ log'[i].live = r.live
  BY <1>1, Zenon DEF Grows
<1>3. RunTells(r)
  <2>2. Extends(log', log)
    BY <1>g DEF Extends
  <2>3. Alerted(log', r.counters.last) /\ Alerted(log', store'.last)
    BY <1>b, <1>e, <1>2, <2>2, ExtendedKeeps DEF RunKept
  <2> QED BY <1>a, <1>f, <2>2, <2>3 DEF RunTells, RunKept
<1>4. ASSUME NEW t \in Nat PROVE CallTells(p, r, t)
  <2> DEFINE x == CallMark(t)
             held == Times(r.counters.events, x)
             based == Times(r.base.events, x)
             up == r.live /\ r.st \in {"opening", "running"}
  <2>1. based = Based(p, x) /\ Stored(x)' = Stored(x)
    BY <1>a, <1>2 DEF Based, Stored
  <2>2. CallHolds(p, t, x)
    BY CallNow
  <2>4. Young(x) => Held(p, x) <= held
    BY <1>c
  <2>5. held \in Nat
    <3>1. r = proc'[p] /\ proc'[p] \in Processes'
      BY <1>a DEF Goes, HearInv
    <3>2. r.counters \in CounterRecords
      BY <3>1 DEF Processes
    <3> QED BY <1>2, <3>2, TallyNumbers
  <2>6. (up <=> LiveUp(p)) /\ (LiveUp(p) <=> r.live)
    BY <1>a, <1>2 DEF LiveUp, Up
  <2>7. Young(x) /\ r.calls = t => held >= 1
    <3>1. CASE r.calls = proc[p].calls
      <4> HIDE DEF x, held
      <4> QED BY <2>2, <2>4, <2>5, <3>1 DEF CallHolds
    <3>2. CASE r.calls = clock /\ Times(r.counters.events, CallMark(clock)) >= 1
      BY <3>2
    <3> QED BY <1>d, <3>1, <3>2
  <2>8. ASSUME Young(x), Named(log', t), ~Named(log, t) PROVE up /\ held >= 1
    <3>1. PICK i \in DOMAIN log' : log'[i].event = "match" /\ log'[i].live /\ log'[i].counted = t
      BY <2>8 DEF Named
    <3>2. i \notin 1 .. Len(log)
      BY <1>g, <1>2, <2>8, <3>1 DEF Named
    <3>3. i \in Len(log) + 1 .. Len(log')
      BY <1>2, <3>1, <3>2
    <3>4. r.live /\ r.sess.counted = t
      BY <1>g, <3>1, <3>3
    <3>5. OfOwnCall(r) /\ Never # t
      BY <1>f, CountersNat DEF Never
    <3>6. r.calls = t
      BY <3>4, <3>5 DEF OfOwnCall
    <3> QED BY <2>6, <2>7, <2>8, <3>4, <3>6
  <2> HIDE DEF x, held, based, up
  <2>9. ASSUME Young(x), ~lost, Named(log', t), up PROVE held >= 1 \/ based < Stored(x)
    <3>1. CASE Named(log, t)
      BY <2>1, <2>2, <2>4, <2>5, <2>6, <2>9, <3>1 DEF CallHolds
    <3> QED BY <2>8, <2>9, <3>1
  <2>10. CallGoes(p, t, x, r.calls, held, based, up)
    BY <1>2, <2>1, <2>2, <2>4, <2>5, <2>6, <2>7, <2>8, <2>9 DEF CallGoes, CallHolds
  <2> QED BY <2>10, Zenon DEF CallTells, x, held, based, up
<1> QED BY <1>a, <1>3, <1>4 DEF CallStep

\* A process ends without a save: if nothing is lost, nothing was counted since
\* the last one.
LEMMA CallsCrash ==
    ASSUME WorldInv, HearInv, CallsInv, NEW p \in Procs, Goes(p, NoProc),
           UNCHANGED <<store, log>>, lost' = (lost \/ Unsaved(p))
    PROVE  CallStep
<1> DEFINE r == NoProc
<1>1. Goes(p, r) /\ store' = store /\ log' = log OBVIOUS
<1>2. /\ r.counters = NoCounters /\ r.base = NoCounters /\ r.st \notin {"opening", "running"}
      /\ r.calls = Never /\ r.sess = NoSession
  BY DEF NoProc
<1>3. RunTells(r)
  <2>1. RunKept(log', r)
    BY <1>2, NothingHeard
  <2>2. Alerted(log, store.last) /\ log \in Seq(Entries)
    BY DEF CallsInv, HearInv, LogInv
  <2> HIDE DEF r
  <2> QED BY <1>1, <2>1, <2>2 DEF RunTells, Extends
<1> HIDE DEF r
<1>4. ASSUME NEW t \in Nat PROVE CallTells(p, r, t)
  <2> DEFINE x == CallMark(t)
             held == Times(r.counters.events, x)
             based == Times(r.base.events, x)
             up == r.live /\ r.st \in {"opening", "running"}
  <2>1. held = 0 /\ based = 0 /\ Stored(x)' = Stored(x)
    BY <1>1, <1>2, NothingCounted DEF Stored
  <2>2. Never # t
    BY CountersNat DEF Never
  <2>3. CallHolds(p, t, x)
    BY CallNow
  <2>4. ASSUME Young(x), ~lost' PROVE ~lost /\ Held(p, x) = Based(p, x)
    <3>1. ~lost /\ ~Unsaved(p)
      BY <2>4
    <3> QED BY <2>4, <3>1, SavedYoung
  <2> HIDE DEF x, held, based
  <2>5. ASSUME Young(x), ~lost', Named(log, t), LiveUp(p) PROVE Stored(x) >= 1
    BY <2>3, <2>4, <2>5 DEF CallHolds
  <2>6. CallGoes(p, t, x, r.calls, held, based, up)
    BY <1>1, <1>2, <2>1, <2>2, <2>3, <2>4, <2>5 DEF CallGoes, CallHolds
  <2> QED BY <2>6, Zenon DEF CallTells, x, held, based
<1> QED BY <1>1, <1>3, <1>4 DEF CallStep

\* A process reads the state file.
LEMMA CallsBuild ==
    ASSUME WorldInv, HearInv, CallsInv, NEW p \in Procs, Build(p)
    PROVE  CallStep
<1>1. UNCHANGED <<store, log, lost>> /\ ~LiveUp(p) /\ proc[p].st = "exec"
  <2>1. UNCHANGED <<store, log, ghosts>> /\ proc[p].st = "exec"
    BY Zenon DEF Build
  <2> QED BY <2>1 DEF ghosts, LiveUp, Up
<1>2. CASE ~Loads(Files[file])
  <2> DEFINE r == NoProc
  <2>1. Goes(p, r)
    BY <1>2 DEF Build, Gone
  <2>2. /\ r.counters = NoCounters /\ r.base = NoCounters /\ r.st \notin {"opening", "running"}
        /\ r.calls = Never /\ r.sess = NoSession
    BY DEF NoProc
  <2> HIDE DEF r
  <2> QED BY <1>1, <2>1, <2>2, CallsNothing
<1>3. CASE Loads(Files[file])
  <2>0. PICK base \in Readable :
            Goes(p, [proc[p] EXCEPT !.st = "built", !.list = file, !.seen = mtime,
                       !.grammar = Grammar(file), !.base = base,
                       !.counters = LoadCounters(base, clock)])
    BY <1>3, Zenon DEF Build
  <2> DEFINE o == proc[p]
             g == Grammar(file)
             c == LoadCounters(base, clock)
             r == [o EXCEPT !.st = "built", !.list = file, !.seen = mtime,
                            !.grammar = g, !.base = base, !.counters = c]
  <2>1. Goes(p, r)
    BY <2>0
  <2>2. o \in Processes
    BY DEF HearInv
  <2>3. /\ base \in CounterRecords /\ c = [base EXCEPT !.events = Recent(base.events, clock)]
        /\ base = store \/ base = NoCounters
    BY ReadableType DEF LoadCounters
  <2>4. /\ RunKept(log, o) /\ o.st = "exec"
        /\ Alerted(log, store.last) /\ Alerted(log, base.last)
    BY <1>1, <2>3 DEF CallsInv, Alerted, NoCounters
  <2>5. o.calls = Never
    BY <2>4 DEF RunKept
  <2> HIDE DEF o, c, g
  <2>6. r.st = "built" /\ r.base = base /\ r.counters = c /\ r.calls = o.calls /\ r.sess = o.sess
    BY <2>2 DEF Processes
  <2> HIDE DEF r
  <2>7. /\ c.events = Recent(base.events, clock) /\ base.events \in Seq(TallyRows)
        /\ c.last = base.last
    BY <2>3 DEF CounterRecords, TallyRows
  <2>8. RunTells(r)
    <3>1. log \in Seq(Entries)
      BY DEF HearInv, LogInv
    <3> QED
      BY <1>1, <2>4, <2>5, <2>6, <2>7, <3>1
      DEF RunTells, RunKept, OfOwnCall, SessionNoted, Extends
  <2>9. ASSUME NEW t \in Nat PROVE CallTells(p, r, t)
    <3> DEFINE x == CallMark(t)
               held == Times(r.counters.events, x)
               based == Times(r.base.events, x)
               up == r.live /\ r.st \in {"opening", "running"}
    <3>1. /\ held = Times(c.events, x) /\ Stored(x)' = Stored(x)
          /\ based = Stored(x) \/ based = 0
      BY <1>1, <2>3, <2>6, NothingCounted DEF Stored
    <3>2. Stored(x) \in Nat /\ Never # t
      BY CallNow, CountersNat DEF Never, CallHolds
    <3>3. Young(x) => Times(c.events, x) = based
      <4> DEFINE rows == base.events
                 l == Recent(rows, clock)
      <4> HIDE DEF rows, l, x
      <4>1. x.at >= clock - DayS => Times(l, x) = Times(rows, x)
        BY <2>7, TrimmedTimes DEF rows, l
      <4>2. Times(c.events, x) = Times(l, x) /\ Times(rows, x) = based
        BY <2>6, <2>7 DEF rows, l
      <4> QED BY <4>1, <4>2 DEF Young, Fresh
    <3> HIDE DEF x, held, based
    <3>4. CallGoes(p, t, x, r.calls, held, based, up)
      BY <1>1, <2>5, <2>6, <3>1, <3>2, <3>3 DEF CallGoes
    <3> QED BY <3>4, Zenon DEF CallTells, x, held, based
  <2> QED BY <2>1, <2>8, <2>9 DEF CallStep
<1> QED BY <1>2, <1>3

\* The lock is free only if no live copy is up.
LEMMA CallsTakeLock ==
    ASSUME WorldInv, HearInv, ListInv, CallsInv, NEW p \in Procs, TakeLock(p)
    PROVE  CallStep
<1>1. UNCHANGED <<store, log, lost>> /\ ~LiveUp(p) /\ proc[p].st = "built"
  BY DEF TakeLock, ghosts, LiveUp, Up
<1>2. CASE Gone(p, 1, "refused")
  <2> DEFINE r == NoProc
  <2>1. Goes(p, r)
    BY <1>2 DEF Gone
  <2>2. /\ r.counters = NoCounters /\ r.base = NoCounters /\ r.st \notin {"opening", "running"}
        /\ r.calls = Never /\ r.sess = NoSession
    BY DEF NoProc
  <2> HIDE DEF r
  <2> QED BY <1>1, <2>1, <2>2, CallsNothing
<1> DEFINE o == proc[p]
           Moved(s) == [o EXCEPT !.st = s]
<1>3. ASSUME NEW s
      PROVE  /\ Moved(s).counters = o.counters /\ Moved(s).base = o.base /\ Moved(s).st = s
             /\ Moved(s).live = o.live /\ Moved(s).calls = o.calls /\ Moved(s).sess = o.sess
  <2>1. o \in Processes
    BY DEF HearInv
  <2> HIDE DEF o
  <2> QED BY <2>1 DEF Processes
<1>4. RunKept(log, o) /\ o.calls = Never
  BY <1>1 DEF CallsInv, RunKept
<1>5. ASSUME NEW s
      PROVE  /\ OfOwnCall(Moved(s)) /\ SessionNoted(log, Moved(s))
             /\ Moved(s).calls = Never
  <2> HIDE DEF o, Moved
  <2> QED BY <1>3, <1>4 DEF RunKept, OfOwnCall, SessionNoted
<1>6. CASE ~o.live /\ Goes(p, Moved("running"))
  <2> DEFINE r == Moved("running")
  <2>1. /\ r.counters = proc[p].counters /\ r.base = proc[p].base /\ ~r.live
        /\ r.calls = proc[p].calls
    BY <1>3, <1>6
  <2>2. OfOwnCall(r) /\ SessionNoted(log, r) /\ r.calls = Never
    BY <1>5
  <2>3. Goes(p, r)
    BY <1>6
  <2> HIDE DEF r, o
  <2> QED BY <1>1, <2>1, <2>2, <2>3, CallsQuiet
<1>7. CASE lock = None /\ Goes(p, Moved("opening"))
  <2>1. \A q \in Procs : ~LiveUp(q)
    BY <1>7, NoneIsNothing DEF ListInv, LockHeld, LiveUp
  <2> DEFINE r == Moved("opening")
  <2>2. r.counters = proc[p].counters /\ r.base = proc[p].base /\ r.calls = proc[p].calls
    BY <1>3
  <2>3. OfOwnCall(r) /\ SessionNoted(log, r) /\ r.calls = Never
    BY <1>5
  <2>4. Goes(p, r)
    BY <1>7
  <2> HIDE DEF r, o
  <2> QED BY <1>1, <2>1, <2>2, <2>3, <2>4, CallsQuiet
<1> QED BY <1>2, <1>6, <1>7 DEF TakeLock

\* Flags, and the capture opens.
LEMMA CallsFlags ==
    ASSUME WorldInv, HearInv, CallsInv, NEW p \in Procs,
           Hup(p) \/ Attributed(p) \/ StreamEnds(p) \/ Opens(p) \/ ReloadReads(p)
    PROVE  CallStep
<1> DEFINE o == proc[p]
           ends == [o.sess EXCEPT !.gone = TRUE]
           As(r) == /\ r.counters = o.counters /\ r.base = o.base /\ r.live = o.live
                    /\ r.calls = o.calls
                    /\ r.st = o.st \/ (r.st = "running" /\ o.st = "opening")
                    /\ r.sess \in {o.sess, ends}
<1>1. PICK r : Goes(p, r) /\ As(r)
  <2>1. PICK d : \/ Goes(p, [o EXCEPT !.hup = TRUE])
                 \/ Goes(p, [o EXCEPT !.known = TRUE])
                 \/ Goes(p, [o EXCEPT !.sess = ends])
                 \/ Goes(p, [o EXCEPT !.hup = FALSE, !.reading = d])
                 \/ o.st = "opening" /\ Goes(p, [o EXCEPT !.st = "running"])
    <3>1. ASSUME StreamEnds(p) PROVE Goes(p, [o EXCEPT !.sess = ends])
      BY <3>1 DEF StreamEnds
    <3> HIDE DEF ends
    <3> QED BY <3>1, Zenon DEF Hup, Attributed, Opens, ReloadReads
  <2>2. o \in Processes
    BY DEF HearInv
  <2> DEFINE u == [o EXCEPT !.hup = TRUE]
             k == [o EXCEPT !.known = TRUE]
             g == [o EXCEPT !.sess = ends]
             n == [o EXCEPT !.st = "running"]
             m == [o EXCEPT !.hup = FALSE, !.reading = d]
  <2> HIDE DEF o, ends
  <2>3. As(u) /\ As(k) /\ As(g) /\ As(m) /\ (o.st = "opening" => As(n))
    BY <2>2 DEF Processes
  <2> HIDE DEF As, u, k, g, n, m
  <2> QED BY <2>1, <2>3 DEF u, k, g, n, m
<1>2. UNCHANGED <<store, log, lost>>
  BY DEF Hup, Attributed, StreamEnds, Opens, ReloadReads, ghosts
<1>3. r.live /\ r.st \in {"opening", "running"} <=> LiveUp(p)
  BY <1>1 DEF LiveUp, Up
<1>4. o.sess \in Sessions /\ RunKept(log, o)
  BY DEF HearInv, Processes, CallsInv
<1>5. /\ r.sess.open = o.sess.open /\ r.sess.win = o.sess.win /\ r.sess.sid = o.sess.sid
      /\ r.sess.counted = o.sess.counted
  <2>1. r.sess = o.sess \/ r.sess = ends
    BY <1>1
  <2> DEFINE s == o.sess
  <2>2. ends = [s EXCEPT !.gone = TRUE] /\ s \in Sessions
    BY <1>4
  <2> HIDE DEF o, ends, s
  <2>3. ends.open = s.open /\ ends.win = s.win /\ ends.sid = s.sid /\ ends.counted = s.counted
    BY <2>2 DEF Sessions
  <2> QED BY <2>1, <2>3 DEF s
<1>6. /\ r.counters = proc[p].counters /\ r.base = proc[p].base /\ r.calls = proc[p].calls
      /\ r.st = proc[p].st \/ r.st = "running"
  BY <1>1
<1>7. OfOwnCall(r) /\ SessionNoted(log, r) /\ (r.calls # Never => r.st = "running")
  BY <1>4, <1>5, <1>6 DEF RunKept, OfOwnCall, SessionNoted
<1>8. Goes(p, r)
  BY <1>1
<1> HIDE DEF o
<1> QED BY <1>2, <1>3, <1>6, <1>7, <1>8, CallsQuiet

\* A process starts where none was.
LEMMA CallsStarts ==
    ASSUME WorldInv, HearInv, UnitInv, CallsInv, UnitStarts \/ HandStarts
    PROVE  CallStep
<1>1. PICK p \in Procs, live \in BOOLEAN :
          /\ \/ Goes(p, [NoProc EXCEPT !.st = "exec", !.live = live])
             \/ Goes(p, [NoProc EXCEPT !.st = "exec"])
          /\ ~LiveUp(p)
  BY StartsWhereNone, Zenon
<1> DEFINE a == [NoProc EXCEPT !.st = "exec", !.live = live]
           b == [NoProc EXCEPT !.st = "exec"]
<1>2. /\ a.counters = NoCounters /\ a.base = NoCounters /\ a.st = "exec"
      /\ a.calls = Never /\ a.sess = NoSession
      /\ b.counters = NoCounters /\ b.base = NoCounters /\ b.st = "exec"
      /\ b.calls = Never /\ b.sess = NoSession
  BY DEF NoProc
<1>3. UNCHANGED <<store, log, lost>>
  <2>1. UNCHANGED <<store, log, ghosts>>
    BY Zenon DEF UnitStarts, HandStarts
  <2> QED BY <2>1 DEF ghosts
<1> HIDE DEF a, b
<1> QED BY <1>1, <1>2, <1>3, CallsNothing DEF a, b

\* A process ends by itself or is stopped.
LEMMA CallsEnds ==
    ASSUME WorldInv, HearInv, CallsInv, NEW p \in Procs,
           CaptureEnds(p) \/ CaptureFails(p) \/ Stop(p)
    PROVE  CallStep
<1> DEFINE c == proc[p].counters
           r == NoProc
<1>1. Goes(p, r) /\ Up(p) /\ LastSave(p) /\ log' = log
  BY DEF CaptureEnds, CaptureFails, Stop, Gone, Up
<1>2. c \in CounterRecords /\ \A x : Young(x) => Times(c.events, x) = Held(p, x)
  BY ProcNumbers DEF Held
<1>3. /\ r.counters = NoCounters /\ r.base = NoCounters /\ r.st \notin {"opening", "running"}
      /\ r.calls = Never /\ r.sess = NoSession
  BY DEF NoProc
<1>4. RunKept(log, proc[p]) /\ log \in Seq(Entries)
  BY DEF CallsInv, HearInv, LogInv
<1>5. Alerted(log, c.last)
  BY <1>4 DEF RunKept
<1>6. CASE "state" \notin disk
  <2>1. UNCHANGED store /\ lost' = (lost \/ Unsaved(p))
    BY <1>1, <1>6 DEF LastSave
  <2> QED BY <1>1, <2>1, CallsCrash
<1>7. CASE "state" \in disk
  <2>1. Save(p, c) /\ store' = c
    BY <1>1, <1>7 DEF LastSave, Save
  <2> HIDE DEF c, r
  <2>2. RunTells(r)
    BY <1>1, <1>3, <1>4, <1>5, <2>1, NothingHeard DEF RunTells, Extends
  <2> QED BY <1>1, <1>2, <1>3, <1>7, <2>1, <2>2, CallsSaved
<1> QED BY <1>6, <1>7

\* Housekeeping ages and saves, and logs no match; the time of its alert is
\* that of the one it logs.
LEMMA CallsHousekeep ==
    ASSUME WorldInv, HearInv, CallsInv, NEW p \in Procs, Housekeep(p)
    PROVE  CallStep
<1> DEFINE o == Reloaded(proc[p])
           alerts == Alerts(o.counters, clock)
           c == CheckAlerts(o.counters, clock)
           s == IF o.sess.gone THEN NoSession ELSE o.sess
           b == IF "state" \in disk THEN c ELSE o.base
           r == [o EXCEPT !.counters = c, !.base = b, !.sess = s]
           e == Entry(p, "alert")
<1>1. /\ o \in Processes /\ o.counters = proc[p].counters /\ o.live = proc[p].live
      /\ o.calls = proc[p].calls /\ o.sess = proc[p].sess /\ o.st = proc[p].st
      /\ o.base = proc[p].base /\ clock \in Nat
  BY ReloadedType DEF HearInv, WorldInv
<1>2. Goes(p, r) /\ Up(p) /\ Save(p, c)
  BY HousekeepGoes, Zenon DEF Housekeep
<1>3. log' = IF alerts THEN Append(log, e) ELSE log
  BY Zenon DEF Housekeep
<1>4. e \in Entries /\ e.event = "alert" /\ e.at = clock
  BY ProcNumbers DEF Entry, Entries, OtherEntries, WorldInv
<1>5. /\ c \in CounterRecords /\ c.events = Trimmed(proc[p].counters.events, clock)
      /\ c.last = IF alerts THEN clock ELSE proc[p].counters.last
  <2>1. c \in CounterRecords
    BY <1>1, ProcNumbers, StoredType
  <2>2. /\ c.events = Trimmed(o.counters.events, clock)
        /\ c.last = IF alerts THEN clock ELSE o.counters.last
    BY DEF CheckAlerts
  <2> QED BY <1>1, <2>1, <2>2
<1>6. RunKept(log, proc[p]) /\ log \in Seq(Entries)
  BY DEF CallsInv, HearInv, LogInv
<1>7. s = NoSession \/ s = proc[p].sess
  BY <1>1
<1>12. b = IF "state" \in disk THEN c ELSE proc[p].base
  BY <1>1
<1> HIDE DEF o, c, s, e, alerts, b
<1>8. /\ r.counters = c /\ r.base = b /\ r.live = proc[p].live /\ r.calls = proc[p].calls
      /\ r.sess = s /\ r.st = proc[p].st
  BY <1>1 DEF Processes
<1> HIDE DEF r
<1>9. /\ log' \in Seq(Entries) /\ Extends(log', log) /\ Alerted(log', c.last)
      /\ \A t \in Nat : Named(log', t) => Named(log, t)
  <2>1. CASE ~alerts
    <3>1. log' = log /\ c.last = proc[p].counters.last
      BY <1>3, <1>5, <2>1
    <3> QED BY <1>6, <3>1 DEF Extends, RunKept
  <2>2. CASE alerts
    <3> DEFINE n == Len(log) + 1
    <3>1. log' = Append(log, e) /\ c.last = clock
      BY <1>3, <1>5, <2>2
    <3>2. /\ log' \in Seq(Entries) /\ Len(log') = n /\ log'[n] = e
          /\ \A i \in 1 .. Len(log) : log'[i] = log[i]
          /\ Len(log) \in Nat
      BY <1>4, <1>6, <3>1
    <3>3. Extends(log', log)
      BY <3>2 DEF Extends
    <3>4. n \in DOMAIN log'
      BY <3>2
    <3>5. Alerted(log', c.last)
      BY <1>4, <3>1, <3>2, <3>4 DEF Alerted
    <3>6. ASSUME NEW t \in Nat, Named(log', t) PROVE Named(log, t)
      <4>1. PICK i \in DOMAIN log' : log'[i].event = "match" /\ log'[i].live /\ log'[i].counted = t
        BY <3>6 DEF Named
      <4>2. i # n
        BY <1>4, <3>2, <4>1
      <4>3. i \in 1 .. Len(log)
        BY <3>2, <4>2
      <4> QED BY <1>6, <3>2, <4>1, <4>3 DEF Named
    <3> QED BY <3>2, <3>3, <3>5, <3>6
  <2> QED BY <2>1, <2>2
<1>10. RunTells(r)
  <2>1. SessionNoted(log', proc[p])
    BY <1>6, <1>9, ExtendedKeeps DEF RunKept
  <2>2. SessionNoted(log', r)
    BY <1>7, <1>8, <2>1 DEF SessionNoted, NoSession
  <2>3. OfOwnCall(r)
    BY <1>6, <1>7, <1>8 DEF RunKept, OfOwnCall, NoSession
  <2>4. store' = c \/ store' = store
    BY <1>2 DEF Save
  <2>5. Alerted(log', store.last)
    BY <1>6, <1>9, ExtendedKeeps DEF CallsInv
  <2> QED BY <1>6, <1>8, <1>9, <2>2, <2>3, <2>4, <2>5 DEF RunTells, RunKept
<1>11. \A x : Young(x) => Times(c.events, x) = Held(p, x)
  <2> SUFFICES ASSUME NEW x, Young(x) PROVE Times(c.events, x) = Held(p, x) OBVIOUS
  <2> DEFINE rows == proc[p].counters.events
             t == Trimmed(rows, clock)
  <2>1. rows \in Seq(TallyRows)
    BY ProcNumbers DEF CounterRecords, TallyRows
  <2>2. x.at >= clock - DayS => Times(t, x) = Times(rows, x)
    <3> HIDE DEF rows
    <3> QED BY <2>1, TrimmedTimes
  <2> QED BY <1>5, <2>2 DEF Young, Fresh, Held
<1>13. CASE "state" \in disk
  BY <1>2, <1>5, <1>8, <1>9, <1>10, <1>11, <1>12, <1>13, CallsSaved
<1>14. CASE "state" \notin disk
  <2>1. UNCHANGED <<store, lost>>
    BY <1>2, <1>14 DEF Save
  <2> QED BY <1>2, <1>5, <1>8, <1>9, <1>10, <1>11, <1>12, <1>14, <2>1, CallsUnsaved
<1> QED BY <1>13, <1>14

\* The clock ticks, the phrase list is replaced, or nothing happens.
LEMMA CallsElse ==
    ASSUME WorldInv, CallsInv, UNCHANGED <<proc, store, log, lost>>, clock' \in {clock, clock + 1}
    PROVE  CallsInv'
<1>1. ASSUME NEW t \in Nat PROVE CallKept(t)'
  <2> DEFINE x == CallMark(t)
  <2>1. clock \in Nat /\ DayS \in Nat /\ (clock' = clock \/ clock' = clock + 1)
    BY CountersNat DEF WorldInv
  <2>2. Young(x)' => Young(x)
    <3> SUFFICES ASSUME Young(x)' PROVE Young(x) OBVIOUS
    <3>1. t >= clock' - DayS
      BY DEF Young, Fresh, CallMark
    <3>2. t >= clock - DayS
      <4> DEFINE now == clock'
                 D == DayS
      <4>1. t >= now - D /\ (now = clock \/ now = clock + 1) /\ t \in Nat /\ clock \in Nat /\ D \in Nat
        BY <2>1, <3>1
      <4> HIDE DEF now, D
      <4>2. t >= clock - D
        BY <4>1
      <4> QED BY <4>2 DEF D
    <3> QED BY <3>2 DEF Young, Fresh, CallMark
  <2>3. CallKept(t)
    BY DEF CallsInv
  <2> QED BY <2>2, <2>3 DEF CallKept, Stored, Held, Based, LiveUp, Up
<1> QED BY <1>1 DEF CallsInv

\* Every step keeps what is known of the calls.
LEMMA CallsStep ==
    ASSUME DaemonInv, UnitInv, CallsInv, [Next]_vars PROVE CallsInv'
<1>1. WorldInv /\ HearInv /\ ListInv
  BY DEF DaemonInv
<1>2. DaemonInv' /\ HearInv'
  <2>1. DaemonInv'
    BY DaemonInvNext
  <2> QED BY <2>1 DEF DaemonInv
<1>3. ASSUME CallStep, clock' = clock PROVE CallsInv'
  BY <1>2, <1>3, OneCalls
<1>4. CASE UNCHANGED vars
  BY <1>1, <1>4, CallsElse DEF vars, env, ghosts
<1>5. CASE GivesUp \/ Tick \/ Edit \/ DiskChanges
  <2>1. UNCHANGED <<proc, store, log, lost>> /\ clock' \in {clock, clock + 1}
    BY <1>5 DEF GivesUp, Tick, Edit, DiskChanges, env, ghosts
  <2> QED BY <1>1, <2>1, CallsElse
<1>6. ASSUME NEW p \in Procs, Run(p) PROVE CallsInv'
  <2>1. clock' = clock
    BY <1>6, RunKeepsTime
  <2>2. CallStep
    BY <1>1, <1>2, <1>6, CallsAudio, CallsFlags, CallsHousekeep, CallsBuild, CallsTakeLock,
       CallsEnds DEF Run
  <2> QED BY <1>3, <2>1, <2>2
<1>7. ASSUME NEW p \in Procs, CaptureFails(p) \/ Stop(p) \/ Crash(p) \/ Hup(p)
                                \/ Attributed(p) \/ StreamEnds(p)
      PROVE  CallsInv'
  <2>1. clock' = clock
    BY <1>7 DEF CaptureFails, Stop, Crash, Hup, Attributed, StreamEnds
  <2>2. CallStep
    <3>1. CASE Crash(p)
      <4>1. /\ Goes(p, NoProc) /\ UNCHANGED <<store, log>>
            /\ lost' = (lost \/ Unsaved(p))
        BY <3>1 DEF Crash, Gone
      <4> QED BY <1>1, <4>1, CallsCrash
    <3> QED BY <1>1, <1>7, <3>1, CallsEnds, CallsFlags
  <2> QED BY <1>3, <2>1, <2>2
<1>8. CASE UnitStarts \/ HandStarts
  <2>1. clock' = clock
    BY <1>8, Zenon DEF UnitStarts, HandStarts
  <2> QED BY <1>1, <1>3, <1>8, <2>1, CallsStarts
<1> QED BY <1>4, <1>5, <1>6, <1>7, <1>8 DEF Next

\* No call is known at the start.
LEMMA CallsInit == Init => CallsInv
<1> SUFFICES ASSUME Init PROVE CallsInv OBVIOUS
<1> DEFINE e == [NoProc EXCEPT !.st = "exec"]
<1>1. /\ log = <<>> /\ store = NoCounters /\ lost = FALSE
      /\ \A q \in Procs : proc[q] = NoProc \/ proc[q] = e
  BY DEF Init
<1>2. ASSUME NEW q \in Procs
      PROVE  /\ proc[q].sess = NoSession /\ proc[q].counters = NoCounters
             /\ proc[q].base = NoCounters /\ proc[q].calls = Never
             /\ proc[q].st \notin {"opening", "running"}
  BY <1>1 DEF NoProc
<1>3. \A q \in Procs : RunKept(log, proc[q])
  BY <1>2, NothingHeard
<1>4. Alerted(log, store.last)
  BY <1>1 DEF Alerted, NoCounters
<1>5. ASSUME NEW t \in Nat PROVE CallKept(t)
  <2>1. ~Named(log, t)
    BY <1>1 DEF Named
  <2>2. Never # t
    BY CountersNat DEF Never
  <2>3. \A x : /\ Stored(x) = 0
               /\ \A q \in Procs : Held(q, x) = 0 /\ Based(q, x) = 0
    BY <1>1, <1>2, NothingCounted DEF Stored, Held, Based
  <2> QED BY <1>2, <2>1, <2>2, <2>3 DEF CallKept
<1> QED BY <1>3, <1>4, <1>5 DEF CallsInv

\* Those that h puts at n.
PutAt(S, h, n) == {s \in S : h[s] = n}

\* What happens at most as often at any time happens at most as often.
LEMMA AsOften ==
    ASSUME NEW k \in Nat, NEW A \in SUBSET (1 .. k), NEW B, IsFiniteSet(B),
           NEW f \in [A -> Nat], NEW g \in [B -> Nat],
           \A n \in Nat : Cardinality(PutAt(A, f, n)) <= Cardinality(PutAt(B, g, n))
    PROVE  IsFiniteSet(A) /\ Cardinality(A) <= Cardinality(B)
<1>1. IsFiniteSet(A)
  <2>1. IsFiniteSet(1 .. k)
    BY FS_Interval
  <2> QED BY <2>1, FS_Subset
<1>2. PICK m \in Nat : \A a \in A : f[a] < m
  <2> DEFINE T == {j \in Nat : \E m \in Nat : \A a \in A : a <= j => f[a] < m}
  <2>1. 0 \in T OBVIOUS
  <2>2. ASSUME NEW j \in 1 .. k, j - 1 \in T PROVE j \in T
    <3>1. PICK m \in Nat : \A a \in A : a <= j - 1 => f[a] < m
      BY <2>2
    <3>2. CASE j \in A
      <4> DEFINE n == IF f[j] < m THEN m ELSE f[j] + 1
      <4>1. n \in Nat /\ m <= n /\ f[j] < n
        BY <3>2
      <4> HIDE DEF n
      <4>2. \A a \in A : a <= j => f[a] < n
        BY <3>1, <4>1
      <4> QED BY <4>1, <4>2
    <3>3. CASE j \notin A
      <4>1. \A a \in A : a <= j => a <= j - 1
        <5> SUFFICES ASSUME NEW a \in A, a <= j PROVE a <= j - 1 OBVIOUS
        <5>1. a \in Int /\ j \in Int /\ a # j
          BY <3>3
        <5> QED BY <5>1
      <4> QED BY <3>1, <4>1
    <3> QED BY <3>2, <3>3
  <2> HIDE DEF T
  <2>3. k \in T
    <3>1. 0 .. k \subseteq T
      BY <2>1, <2>2, Induct
    <3> QED BY <3>1
  <2> QED BY <2>3 DEF T
<1> DEFINE AA(n) == {a \in A : f[a] < n}
           BB(n) == {b \in B : g[b] < n}
           A1(n) == {a \in A : f[a] = n}
           B1(n) == {b \in B : g[b] = n}
           T == {n \in Nat : Cardinality(AA(n)) <= Cardinality(BB(n))}
<1>3. ASSUME NEW n \in Nat
      PROVE  /\ IsFiniteSet(AA(n)) /\ IsFiniteSet(A1(n)) /\ IsFiniteSet(BB(n)) /\ IsFiniteSet(B1(n))
             /\ Cardinality(AA(n)) \in Nat /\ Cardinality(A1(n)) \in Nat
             /\ Cardinality(BB(n)) \in Nat /\ Cardinality(B1(n)) \in Nat
  <2>1. /\ AA(n) \in SUBSET A /\ A1(n) \in SUBSET A /\ BB(n) \in SUBSET B /\ B1(n) \in SUBSET B
    OBVIOUS
  <2> HIDE DEF AA, A1, BB, B1
  <2>2. /\ IsFiniteSet(AA(n)) /\ IsFiniteSet(A1(n)) /\ IsFiniteSet(BB(n)) /\ IsFiniteSet(B1(n))
    BY <1>1, <2>1, FS_Subset
  <2> QED BY <2>2, FS_CardinalityType
<1>4. 0 \in T
  <2>1. AA(0) = {} /\ BB(0) = {}
    <3>1. \A a \in A : ~(f[a] < 0) OBVIOUS
    <3>2. \A b \in B : ~(g[b] < 0) OBVIOUS
    <3> QED BY <3>1, <3>2, Zenon
  <2>2. Cardinality(AA(0)) = 0 /\ Cardinality(BB(0)) = 0
    BY <2>1, FS_EmptySet
  <2> QED BY <2>2
<1>5. ASSUME NEW j \in 1 .. m, j - 1 \in T PROVE j \in T
  <2> DEFINE i == j - 1
  <2>1. i \in Nat /\ j \in Nat /\ Cardinality(AA(i)) <= Cardinality(BB(i))
    BY <1>5
  <2>2. AA(j) = AA(i) \cup A1(i) /\ AA(i) \cap A1(i) = {}
    <3>0. \A a \in A : f[a] < j <=> f[a] < i \/ f[a] = i
      <4> SUFFICES ASSUME NEW a \in A PROVE f[a] < j <=> f[a] < i \/ f[a] = i OBVIOUS
      <4> DEFINE y == f[a]
      <4>1. y \in Nat OBVIOUS
      <4> HIDE DEF y
      <4>2. y < j <=> y < i \/ y = i
        BY <4>1
      <4> QED BY <4>2 DEF y
    <3>1. AA(j) = AA(i) \cup A1(i)
      <4> HIDE DEF i
      <4> QED BY <3>0
    <3>2. AA(i) \cap A1(i) = {}
      BY <2>1
    <3> QED BY <3>1, <3>2
  <2>3. BB(j) = BB(i) \cup B1(i) /\ BB(i) \cap B1(i) = {}
    <3>1. BB(j) = BB(i) \cup B1(i) OBVIOUS
    <3>2. BB(i) \cap B1(i) = {}
      BY <2>1
    <3> QED BY <3>1, <3>2
  <2>4. Cardinality(A1(i)) <= Cardinality(B1(i))
    BY <2>1 DEF PutAt
  <2> HIDE DEF AA, A1, BB, B1, i
  <2>5. Cardinality(AA(j)) = Cardinality(AA(i)) + Cardinality(A1(i))
    <3>1. AA(i) \subseteq AA(j) /\ AA(j) \ AA(i) = A1(i) /\ j \in Nat
      BY <2>1, <2>2
    <3>2. IsFiniteSet(AA(j))
      BY <1>3, <3>1
    <3> QED BY <3>1, <3>2, SplitCardinality
  <2>6. Cardinality(BB(j)) = Cardinality(BB(i)) + Cardinality(B1(i))
    <3>1. BB(i) \subseteq BB(j) /\ BB(j) \ BB(i) = B1(i) /\ j \in Nat
      BY <2>1, <2>3
    <3>2. IsFiniteSet(BB(j))
      BY <1>3, <3>1
    <3> QED BY <3>1, <3>2, SplitCardinality
  <2>7. Cardinality(AA(j)) <= Cardinality(BB(j))
    BY <1>3, <2>1, <2>4, <2>5, <2>6
  <2> QED BY <2>7
<1> HIDE DEF T
<1>6. m \in T
  <2>1. 0 .. m \subseteq T
    BY <1>4, <1>5, Induct
  <2> QED BY <2>1
<1>7. AA(m) = A /\ BB(m) \in SUBSET B
  BY <1>2
<1>8. Cardinality(A) <= Cardinality(BB(m)) /\ Cardinality(BB(m)) <= Cardinality(B)
  BY <1>6, <1>7, FS_Subset DEF T
<1>9. Cardinality(A) \in Nat /\ Cardinality(BB(m)) \in Nat /\ Cardinality(B) \in Nat
  <2> HIDE DEF BB, AA
  <2> QED BY <1>1, <1>3, FS_CardinalityType
<1> QED BY <1>1, <1>8, <1>9

\* What the live copies logged of the last day of a kind that is counted is in
\* the record of a copy that is up to date.
LEMMA LoggedIsHeld ==
    ASSUME DaemonInv, EvidenceInv, NEW p \in Procs, Up(p), proc[p].live, Current(p),
           NEW rows, rows = Trimmed(proc[p].counters.events, clock),
           NEW kind \in {"kill", "b_event"}
    PROVE  /\ Cardinality(LoggedToday(kind)) \in Nat /\ Total(rows, kind) \in Nat
           /\ Cardinality(LoggedToday(kind)) <= Total(rows, kind)
<1> DEFINE old == proc[p].counters.events
           A == LoggedToday(kind)
           B == {i \in DOMAIN rows : rows[i].kind = kind}
           f == [i \in A |-> log[i].at]
           g == [i \in B |-> rows[i].at]
           k == Len(log)
<1>1. WorldInv /\ HearInv /\ log \in Seq(Entries) /\ clock \in Nat /\ DayS \in Nat
  BY CountersNat DEF DaemonInv, HearInv, LogInv, WorldInv
<1>2. old \in Seq(TallyRows)
  BY <1>1, ProcNumbers DEF CounterRecords, TallyRows
<1>3. rows \in Seq(TallyRows)
  BY <1>1, <1>2, TrimmedType DEF TallyRows
<1>4. A \in SUBSET (1 .. k) /\ k \in Nat /\ \A i \in A : log[i] \in Entries
  BY <1>1 DEF LoggedToday
<1>5. f \in [A -> Nat]
  BY <1>4 DEF Entries, MatchEntries, OtherEntries
<1>a. \A j \in DOMAIN rows : rows[j] \in [at : Nat, kind : EventKinds]
  <2>1. \A j \in DOMAIN rows : rows[j] \in TallyRows
    BY <1>3
  <2> QED BY <2>1 DEF TallyRows
<1>6. g \in [B -> Nat]
  BY <1>a
<1>7. IsFiniteSet(B)
  <2>1. IsFiniteSet(DOMAIN rows)
    BY <1>3, FS_Interval
  <2> QED BY <2>1, FS_Subset
<1>8. ASSUME NEW n \in Nat
      PROVE  Cardinality({a \in A : f[a] = n}) <= Cardinality({b \in B : g[b] = n})
  <2> DEFINE x == [at |-> n, kind |-> kind]
             As == {a \in A : f[a] = n}
             Bs == {b \in B : g[b] = n}
  <2>1. CASE n >= clock - DayS
    <3>1. x \in Marks /\ Young(x) /\ x.at = n /\ x.kind = kind
      BY <2>1 DEF Marks, EventKinds, Young, Fresh
    <3>2. As = SayingLive(log, x)
      BY <2>1, <3>1 DEF LoggedToday, SayingLive, Saying
    <3>3. Bs = {j \in DOMAIN rows : rows[j] = x}
      <4>1. \A j \in DOMAIN rows : rows[j] = x <=> rows[j].kind = kind /\ rows[j].at = n
        BY <1>a
      <4> HIDE DEF x
      <4> QED BY <4>1
    <3>4. Cardinality(As) = LiveInLog(x) /\ Cardinality(Bs) = Times(rows, x)
      BY <3>2, <3>3 DEF LiveInLog, SaidLive, Times
    <3>5. Times(rows, x) = Held(p, x)
      <4> HIDE DEF x, old
      <4>1. Times(Trimmed(old, clock), x) = Times(old, x)
        BY <1>2, <3>1, TrimmedTimes DEF Young, Fresh
      <4> QED BY <4>1 DEF old, Held
    <3>6. LiveInLog(x) <= Held(p, x)
      <4> HIDE DEF x
      <4>1. ~lost /\ Based(p, x) = Stored(x)
        BY DEF Current, Based, Stored
      <4>2. LiveInLog(x) + Based(p, x) <= Stored(x) + Held(p, x)
        BY <3>1, <4>1 DEF MarkKept, LiveUp, EvidenceInv
      <4>3. Stored(x) \in Nat /\ LiveInLog(x) \in Nat /\ Held(p, x) \in Nat
        BY <1>1, MarkNumbers
      <4> QED BY <4>1, <4>2, <4>3
    <3> QED BY <3>4, <3>5, <3>6
  <2>2. CASE ~(n >= clock - DayS)
    <3>1. As = {}
      BY <2>2 DEF LoggedToday
    <3>2. Cardinality(As) = 0
      BY <3>1, FS_EmptySet
    <3>3. Cardinality(Bs) \in Nat
      <4>1. Bs \in SUBSET B OBVIOUS
      <4> HIDE DEF B, Bs
      <4> QED BY <1>7, <4>1, FS_Subset, FS_CardinalityType
    <3> HIDE DEF As, Bs
    <3>4. Cardinality(As) <= Cardinality(Bs)
      BY <3>2, <3>3
    <3> QED BY <3>4 DEF As, Bs
  <2> QED BY <2>1, <2>2
<1>b. \A n \in Nat : Cardinality(PutAt(A, f, n)) <= Cardinality(PutAt(B, g, n))
  BY <1>8, Zenon DEF PutAt
<1>9. Total(rows, kind) = Cardinality(B)
  BY DEF Total
<1> HIDE DEF A, B, f, g, k
<1>10. IsFiniteSet(A) /\ Cardinality(A) <= Cardinality(B)
  BY <1>4, <1>5, <1>6, <1>7, <1>b, AsOften
<1> QED BY <1>7, <1>9, <1>10, FS_CardinalityType DEF A

\* So are the calls the log names.
LEMMA NamedIsHeld ==
    ASSUME DaemonInv, CallsInv, NEW p \in Procs, Up(p), proc[p].live, Current(p),
           NEW rows, rows = Trimmed(proc[p].counters.events, clock)
    PROVE  /\ Cardinality(CallsNamed) \in Nat /\ Total(rows, "calls") \in Nat
           /\ Cardinality(CallsNamed) <= Total(rows, "calls")
<1> DEFINE old == proc[p].counters.events
           A == CallsNamed
           B == {i \in DOMAIN rows : rows[i].kind = "calls"}
           h == [t \in A |-> CHOOSE j \in DOMAIN rows : rows[j] = CallMark(t)]
<1>1. WorldInv /\ HearInv /\ log \in Seq(Entries) /\ clock \in Nat /\ DayS \in Nat
  BY CountersNat DEF DaemonInv, HearInv, LogInv, WorldInv
<1>2. old \in Seq(TallyRows)
  BY <1>1, ProcNumbers DEF CounterRecords, TallyRows
<1>3. rows \in Seq(TallyRows)
  BY <1>1, <1>2, TrimmedType DEF TallyRows
<1>4. IsFiniteSet(B)
  <2>1. IsFiniteSet(DOMAIN rows)
    BY <1>3, FS_Interval
  <2> QED BY <2>1, FS_Subset
<1>5. ASSUME NEW t \in A
      PROVE  t \in Nat /\ \E j \in DOMAIN rows : rows[j] = CallMark(t)
  <2>1. PICK i \in DOMAIN log : /\ log[i].event = "match" /\ log[i].live /\ log[i].counted = t
                                /\ t >= Max2(0, clock - DayS)
    BY DEF CallsNamed
  <2>2. t \in Int
    BY SMTT(30), <1>1, <2>1 DEF Entries, MatchEntries, OtherEntries
  <2>3. t \in Nat /\ t >= clock - DayS
    BY <1>1, <2>1, <2>2 DEF Max2
  <2>4. Named(log, t)
    BY <2>1 DEF Named
  <2> DEFINE x == CallMark(t)
  <2>5. Young(x) /\ x.at = t
    BY <2>3 DEF Young, Fresh, CallMark
  <2>6. ~lost /\ Based(p, x) = Stored(x) /\ LiveUp(p)
    BY DEF Current, Based, Stored, LiveUp
  <2>7. Held(p, x) >= 1
    <3>1. /\ Stored(x) \in Nat /\ Based(p, x) \in Nat
          /\ Held(p, x) >= 1 \/ Based(p, x) < Stored(x)
      BY <1>1, <2>3, <2>4, <2>5, <2>6, CallNow DEF CallHolds
    <3> HIDE DEF x
    <3> QED BY <2>6, <3>1
  <2> HIDE DEF x
  <2>8. Times(rows, x) = Held(p, x)
    <3> HIDE DEF old
    <3>1. Times(Trimmed(old, clock), x) = Times(old, x)
      BY <1>2, <2>3, <2>5, TrimmedTimes
    <3> QED BY <3>1 DEF old, Held
  <2>9. {j \in DOMAIN rows : rows[j] = x} # {}
    <3>1. Times(rows, x) # 0
      BY <2>7, <2>8
    <3> QED BY <3>1, FS_EmptySet DEF Times
  <2> QED BY <2>3, <2>9 DEF x
<1>6. \A t \in A : h[t] \in B /\ rows[h[t]] = CallMark(t)
  <2> SUFFICES ASSUME NEW t \in A PROVE h[t] \in B /\ rows[h[t]] = CallMark(t) OBVIOUS
  <2>1. h[t] \in DOMAIN rows /\ rows[h[t]] = CallMark(t)
    BY <1>5
  <2> QED BY <2>1 DEF CallMark
<1>7. h \in [A -> B]
  BY <1>6
<1>8. \A s, t \in A : s # t => h[s] # h[t]
  <2> SUFFICES ASSUME NEW s \in A, NEW t \in A, h[s] = h[t] PROVE s = t OBVIOUS
  <2>1. CallMark(s) = CallMark(t)
    BY <1>6
  <2>2. CallMark(s).at = CallMark(t).at
    BY <2>1
  <2> QED BY <2>2 DEF CallMark
<1>9. Total(rows, "calls") = Cardinality(B)
  BY DEF Total
<1> HIDE DEF A, B, h
<1>10. h \in Injection(A, B)
  BY <1>7, <1>8 DEF Injection, IsInjective
<1>11. IsFiniteSet(A) /\ Cardinality(A) <= Cardinality(B)
  BY <1>4, <1>10, FS_Injection
<1>12. Cardinality(A) \in Nat /\ Cardinality(B) \in Nat
  BY <1>4, <1>11, FS_CardinalityType
<1> QED BY <1>9, <1>11, <1>12 DEF A

\* A whole number of times is as much as is asked, and its share.
LEMMA Shares ==
    ASSUME NEW a \in Nat, NEW b \in Nat, a <= b, NEW c \in Nat, c >= 1, NEW limit \in Nat,
           1000 * a >= limit * c
    PROVE  (1000 * b) \div c >= limit
<1> DEFINE n == 1000 * b
           q == n \div c
<1>1. n \in Nat /\ limit * c \in Nat /\ n >= limit * c
  BY SMT
<1> HIDE DEF n
<1>2. q \in Int /\ n < (q + 1) * c
  BY <1>1, SMT
<1> HIDE DEF q
<1>3. ASSUME ~(q >= limit) PROVE FALSE
  <2>1. q + 1 <= limit
    BY <1>2, <1>3
  <2>2. (q + 1) * c <= limit * c
    BY <1>2, <2>1, SMT
  <2> QED BY <1>1, <1>2, <2>2
<1> QED BY <1>3 DEF q, n

\* The calls a rate is of, and a rate that is over a limit.
CallsOf(p) == Max2(Total(proc'[p].counters.events, "calls"), Cardinality(CallsNamed))
OverLimit(p, kind, limit) == 1000 * Cardinality(LoggedToday(kind)) >= limit * CallsOf(p)

\* Nothing that housekeeping looks at is missing, so a customer over a limit is
\* alerted about, or was.
LEMMA HousekeepAlerts ==
    ASSUME DaemonInv, EvidenceInv, CallsInv, NEW p \in Procs, Housekeep(p), proc[p].live,
           Current(p), NEW kind \in {"kill", "b_event"}, NEW limit \in Nat,
           \/ kind = "kill" /\ limit = AlertKillRate
           \/ kind = "b_event" /\ limit = AlertBRate,
           CallsOf(p) >= Max2(1, AlertMinCalls), OverLimit(p, kind, limit)
    PROVE  \E j \in DOMAIN log' : log'[j].event = "alert" /\ clock - log'[j].at < AlertEveryS
<1> DEFINE o == Reloaded(proc[p])
           c == CheckAlerts(o.counters, clock)
           s == IF o.sess.gone THEN NoSession ELSE o.sess
           d == IF "state" \in disk THEN c ELSE o.base
           r == [o EXCEPT !.counters = c, !.base = d, !.sess = s]
           e == Entry(p, "alert")
           rows == Trimmed(proc[p].counters.events, clock)
           last == proc[p].counters.last
           calls == CallsOf(p)
<1>1. WorldInv /\ HearInv /\ Up(p) /\ clock \in Nat /\ mtime \in Nat
  BY DEF DaemonInv, WorldInv, Housekeep
<1>2. /\ o \in Processes /\ o.counters = proc[p].counters
  BY <1>1, ReloadedType DEF HearInv
<1>3. Goes(p, r) /\ log' = IF Alerts(o.counters, clock) THEN Append(log, e) ELSE log
  BY HousekeepGoes, Zenon DEF Housekeep
<1>4. c.events = rows
  BY <1>2 DEF CheckAlerts
<1>5. proc'[p].counters.events = rows
  <2>1. r.counters = c
    <3> HIDE DEF o, c, s, d
    <3> QED BY <1>2 DEF Processes
  <2>2. proc'[p] = r
    <3> HIDE DEF r
    <3> QED BY <1>1, <1>3 DEF Goes, HearInv
  <2> QED BY <1>4, <2>1, <2>2
<1> DEFINE a == Cardinality(LoggedToday(kind))
           b == Total(rows, kind)
           k == Total(rows, "calls")
           m == Cardinality(CallsNamed)
<1>6. a \in Nat /\ b \in Nat /\ a <= b
  <2> HIDE DEF rows
  <2> QED BY <1>1, LoggedIsHeld DEF rows
<1>7. m \in Nat /\ k \in Nat /\ m <= k
  <2> HIDE DEF rows
  <2> QED BY <1>1, NamedIsHeld DEF rows
<1>8. calls = Max2(k, m)
  BY <1>5 DEF CallsOf
<1>9. 1000 * a >= limit * calls /\ calls >= Max2(1, AlertMinCalls)
  BY DEF OverLimit
<1>10. Alerts(o.counters, clock) <=> OverRate(rows) /\ clock - last >= AlertEveryS
  BY <1>2 DEF Alerts
<1>11. AlertEveryS \in Nat /\ AlertEveryS # 0 /\ AlertMinCalls \in Nat
  BY CountersNat
<1> HIDE DEF a, m, o, e, calls
<1>12. OverRate(rows)
  <2>1. k >= 1 /\ k >= AlertMinCalls /\ calls = k
    <3> HIDE DEF k
    <3> QED BY <1>7, <1>8, <1>9, <1>11 DEF Max2
  <2>2. (1000 * b) \div k >= limit
    <3> HIDE DEF b, k
    <3> QED BY <1>6, <1>7, <1>9, <2>1, Shares
  <2>3. Rate(rows, kind) = (1000 * b) \div k
    <3>1. Total(rows, "calls") # 0
      BY <2>1
    <3> HIDE DEF rows
    <3> QED BY <3>1, Zenon DEF Rate
  <2> HIDE DEF rows, b
  <2> QED BY <2>1, <2>2, <2>3 DEF OverRate
<1>13. CASE clock - last >= AlertEveryS
  <2> DEFINE n == Len(log) + 1
  <2>1. log' = Append(log, e)
    BY <1>3, <1>10, <1>12, <1>13
  <2>2. e \in Entries /\ e.event = "alert" /\ e.at = clock
    BY <1>1, ProcNumbers DEF Entry, Entries, OtherEntries, e
  <2>3. log \in Seq(Entries)
    BY <1>1 DEF HearInv, LogInv
  <2>4. n \in DOMAIN log' /\ log'[n] = e
    BY <2>1, <2>2, <2>3
  <2> QED BY <1>1, <1>11, <2>2, <2>4
<1>14. CASE ~(clock - last >= AlertEveryS)
  <2>1. log' = log
    BY <1>3, <1>10, <1>14
  <2>2. Alerted(log, last)
    BY DEF CallsInv, RunKept
  <2>3. last # Never
    BY <1>1, <1>11, <1>14 DEF Never
  <2>4. last \in Int
    BY <1>1, ProcNumbers DEF CounterRecords
  <2>5. PICK i \in DOMAIN log : log[i].event = "alert" /\ log[i].at = last
    BY <2>2, <2>3 DEF Alerted
  <2>6. clock - last < AlertEveryS
    <3> HIDE DEF last
    <3> QED BY <1>1, <1>11, <1>14, <2>4
  <2> QED BY <2>1, <2>5, <2>6
<1> QED BY <1>13, <1>14

\* The inductive invariant of the evidence, the calls and the alerts.
RecordInv == DaemonInv /\ EvidenceInv /\ CallsInv

\* Every step keeps it.
LEMMA RecordInvNext == RecordInv /\ [Next]_vars => RecordInv'
<1> SUFFICES ASSUME RecordInv, [Next]_vars PROVE RecordInv' OBVIOUS
<1>1. DaemonInv /\ UnitInv /\ CallsInv /\ \A x \in Marks : MarkKept(x)
  BY DEF RecordInv, EvidenceInv
<1>2. DaemonInv' /\ UnitInv'
  BY <1>1, DaemonInvNext, UnitStep DEF DaemonInv
<1>3. \A x \in Marks : MarkKept(x)'
  BY <1>1, MarksStep
<1>4. CallsInv'
  BY <1>1, CallsStep
<1> QED BY <1>2, <1>3, <1>4 DEF RecordInv, EvidenceInv

\* After every housekeeping of a copy that is up to date a customer over a limit
\* has been alerted about within the interval: no event and no call the log
\* shows is missing from the record housekeeping looks at, whatever crashed,
\* was stopped or aged, and the time of the last alert it goes by is that of an
\* alert the log shows, across restarts too.
THEOREM OverRateHolds == Spec => OverRateIsAlerted
<1>1. ASSUME RecordInv, [Next]_vars, NEW p \in Procs, Housekeep(p), proc[p].live, Current(p),
             LET calls == Max2(Total(proc'[p].counters.events, "calls"), Cardinality(CallsNamed))
                 Above(kind, limit) == 1000 * Cardinality(LoggedToday(kind)) >= limit * calls
             IN /\ calls >= Max2(1, AlertMinCalls)
                /\ Above("kill", AlertKillRate) \/ Above("b_event", AlertBRate)
      PROVE  \E j \in DOMAIN log' : log'[j].event = "alert" /\ clock - log'[j].at < AlertEveryS
  <2>1. /\ CallsOf(p) >= Max2(1, AlertMinCalls)
        /\ OverLimit(p, "kill", AlertKillRate) \/ OverLimit(p, "b_event", AlertBRate)
    BY <1>1, Zenon DEF OverLimit, CallsOf
  <2>2. DaemonInv /\ EvidenceInv /\ CallsInv /\ AlertKillRate \in Nat /\ AlertBRate \in Nat
    BY <1>1, CountersNat DEF RecordInv
  <2>3. Housekeep(p) /\ proc[p].live /\ Current(p)
    BY <1>1
  <2> QED BY <2>1, <2>2, <2>3, HousekeepAlerts
<1>2. RecordInv /\ [Next]_vars =>
        [\A p \in Procs :
         (/\ Housekeep(p) /\ proc[p].live /\ Current(p)
          /\ LET calls == Max2(Total(proc'[p].counters.events, "calls"), Cardinality(CallsNamed))
                 Above(kind, limit) == 1000 * Cardinality(LoggedToday(kind)) >= limit * calls
             IN /\ calls >= Max2(1, AlertMinCalls)
                /\ Above("kill", AlertKillRate) \/ Above("b_event", AlertBRate))
         => \E j \in DOMAIN log' : log'[j].event = "alert"
                                  /\ clock - log'[j].at < AlertEveryS]_vars
  BY <1>1, Zenon
<1>3. Init => RecordInv
  BY DaemonInvInit, EvidenceInit, CallsInit DEF RecordInv
<1> QED BY <1>2, <1>3, RecordInvNext, PTL DEF Spec, OverRateIsAlerted

-----------------------------------------------------------------------------
(* What is said word for word is reported.                                 *)

\* A finite set has an element that f makes least.
LEMMA HasLeast ==
    ASSUME NEW S, IsFiniteSet(S), S # {}, NEW f, \A x \in S : f[x] \in Int
    PROVE  \E x \in S : \A y \in S : f[x] <= f[y]
<1> DEFINE Below(x) == {y \in S : f[y] < f[x]}
           T == {Below(x) : x \in S}
<1>1. T \in SUBSET (SUBSET S) /\ T # {} OBVIOUS
<1>2. PICK s \in T : \A u \in T : u \subseteq s => u = s
  <2> HIDE DEF T
  <2> QED BY <1>1, LeastSubset
<1>3. PICK x \in S : s = Below(x) OBVIOUS
<1>4. ASSUME NEW y \in S PROVE f[x] <= f[y]
  <2> SUFFICES ASSUME f[y] < f[x] PROVE FALSE OBVIOUS
  <2>1. Below(y) \in T /\ y \in Below(x) /\ y \notin Below(y) OBVIOUS
  <2>2. Below(y) \subseteq Below(x) OBVIOUS
  <2> HIDE DEF Below, T
  <2> QED BY <1>2, <1>3, <2>1, <2>2
<1> QED BY <1>4

\* A list that loads has finitely many phrases.
LEMMA PhrasesFinite ==
    ASSUME NEW n \in LoadedFiles
    PROVE  IsFiniteSet(PhrasesOf[n])
<1> DEFINE f == Files[n]
           size == Len(f)
           P(i) == [tier |-> f[i].tier, category |-> f[i].category, anchor |-> f[i].anchor,
                    tokens |-> f[i].tokens, row |-> i]
           g == [i \in 1 .. size |-> P(i)]
           R == {g[i] : i \in 1 .. size}
<1>1. n \in FileNames /\ PhrasesOf[n] = {P(i) : i \in Spoken(f)}
  BY DEF LoadedFiles, PhrasesOf
<1>2. Spoken(f) \subseteq 1 .. size /\ size \in Nat
  BY <1>1, PhrasesGiven DEF FileNames, Spoken, Rows
<1>3. PhrasesOf[n] \subseteq R
  BY <1>1, <1>2
<1>4. IsFiniteSet(R)
  <2>1. DOMAIN g = 1 .. size OBVIOUS
  <2> HIDE DEF g, size
  <2> QED BY <1>2, <2>1, FiniteRange
<1> QED BY <1>3, <1>4, FS_Subset

\* A span may reach back over any phrase and one more word.
LEMMA SpanReaches ==
    ASSUME NEW n \in LoadedFiles, NEW p \in PhrasesOf[n]
    PROVE  MaxSpan[n] \in Nat /\ MaxSpan[n] >= Len(p.tokens) + 1
<1> DEFINE Ph == PhrasesOf[n]
           g == [q \in Ph |-> Len(q.tokens) + 1]
           f == [q \in Ph |-> 0 - g[q]]
           spans == {4} \cup {Len(q.tokens) + 1 : q \in Ph}
<1>1. \A q \in Ph : Len(q.tokens) \in Nat
  BY PhrasesType DEF Phrases
<1>2. PICK q \in Ph : \A r \in Ph : f[q] <= f[r]
  <2>1. \A r \in Ph : f[r] \in Int
    BY <1>1
  <2> HIDE DEF f
  <2> QED BY <2>1, PhrasesFinite, HasLeast
<1>3. \A r \in Ph : g[r] <= g[q]
  <2>1. \A r \in Ph : g[r] \in Int /\ f[r] = 0 - g[r]
    BY <1>1
  <2> HIDE DEF f, g
  <2> QED BY <1>2, <2>1
<1>4. \A r \in Ph : Len(r.tokens) + 1 <= Len(q.tokens) + 1
  BY <1>3
<1> DEFINE m == IF Len(q.tokens) + 1 >= 4 THEN Len(q.tokens) + 1 ELSE 4
<1>5. m \in spans /\ \A k \in spans : k <= m
  BY <1>1, <1>4
<1>6. n \in FileNames
  BY DEF LoadedFiles
<1>7. MaxSpan[n] = CHOOSE k \in spans : \A j \in spans : j <= k
  BY <1>6, Zenon DEF MaxSpan
<1>8. MaxSpan[n] \in spans /\ \A k \in spans : k <= MaxSpan[n]
  <2> HIDE DEF spans, m
  <2> QED BY <1>5, <1>7
<1> QED BY <1>1, <1>8

\* A phrase is woken by one of its own words.
LEMMA TriggersOwn ==
    ASSUME NEW n \in LoadedFiles, NEW p \in PhrasesOf[n]
    PROVE  \E t \in Triggers(n, p) : t \in TokensOf(p)
<1> DEFINE S == TokensOf(p)
           f == [w \in S |-> Frequency(n, w)]
           D == {w \in S : w \notin Stopwords /\ Frequency(n, w) <= TriggerDfMax}
           Rare(w) == \A x \in S : Frequency(n, w) <= Frequency(n, x)
<1>1. p.tokens \in Seq(Words) \ {<<>>}
  BY PhrasesType DEF Phrases
<1>2. IsFiniteSet(S) /\ S # {}
  <2> DEFINE k == Len(p.tokens)
             g == p.tokens
  <2>1. k \in Nat /\ DOMAIN g = 1 .. k /\ k > 0
    BY <1>1
  <2>2. S = {g[i] : i \in 1 .. k}
    BY <2>1 DEF TokensOf
  <2> HIDE DEF S, k, g
  <2>3. IsFiniteSet({g[i] : i \in 1 .. k})
    BY <2>1, FiniteRange
  <2>4. g[1] \in {g[i] : i \in 1 .. k}
    BY <2>1
  <2> QED BY <2>2, <2>3, <2>4
<1>3. \A w \in S : Frequency(n, w) \in Nat
  <2> SUFFICES ASSUME NEW w \in S PROVE Frequency(n, w) \in Nat OBVIOUS
  <2>1. IsFiniteSet({q \in PhrasesOf[n] : w \in TokensOf(q)})
    BY PhrasesFinite, FS_Subset
  <2> QED BY <2>1, FS_CardinalityType DEF Frequency
<1>4. PICK w \in S : \A x \in S : f[w] <= f[x]
  <2>1. \A x \in S : f[x] \in Int
    BY <1>3
  <2> HIDE DEF f, S
  <2> QED BY <1>2, <2>1, HasLeast
<1>5. Rare(w)
  BY <1>4
<1>6. (CHOOSE v \in S : Rare(v)) \in S
  <2> HIDE DEF Rare, S
  <2> QED BY <1>4, <1>5
<1>7. Triggers(n, p) = IF D # {} THEN D ELSE {CHOOSE v \in S : Rare(v)}
  BY Zenon DEF Triggers
<1> QED
  <2> HIDE DEF Rare
  <2> QED BY <1>6, <1>7

\* A phrase said word for word up to the new words is woken.
LEMMA SaidIsWoken ==
    ASSUME NEW n \in LoadedFiles, NEW tokens, Heeded(tokens), NEW since \in Nat,
           NEW p \in PhrasesOf[n], NEW s \in Nat, s + Len(p.tokens) <= Len(tokens),
           s + Len(p.tokens) > since,
           SubSeq(tokens, s + 1, s + Len(p.tokens)) = p.tokens
    PROVE  p \in Woken(n, tokens, since)
<1>1. p.tokens \in Seq(Words) /\ tokens \in Seq(Words) /\ Len(tokens) \in Nat
  BY PhrasesType DEF Phrases, Heeded
<1>2. PICK t \in Triggers(n, p) : t \in TokensOf(p)
  BY TriggersOwn
<1>3. PICK l \in 1 .. Len(p.tokens) : t = p.tokens[l]
  BY <1>1, <1>2 DEF TokensOf
<1> DEFINE i == s + l
<1>4. i \in 1 .. Len(tokens) /\ tokens[i] = t
  <2>1. SubSeq(tokens, s + 1, s + Len(p.tokens))[l] = tokens[s + l]
    BY <1>1
  <2> QED BY <1>1, <1>3, <2>1
<1>5. MaxSpan[n] \in Nat /\ MaxSpan[n] >= Len(p.tokens) + 1
  BY SpanReaches
<1>6. i > since - MaxSpan[n]
  BY <1>1, <1>5
<1>7. p \in Index[n][tokens[i]]
  <2>1. tokens[i] \in Words /\ n \in FileNames
    BY <1>1, <1>4 DEF LoadedFiles
  <2>2. \E v \in Triggers(n, p) :
          v = tokens[i] \/ (Sound[tokens[i]] # <<>> /\ Sound[tokens[i]] = Sound[v])
    BY <1>4
  <2> QED BY <2>1, <2>2, Zenon DEF Index
<1> QED BY <1>1, <1>4, <1>6, <1>7 DEF Woken

\* Division by a positive number.
LEMMA Quotient ==
    ASSUME NEW a \in Int, NEW b \in Int, b > 0, NEW c \in Int
    PROVE  /\ a = c * b => a \div b = c
           /\ a <= c * b => a \div b <= c
  OBVIOUS

\* A score is at most that of the phrase itself.
LEMMA ScoreSeqBound ==
    ASSUME NEW p \in Phrases, NEW span \in Seq(Words)
    PROVE  ScoreSeq(p, span) <= Exact /\ ScoreSeq(p, p.tokens) = Exact
<1> DEFINE target == Joined(p.tokens)
           size == Len(target)
           budget == (size + EditRatio - 1) \div EditRatio
           d == Levenshtein(target, Joined(span), budget)
           z == Levenshtein(target, target, budget)
<1>1. target \in Seq(Letters) /\ target # <<>> /\ Joined(span) \in Seq(Letters)
  BY JoinedIsText DEF Phrases
<1>2. size \in Nat /\ size > 0 /\ Len(Joined(span)) \in Nat
  <2> HIDE DEF target
  <2> QED BY <1>1
<1>3. EditRatio \in Nat /\ EditRatio > 0
  BY ThresholdsNat
<1>4. budget \in Nat
  <2> HIDE DEF target, size
  <2> QED BY <1>2, <1>3
<1>5. d \in Nat
  <2> DEFINE said == Joined(span)
  <2>1. target \in Seq(Letters) /\ said \in Seq(Letters)
    BY <1>1
  <2> HIDE DEF budget, target, said
  <2>2. EditDistance(target, said) \in Nat
        /\ Levenshtein(target, said, budget) = Min2(EditDistance(target, said), Far(budget))
    BY <1>4, <2>1, LevenshteinIsDistance
  <2>3. Levenshtein(target, said, budget) \in Nat
    BY <1>4, <2>2 DEF Min2, Far
  <2> QED BY <2>3 DEF said
<1>6. z = 0
  <2> HIDE DEF target, budget
  <2> QED BY Zenon DEF Levenshtein
<1>7. ScoreSeq(p, span) = IF d > budget THEN 0 ELSE (Exact * (size - d)) \div size
  BY DEF ScoreSeq
<1>8. ScoreSeq(p, p.tokens) = IF z > budget THEN 0 ELSE (Exact * (size - z)) \div size
  BY DEF ScoreSeq
<1> HIDE DEF d, z, budget, size
<1>9. (Exact * (size - d)) \div size <= Exact
  <2>1. Exact * (size - d) <= Exact * size /\ Exact * (size - d) \in Int /\ Exact \in Int
    BY <1>2, <1>5 DEF Exact
  <2> HIDE DEF Exact
  <2> QED BY <1>2, <2>1, Quotient
<1>10. (Exact * (size - z)) \div size = Exact
  <2>1. Exact * (size - z) = Exact * size /\ Exact * (size - z) \in Int /\ Exact \in Int
    BY <1>2, <1>6 DEF Exact
  <2> HIDE DEF Exact
  <2> QED BY <1>2, <2>1, Quotient
<1> QED BY <1>4, <1>6, <1>7, <1>8, <1>9, <1>10 DEF Exact

\* So is that against any span the run may try.
LEMMA ScoreBound ==
    ASSUME NEW p \in AllPhrases, p \in Phrases, NEW span \in Spans(p), span \in Seq(Words)
    PROVE  Score[p][span] <= Exact /\ (span = p.tokens => Score[p][span] = Exact)
<1>1. ReviewFor(p) \in Int
  BY ThresholdsNat DEF ReviewFor
<1>2. ScoreSeq(p, span) \in Int /\ ScoreSeq(p, span) <= Exact /\ ScoreSeq(p, p.tokens) = Exact
  BY ScoreSeqType, ScoreSeqBound
<1>3. ScoreBrand(p, span) <= Exact /\ (span = p.tokens => ScoreBrand(p, span) = Exact)
  <2>1. Min2(ScoreSeq(p, span), ReviewFor(p)) <= Exact
    BY <1>1, <1>2 DEF Min2, Exact
  <2> QED BY <2>1 DEF ScoreBrand, Exact
<1> QED BY <1>2, <1>3 DEF Score

\* As many words heard one after the other as the phrase may be read in are
\* one of its spans.
LEMMA HeardIsSpan ==
    ASSUME NEW n \in LoadedFiles, NEW p \in PhrasesOf[n], NEW tokens, Heeded(tokens),
           NEW w \in Widths(p), NEW s \in Nat, s + w <= Len(tokens)
    PROVE  LET span == SubSeq(tokens, s + 1, s + w) IN
           /\ span \in Spans(p) /\ span \in Seq(Words)
           /\ w \in Nat /\ w >= 1 /\ p \in Phrases /\ p \in AllPhrases
<1> DEFINE span == SubSeq(tokens, s + 1, s + w)
<1>1. p \in Phrases /\ p \in AllPhrases /\ Len(p.tokens) \in Nat
  BY PhrasesType DEF AllPhrases, LoadedFiles, Phrases
<1>2. PICK V \in Vocabularies : tokens \in Seq(V)
  BY DEF Heeded
<1>3. tokens \in Seq(Words) /\ Len(tokens) \in Nat
  BY DEF Heeded
<1>4. w \in Nat /\ w >= 1
  BY <1>1, ThresholdsNat DEF Widths, Max2
<1>5. span \in [1 .. w -> V]
  <2>1. span = [i \in 1 .. w |-> tokens[s + i]]
    BY <1>2, <1>3, <1>4
  <2>2. \A i \in 1 .. w : tokens[s + i] \in V
    BY <1>2, <1>4
  <2> QED BY <2>1, <2>2
<1>6. span \in Spans(p)
  <2> DEFINE A == [1 .. w -> V]
             W == Widths(p)
  <2>1. w \in W /\ V \in Vocabularies /\ span \in A
    BY <1>2, <1>5
  <2> HIDE DEF span
  <2>2. A \in {[1 .. k -> U] : k \in W, U \in Vocabularies}
    <3> HIDE DEF W
    <3> QED BY <2>1, SMT
  <2>3. Spans(p) = UNION {[1 .. k -> U] : k \in W, U \in Vocabularies}
    BY DEF Spans
  <2> HIDE DEF A, W
  <2> QED BY <2>1, <2>2, <2>3
<1>7. span \in Seq(Words)
  BY <1>3, <1>4
<1> QED BY <1>1, <1>4, <1>6, <1>7

\* A reading is a place and a score, at most that of the phrase itself.
LEMMA ReadingBound ==
    ASSUME NEW n \in LoadedFiles, NEW p \in PhrasesOf[n], NEW tokens, Heeded(tokens),
           NEW since \in Nat, NEW r \in Readings(p, tokens, since)
    PROVE  r.score <= Exact /\ r = [from |-> r.from, to |-> r.to, score |-> r.score]
<1>0. PICK w \in Widths(p) :
          r \in {[from |-> s, to |-> s + w, score |-> Score[p][SubSeq(tokens, s + 1, s + w)]] :
                   s \in Max2(0, since - w + 1) .. Len(tokens) - w}
  BY DEF Readings
<1>1. PICK s \in Max2(0, since - w + 1) .. Len(tokens) - w :
          r = [from |-> s, to |-> s + w, score |-> Score[p][SubSeq(tokens, s + 1, s + w)]]
  BY <1>0
<1>2. Len(p.tokens) \in Nat /\ Len(tokens) \in Nat
  BY PhrasesType DEF Phrases, Heeded
<1>3. w \in Nat
  BY <1>2, ThresholdsNat DEF Widths, Max2
<1>4. s \in Nat /\ s + w <= Len(tokens)
  BY <1>2, <1>3 DEF Max2
<1> DEFINE span == SubSeq(tokens, s + 1, s + w)
<1>5. /\ span \in Spans(p) /\ span \in Seq(Words) /\ p \in Phrases /\ p \in AllPhrases
  BY <1>4, HeardIsSpan
<1>6. Score[p][span] <= Exact
  <2> HIDE DEF span
  <2> QED BY <1>5, ScoreBound
<1> QED BY <1>1, <1>6

\* A phrase said word for word has a reading there, of the best score.
LEMMA SaidIsRead ==
    ASSUME NEW n \in LoadedFiles, NEW tokens, Heeded(tokens), NEW since \in Nat,
           NEW p \in PhrasesOf[n], Len(p.tokens) \in Widths(p),
           NEW s \in Nat, s + Len(p.tokens) <= Len(tokens), s + Len(p.tokens) > since,
           SubSeq(tokens, s + 1, s + Len(p.tokens)) = p.tokens
    PROVE  [from |-> s, to |-> s + Len(p.tokens), score |-> Exact]
               \in Readings(p, tokens, since)
<1> DEFINE w == Len(p.tokens)
           span == SubSeq(tokens, s + 1, s + w)
<1>1. /\ span \in Spans(p) /\ span \in Seq(Words) /\ p \in Phrases /\ p \in AllPhrases
      /\ w \in Nat /\ w >= 1
  BY HeardIsSpan
<1>2. Score[p][span] = Exact
  <2>1. span = p.tokens OBVIOUS
  <2> HIDE DEF span
  <2> QED BY <1>1, <2>1, ScoreBound
<1>3. Len(tokens) \in Nat /\ s + w <= Len(tokens) /\ s + w > since
  BY DEF Heeded
<1> HIDE DEF w
<1>4. s \in Max2(0, since - w + 1) .. Len(tokens) - w
  BY <1>1, <1>3 DEF Max2
<1> DEFINE R(k) == {[from |-> i, to |-> i + k, score |-> Score[p][SubSeq(tokens, i + 1, i + k)]] :
                i \in Max2(0, since - k + 1) .. Len(tokens) - k}
<1>5. [from |-> s, to |-> s + w, score |-> Exact] \in R(w)
  BY <1>2, <1>4
<1>6. w \in Widths(p)
  BY DEF w
<1>7. Readings(p, tokens, since) = UNION {R(k) : k \in Widths(p)}
  BY DEF Readings
<1> HIDE DEF R
<1> QED BY <1>5, <1>6, <1>7 DEF w

\* A list that gives each rank what has it has everything, in order.
LEMMA SortedList ==
    ASSUME NEW S, IsFiniteSet(S), NEW R,
           \A x \in S : <<x, x>> \notin R,
           \A x, y \in S : x # y => <<x, y>> \in R \/ <<y, x>> \in R,
           \A x, y, z \in S : <<x, y>> \in R /\ <<y, z>> \in R => <<x, z>> \in R,
           NEW f \in [1 .. Cardinality(S) -> S],
           \A i \in 1 .. Cardinality(S) :
               i = 1 + Cardinality({y \in S : <<y, f[i]>> \in R})
    PROVE  /\ \A x \in S : \E i \in 1 .. Cardinality(S) : f[i] = x
           /\ \A i, j \in 1 .. Cardinality(S) : i < j => <<f[i], f[j]>> \in R
<1> DEFINE N == Cardinality(S)
           T == 1 .. N
           Pred(x) == {y \in S : <<y, x>> \in R}
<1>1. N \in Nat /\ IsFiniteSet(T) /\ Cardinality(T) = N
  BY FS_CardinalityType, FS_Interval
<1>2. \A x \in S : IsFiniteSet(Pred(x)) /\ Cardinality(Pred(x)) \in Nat
  <2> SUFFICES ASSUME NEW x \in S
               PROVE  IsFiniteSet(Pred(x)) /\ Cardinality(Pred(x)) \in Nat
    OBVIOUS
  <2>1. Pred(x) \in SUBSET S OBVIOUS
  <2> HIDE DEF Pred
  <2> QED BY <2>1, FS_Subset, FS_CardinalityType
<1>3. \A i \in T : f[i] \in S /\ i = 1 + Cardinality(Pred(f[i])) OBVIOUS
<1>4. f \in Injection(T, S)
  <2>1. \A i, j \in T : f[i] = f[j] => i = j
    <3> HIDE DEF T, Pred
    <3> QED BY <1>3
  <2> HIDE DEF T
  <2> QED BY <2>1 DEF Injection, IsInjective, T
<1>5. f \in Surjection(T, S)
  <2> HIDE DEF T
  <2> QED BY <1>1, <1>4, FS_Injection DEF N
<1>6. \A x \in S : \E i \in T : f[i] = x
  <2> HIDE DEF T
  <2> QED BY <1>5 DEF Surjection
<1>7. ASSUME NEW i \in T, NEW j \in T, i < j PROVE <<f[i], f[j]>> \in R
  <2> SUFFICES ASSUME <<f[i], f[j]>> \notin R PROVE FALSE OBVIOUS
  <2> DEFINE x == f[i]
             y == f[j]
             a == Cardinality(Pred(x))
             b == Cardinality(Pred(y))
  <2>1. x \in S /\ y \in S /\ i = 1 + a /\ j = 1 + b /\ a \in Nat /\ b \in Nat
    BY <1>2, <1>3
  <2>2. x # y
    <3> HIDE DEF Pred
    <3>1. x = y => a = b OBVIOUS
    <3> HIDE DEF x, y, a, b
    <3> QED BY <1>7, <2>1, <3>1
  <2>3. <<y, x>> \in R
    BY <2>1, <2>2
  <2>4. Pred(y) \in SUBSET Pred(x) /\ IsFiniteSet(Pred(x))
    <3>1. \A z \in S : <<z, y>> \in R => <<z, x>> \in R
      BY <2>1, <2>3
    <3> HIDE DEF x, y
    <3> QED BY <1>2, <2>1, <3>1
  <2>5. b <= a
    <3> HIDE DEF x, y, Pred
    <3> QED BY <2>4, FS_Subset
  <2> HIDE DEF a, b
  <2> QED BY <1>7, <2>1, <2>5
<1> QED BY <1>6, <1>7 DEF T, N

\* The matches in order of rank are all there, the better ones first.
LEMMA RankedHasAll ==
    ASSUME NEW n \in LoadedFiles, NEW tokens, Heeded(tokens),
           NEW S \in SUBSET Matches(n, tokens)
    PROVE  LET f == InOrder(S, Outranks) IN
           /\ \A x \in S : \E i \in 1 .. Cardinality(S) : f[i] = x
           /\ \A i, j \in 1 .. Cardinality(S) : i < j => Outranks(f[i], f[j])
<1> DEFINE R == {z \in S \X S : Outranks(z[1], z[2])}
           Rank(x, i) == i = 1 + Cardinality({y \in S : Outranks(y, x)})
           At(i) == CHOOSE x \in S : Rank(x, i)
           N == Cardinality(S)
           f == InOrder(S, Outranks)
<1>1. IsFiniteSet(S) /\ Cardinality(S) \in Nat
  BY MatchesFinite, FS_Subset, FS_CardinalityType
<1>2. \A x, y \in S : <<x, y>> \in R <=> Outranks(x, y) OBVIOUS
<1>3. /\ \A x \in S : <<x, x>> \notin R
      /\ \A x, y \in S : x # y => <<x, y>> \in R \/ <<y, x>> \in R
      /\ \A x, y, z \in S : <<x, y>> \in R /\ <<y, z>> \in R => <<x, z>> \in R
  <2> HIDE DEF R
  <2> QED BY <1>2, OutranksOrders
<1>4. \A x \in S : {y \in S : <<y, x>> \in R} = {y \in S : Outranks(y, x)}
  BY <1>2
<1> HIDE DEF R
<1>5. \A i \in 1 .. N : \E x \in S : i = 1 + Cardinality({y \in S : <<y, x>> \in R})
  BY <1>1, <1>3, RanksAreTaken
<1>6. \A i \in 1 .. N : \E x \in S : Rank(x, i)
  BY <1>4, <1>5
<1>7. f = [i \in 1 .. N |-> At(i)]
  BY DEF InOrder
<1>8. f \in [1 .. N -> S]
  BY RankedType
<1>9. \A i \in 1 .. N : Rank(f[i], i)
  <2> HIDE DEF Rank, f, N
  <2> QED BY <1>6, <1>7
<1>10. \A i \in 1 .. N : i = 1 + Cardinality({y \in S : <<y, f[i]>> \in R})
  <2> HIDE DEF f, N
  <2> QED BY <1>4, <1>8, <1>9
<1> HIDE DEF f
<1>11. /\ \A x \in S : \E i \in 1 .. N : f[i] = x
       /\ \A i, j \in 1 .. N : i < j => <<f[i], f[j]>> \in R
  BY <1>1, <1>3, <1>8, <1>10, SortedList
<1> QED BY <1>2, <1>8, <1>11 DEF f

\* So are those in the order they were said.
LEMMA ReportedHasAll ==
    ASSUME NEW n \in LoadedFiles, NEW tokens, Heeded(tokens),
           NEW S \in SUBSET Matches(n, tokens)
    PROVE  LET f == InOrder(S, Before) IN
           \A x \in S : \E i \in 1 .. Cardinality(S) : f[i] = x
<1> DEFINE R == {z \in S \X S : Before(z[1], z[2])}
           Rank(x, i) == i = 1 + Cardinality({y \in S : Before(y, x)})
           At(i) == CHOOSE x \in S : Rank(x, i)
           N == Cardinality(S)
           f == InOrder(S, Before)
<1>1. IsFiniteSet(S) /\ Cardinality(S) \in Nat
  BY MatchesFinite, FS_Subset, FS_CardinalityType
<1>2. \A x, y \in S : <<x, y>> \in R <=> Before(x, y) OBVIOUS
<1>3. /\ \A x \in S : <<x, x>> \notin R
      /\ \A x, y \in S : x # y => <<x, y>> \in R \/ <<y, x>> \in R
      /\ \A x, y, z \in S : <<x, y>> \in R /\ <<y, z>> \in R => <<x, z>> \in R
  <2> HIDE DEF R
  <2>1. \A x \in S : x.from \in Int
    BY DEF Matches
  <2> QED BY <1>2, <2>1, OutranksOrders DEF Before
<1>4. \A x \in S : {y \in S : <<y, x>> \in R} = {y \in S : Before(y, x)}
  BY <1>2
<1> HIDE DEF R
<1>5. \A i \in 1 .. N : \E x \in S : i = 1 + Cardinality({y \in S : <<y, x>> \in R})
  BY <1>1, <1>3, RanksAreTaken
<1>6. \A i \in 1 .. N : \E x \in S : Rank(x, i)
  BY <1>4, <1>5
<1>7. f = [i \in 1 .. N |-> At(i)]
  BY DEF InOrder
<1>8. f \in [1 .. N -> S]
  BY ReportedOrderType
<1>9. \A i \in 1 .. N : Rank(f[i], i)
  <2> HIDE DEF Rank, f, N
  <2> QED BY <1>6, <1>7
<1>10. \A i \in 1 .. N : i = 1 + Cardinality({y \in S : <<y, f[i]>> \in R})
  <2> HIDE DEF f, N
  <2> QED BY <1>4, <1>8, <1>9
<1> HIDE DEF f
<1>11. /\ \A x \in S : \E i \in 1 .. N : f[i] = x
       /\ \A i, j \in 1 .. N : i < j => <<f[i], f[j]>> \in R
  BY <1>1, <1>3, <1>8, <1>10, SortedList
<1> QED BY <1>11 DEF f

\* A match that nothing better overlaps in its category is chosen.
LEMMA UnmatchedIsChosen ==
    ASSUME NEW n \in LoadedFiles, NEW tokens, Heeded(tokens),
           NEW S \in SUBSET Matches(n, tokens), NEW m \in S,
           \A o \in S : /\ Outranks(o, m) /\ Overlap(o, m)
                        => o.phrase.category # m.phrase.category
    PROVE  m \in Chosen(S)
<1> DEFINE ranked == InOrder(S, Outranks)
           N == Len(ranked)
           Step(k, x) == IF \E o \in x : /\ Overlap(o, ranked[k])
                                         /\ o.phrase.category = ranked[k].phrase.category
                         THEN x ELSE x \cup {ranked[k]}
           Solves(f) == f = [k \in 0 .. N |-> IF k = 0 THEN {} ELSE Step(k, f[k - 1])]
           pick == CHOOSE f : Solves(f)
           U == SUBSET S
           e == {}
           g == [y \in (1 .. N) \X U |-> Step(y[1], y[2])]
<1>1. N \in Nat /\ N = Cardinality(S) /\ ranked \in [1 .. N -> S]
  BY RankedType
<1>0. /\ \A x \in S : \E i \in 1 .. N : ranked[i] = x
      /\ \A i, j \in 1 .. N : i < j => Outranks(ranked[i], ranked[j])
  <2>1. /\ \A x \in S : \E i \in 1 .. Cardinality(S) : ranked[i] = x
        /\ \A i, j \in 1 .. Cardinality(S) : i < j => Outranks(ranked[i], ranked[j])
    BY RankedHasAll
  <2> HIDE DEF ranked, N
  <2> QED BY <1>1, <2>1
<1> HIDE DEF ranked, N
<1>2. ASSUME NEW k \in 1 .. N, NEW x \in U PROVE Step(k, x) \in U
  BY <1>1
<1>3. e \in U OBVIOUS
<1>12. ASSUME NEW k \in 1 .. N, NEW x PROVE x \subseteq Step(k, x) /\ Step(k, x) \subseteq x \cup {ranked[k]}
  OBVIOUS
<1>13. ASSUME NEW k \in 1 .. N, NEW x, ranked[k] = m,
              \A o \in x : \E j \in 1 .. k - 1 : o = ranked[j]
       PROVE  m \in Step(k, x)
  <2> SUFFICES ASSUME NEW o \in x, Overlap(o, m), o.phrase.category = m.phrase.category
               PROVE  FALSE
    BY <1>13
  <2>1. PICK j \in 1 .. k - 1 : o = ranked[j]
    BY <1>13
  <2>2. j \in 1 .. N /\ j < k
    BY <1>1
  <2> QED BY <1>0, <1>1, <1>13, <2>1, <2>2
<1> HIDE DEF Step
<1>4. g \in [(1 .. N) \X U -> U]
  <2> HIDE DEF U
  <2> QED BY <1>2
<1>5. PICK h : Recursion(h, N, U, e, g)
  <2> HIDE DEF U, e, g
  <2> QED BY <1>1, <1>3, <1>4, RecExists
<1> HIDE DEF U
<1>6. \A k \in 1 .. N : h[k] = Step(k, h[k - 1])
  <2> SUFFICES ASSUME NEW k \in 1 .. N PROVE h[k] = Step(k, h[k - 1]) OBVIOUS
  <2>1. k - 1 \in 0 .. N
    BY <1>1
  <2>2. h[k - 1] \in U /\ h[k] = g[<<k, h[k - 1]>>]
    <3> HIDE DEF g
    <3> QED BY <1>5, <2>1 DEF Recursion
  <2> QED BY <2>2
<1>7. Solves(h)
  BY <1>1, <1>5, <1>6 DEF Recursion
<1>8. Solves(pick)
  BY <1>7
<1> HIDE DEF pick
<1>14. /\ 0 \in 0 .. N
       /\ \A k \in 1 .. N : k \in 0 .. N /\ k - 1 \in 0 .. N /\ k # 0
  BY <1>1
<1>15. pick[0] = e /\ \A k \in 1 .. N : pick[k] = Step(k, pick[k - 1])
  BY <1>8, <1>14
<1> HIDE DEF Solves
<1>16. PICK i \in 1 .. N : ranked[i] = m
  BY <1>0
<1>9. m \in pick[N]
  <2> DEFINE Early(k) == \A o \in pick[k] : \E j \in 1 .. k : o = ranked[j]
             T == {k \in 0 .. N : Early(k) /\ (i <= k => m \in pick[k])}
  <2>1. 0 \in T
    <3>1. Early(0) /\ ~(i <= 0)
      BY <1>1, <1>15
    <3> QED BY <1>14, <3>1
  <2>2. ASSUME NEW k \in 1 .. N, k - 1 \in T PROVE k \in T
    <3>1. Early(k - 1) /\ (i <= k - 1 => m \in pick[k - 1])
      BY <2>2
    <3>2. Early(k)
      <4> SUFFICES ASSUME NEW o \in pick[k] PROVE \E j \in 1 .. k : o = ranked[j]
        OBVIOUS
      <4>1. o \in pick[k - 1] \/ o = ranked[k]
        BY <1>12, <1>15
      <4>2. CASE o = ranked[k]
        BY <1>1, <4>2
      <4>3. CASE o \in pick[k - 1]
        <5>1. PICK j \in 1 .. k - 1 : o = ranked[j]
          BY <3>1, <4>3
        <5>2. j \in 1 .. k
          BY <1>1
        <5> QED BY <5>1, <5>2
      <4> QED BY <4>1, <4>2, <4>3
    <3>3. i <= k => m \in pick[k]
      <4>1. CASE i = k
        BY <1>13, <1>15, <1>16, <3>1, <4>1
      <4>2. CASE i # k
        <5>1. i <= k => i <= k - 1
          BY <1>1, <4>2
        <5>2. pick[k - 1] \subseteq pick[k]
          BY <1>12, <1>15
        <5> QED BY <3>1, <5>1, <5>2
      <4> QED BY <4>1, <4>2
    <3> HIDE DEF Early
    <3> QED BY <1>14, <3>2, <3>3
  <2> HIDE DEF T
  <2>3. 0 .. N \subseteq T
    BY <1>1, <2>1, <2>2, Induct
  <2>4. N \in T /\ i <= N
    BY <1>1, <2>3
  <2> QED BY <2>4 DEF T
<1>10. Chosen(S) = pick[N]
  BY Zenon DEF Chosen, pick, N, Step, ranked, Solves
<1> QED BY <1>9, <1>10

\* Match m is phrase p as read in r.
ReadAs(m, p, r) ==
    m = [phrase |-> p, tier |-> Tier(p, r.score), score |-> r.score,
         from |-> r.from, to |-> r.to]

\* A match before overlap suppression is a reading of a phrase, and no other
\* reading of the phrase is better.
LEMMA RawIsRead ==
    ASSUME NEW n \in LoadedFiles, NEW tokens, Heeded(tokens), NEW since \in Nat,
           NEW m \in Raw(n, tokens, since)
    PROVE  \E p \in PhrasesOf[n] : \E r \in Readings(p, tokens, since) :
              /\ ReadAs(m, p, r)
              /\ \A q \in Readings(p, tokens, since) : q.score > 0 => Better(r, q)
<1>1. PICK p \in Woken(n, tokens, since) : m \in MatchesOf(p, tokens, since)
  BY DEF Raw
<1>2. p \in PhrasesOf[n]
  <2>1. PICK i \in DOMAIN tokens : p \in Index[n][tokens[i]]
    BY <1>1 DEF Woken
  <2>2. tokens[i] \in Words /\ n \in FileNames
    BY DEF Heeded, LoadedFiles
  <2> QED BY <2>1, <2>2 DEF Index
<1>3. PICK r \in Readings(p, tokens, since) :
          /\ ReadAs(m, p, r)
          /\ \A q \in Readings(p, tokens, since) : q.score > 0 => Better(r, q)
  BY <1>1 DEF MatchesOf, ReadAs
<1> QED BY <1>2, <1>3

\* A Tier A phrase said word for word up to the new words, read nowhere else,
\* meeting no exclusion and none as good of its category, is chosen, and it is
\* the one match of the phrase.
LEMMA SaidIsChosen ==
    ASSUME NEW n \in LoadedFiles, NEW tokens, Heeded(tokens), NEW since \in Nat,
           NEW x \in PhrasesOf[n], x.tier = "A", Fireable(x),
           NEW s \in Nat, s + Len(x.tokens) <= Len(tokens), s + Len(x.tokens) > since,
           SubSeq(tokens, s + 1, s + Len(x.tokens)) = x.tokens,
           \A r \in Readings(x, tokens, since) :
               r.score = Exact => r.from = s /\ r.to = s + Len(x.tokens),
           \A y \in PhrasesOf[n] : y.tier = "X" => \A r \in Readings(y, tokens, since) :
               r.score >= KillFor(y) => ~Meet(r, s, s + Len(x.tokens)),
           \A y \in PhrasesOf[n] \ {x} : y.category = x.category =>
               \A r \in Readings(y, tokens, since) :
                   r.score = Exact /\ r.to - r.from >= Len(x.tokens)
                       => ~Meet(r, s, s + Len(x.tokens))
    PROVE  LET raw == Raw(n, tokens, since)
               m == [phrase |-> x, tier |-> "A", score |-> Exact,
                     from |-> s, to |-> s + Len(x.tokens)]
           IN m \in Chosen(Kept(raw)) /\ \A o \in raw : o.phrase = x => o = m
<1> DEFINE L == Len(x.tokens)
           to == s + L
           raw == Raw(n, tokens, since)
           m == [phrase |-> x, tier |-> "A", score |-> Exact, from |-> s, to |-> to]
           r0 == [from |-> s, to |-> to, score |-> Exact]
           Rs == Readings(x, tokens, since)
<1>1. x \in Phrases /\ L \in Nat /\ L > 0 /\ to \in Nat /\ to - s = L
  BY PhrasesType DEF Phrases
<1>2. L \in Widths(x) /\ KillFor(x) <= Exact /\ ReviewFor(x) <= Exact
  BY DEF Fireable
<1>3. r0 \in Rs
  BY <1>2, SaidIsRead
<1>4. x \in Woken(n, tokens, since)
  BY SaidIsWoken
<1>5. /\ r0.from = s /\ r0.to = to /\ r0.score = Exact
      /\ m.phrase = x /\ m.tier = "A" /\ m.score = Exact /\ m.from = s /\ m.to = to
  OBVIOUS
<1>6. \A q \in Rs : /\ q.score \in Int /\ q.score <= Exact
                    /\ q.score = Exact => q.from = s /\ q.to = to
  BY ReadingsType, ReadingBound
<1>7. \A q \in Rs : Better(r0, q)
  <2> HIDE DEF Rs, r0, to
  <2> QED BY <1>1, <1>5, <1>6 DEF Better, Exact
<1>8. Tier(x, Exact) = "A" /\ "A" # "none"
  <2>1. Exact >= KillFor(x) /\ ~(Exact < KillFor(x))
    BY SMTT(30), <1>2, ThresholdsNat DEF KillFor, Exact
  <2> QED BY <2>1, Zenon DEF Tier
<1>9. m \in raw
  <2> DEFINE readings == {r \in Rs : r.score > 0}
             best == {r \in readings : \A q \in readings : Better(r, q)}
             good == {b \in best : b.score >= ReviewFor(x) /\ Tier(x, b.score) # "none"}
  <2>1. r0 \in best
    BY <1>3, <1>5, <1>7 DEF Exact
  <2>2. r0 \in good
    <3>1. ReviewFor(x) \in Int
      BY ThresholdsNat DEF ReviewFor
    <3> HIDE DEF best, r0
    <3> QED BY <1>2, <1>5, <1>8, <2>1, <3>1 DEF Exact
  <2>3. m = [phrase |-> x, tier |-> Tier(x, r0.score), score |-> r0.score,
             from |-> r0.from, to |-> r0.to]
    BY <1>5, <1>8
  <2>4. MatchesOf(x, tokens, since) =
            {[phrase |-> x, tier |-> Tier(x, r.score), score |-> r.score,
              from |-> r.from, to |-> r.to] : r \in good}
    BY DEF MatchesOf
  <2>5. m \in MatchesOf(x, tokens, since)
    <3> HIDE DEF good, r0, m
    <3> QED BY <2>2, <2>3, <2>4
  <2> HIDE DEF m
  <2> QED BY <1>4, <2>5 DEF Raw
<1>10. ASSUME NEW o \in raw, o.phrase = x PROVE o = m
  <2>0. PICK p \in PhrasesOf[n] : \E r \in Readings(p, tokens, since) :
              /\ ReadAs(o, p, r)
              /\ \A q \in Readings(p, tokens, since) : q.score > 0 => Better(r, q)
    BY RawIsRead
  <2>1. PICK r \in Readings(p, tokens, since) :
              /\ o = [phrase |-> p, tier |-> Tier(p, r.score), score |-> r.score,
                      from |-> r.from, to |-> r.to]
              /\ \A q \in Readings(p, tokens, since) : q.score > 0 => Better(r, q)
    BY <2>0 DEF ReadAs
  <2>2. p = x /\ r \in Rs
    BY <1>10, <2>1
  <2>3. Better(r, r0)
    BY <1>3, <1>5, <2>1, <2>2 DEF Exact
  <2>4. r.score = Exact
    <3>1. r.score \in Int /\ r.score <= Exact
      BY <1>6, <2>2
    <3> HIDE DEF r0
    <3> QED BY <1>5, <2>3, <3>1 DEF Better, Exact
  <2>5. r.from = s /\ r.to = to
    BY <1>6, <2>2, <2>4
  <2> QED BY <1>8, <2>1, <2>2, <2>4, <2>5
<1>11. raw \in SUBSET Matches(n, tokens)
  BY RawType
<1> HIDE DEF m, r0, raw, Rs
<1>12. m \in Kept(raw)
  <2> SUFFICES ASSUME NEW v \in raw, v.tier = "X", Overlap(v, m) PROVE FALSE
    BY <1>5, <1>9 DEF Kept
  <2>0. PICK p \in PhrasesOf[n] : \E r \in Readings(p, tokens, since) : ReadAs(v, p, r)
    BY RawIsRead DEF raw
  <2>1. PICK r \in Readings(p, tokens, since) :
              v = [phrase |-> p, tier |-> Tier(p, r.score), score |-> r.score,
                   from |-> r.from, to |-> r.to]
    BY <2>0 DEF ReadAs
  <2>2. v.from = r.from /\ v.to = r.to /\ Tier(p, r.score) = "X"
    BY <2>1
  <2>3. p.tier = "X" /\ r.score >= KillFor(p)
    <3>1. r.score \in Int /\ KillFor(p) \in Int
      BY ReadingsType, ThresholdsNat DEF KillFor
    <3> QED BY <2>2, <3>1 DEF Tier
  <2>4. Meet(r, s, to)
    BY <1>5, <2>2 DEF Meet, Overlap
  <2> QED BY <2>3, <2>4
<1>13. ASSUME NEW o \in Kept(raw), Outranks(o, m), Overlap(o, m) PROVE o.phrase.category # m.phrase.category
  <2> SUFFICES ASSUME o.phrase.category = x.category PROVE FALSE
    BY <1>5
  <2>1. o \in raw
    BY DEF Kept
  <2>0. PICK p \in PhrasesOf[n] : \E r \in Readings(p, tokens, since) : ReadAs(o, p, r)
    BY <2>1, RawIsRead DEF raw
  <2>2. PICK r \in Readings(p, tokens, since) :
              o = [phrase |-> p, tier |-> Tier(p, r.score), score |-> r.score,
                   from |-> r.from, to |-> r.to]
    BY <2>0 DEF ReadAs
  <2>3. o.phrase = p /\ o.from = r.from /\ o.to = r.to /\ o.score = r.score
    BY <2>2
  <2>4. /\ r.score \in Int /\ r.score <= Exact /\ r.from \in Int /\ r.to \in Int
    BY ReadingsType, ReadingBound
  <2>5. o # m
    BY <1>9, <1>11, <1>13, OutranksOrders
  <2>6. p # x
    BY <1>10, <2>1, <2>3, <2>5
  <2>7. r.score = Exact /\ r.to - r.from >= L
    <3> DEFINE a == o.score
               b == o.from
               c == o.to
    <3>1. \/ 0 - a < 0 - Exact
          \/ 0 - a = 0 - Exact /\ b - c <= s - to
      <4>1. b \in Int /\ c \in Int /\ s \in Int /\ to \in Int
        BY <1>1, <2>3, <2>4
      <4>2. \/ 0 - o.score < 0 - m.score
            \/ 0 - o.score = 0 - m.score /\ o.from - o.to < m.from - m.to
            \/ 0 - o.score = 0 - m.score /\ o.from - o.to = m.from - m.to
        BY <1>13, OutranksKeys
      <4>3. \/ 0 - a < 0 - Exact
            \/ 0 - a = 0 - Exact /\ b - c < s - to
            \/ 0 - a = 0 - Exact /\ b - c = s - to
        BY <1>5, <4>2
      <4> HIDE DEF a, b, c, to
      <4> QED BY <4>1, <4>3
    <3>2. a \in Int /\ a <= Exact /\ b \in Int /\ c \in Int
      BY <2>3, <2>4
    <3> HIDE DEF a, b, c, to
    <3>3. a = Exact /\ c - b >= L
      BY <1>1, <3>1, <3>2 DEF Exact
    <3> QED BY <2>3, <3>3 DEF a, b, c
  <2>8. Meet(r, s, to)
    BY <1>5, <1>13, <2>3 DEF Meet, Overlap
  <2> QED BY <2>3, <2>6, <2>7, <2>8
<1>14. m \in Chosen(Kept(raw))
  <2>1. Kept(raw) \in SUBSET Matches(n, tokens)
    BY <1>11 DEF Kept
  <2> QED BY <1>12, <1>13, <2>1, UnmatchedIsChosen
<1> QED BY <1>10, <1>14 DEF m, raw

\* Of a session and a row, a match is logged at a place that meets this one.
Reported(entries, sid, row, from, to) ==
    \E i \in DOMAIN entries :
        /\ entries[i].event = "match" /\ entries[i].sid = sid /\ entries[i].row = row
        /\ Meet(entries[i], from, to)

\* Entry e is of match m in a window that has lost base words.
OfMatch(e, base, m) ==
    /\ e.tier = m.tier /\ e.words = m.phrase.tokens /\ e.row = m.phrase.row
    /\ e.from = base + m.from /\ e.to = base + m.to

\* What t comes to when match m is handled in hearing s: its words stay, what is
\* logged of matches is of m, and m is reported, then or before.
Handles(s, m, t) ==
    /\ t.win.tokens = s.win.tokens /\ t.win.dropped = s.win.dropped
    /\ \A i \in Len(s.log) + 1 .. Len(t.log) :
          t.log[i].event = "match" => OfMatch(t.log[i], s.win.dropped, m)
    /\ Reported(t.log, s.sid, m.phrase.row, s.win.dropped + m.from, s.win.dropped + m.to)

\* A match that is handled is reported, unless it was.
LEMMA HandleMatchReports ==
    ASSUME NEW p \in Procs, Hears(p), clock \in Nat, NEW s \in Hearings, NEW m \in Found,
           m.from < m.to, Noted(s.log, s.win, s.sid)
    PROVE  Handles(s, m, HandleMatch(p, s, m))
<1> DEFINE t == HandleMatch(p, s, m)
           win == Record(s.win, m, clock)
           known == proc[p].known
           kind == IF m.tier = "A" THEN "kill" ELSE "near"
           counters == IF m.tier \in {"A", "A-near"}
                       THEN Count(s.counters, known, kind, clock) ELSE s.counters
           e == MatchEntry(p, s, m)
           log2 == Append(s.log, e)
           aged == s.aged /\ m.tier = "A"
           noted == [s EXCEPT !.win = win, !.counters = counters, !.log = log2, !.aged = aged]
           b == Entry(p, "b_threshold")
           counters2 == Count(counters, known, "b_event", clock)
           log3 == Append(log2, b)
           fired == [noted EXCEPT !.win = Fire(win), !.counters = counters2, !.log = log3]
           L == Len(s.log)
           from == s.win.dropped + m.from
           to == s.win.dropped + m.to
<1>1. /\ s = [win |-> s.win, pend |-> s.pend, sid |-> s.sid, counted |-> s.counted,
              aged |-> s.aged, counters |-> s.counters, log |-> s.log]
      /\ s.win \in Windows /\ s.log \in Seq(Entries) /\ L \in Nat
  BY DEF Hearings
<1>2. t = IF ~IsNew(s.win, m) THEN s
          ELSE IF m.tier = "A" \/ ~Crosses(win) THEN noted ELSE fired
  BY Zenon DEF HandleMatch
<1>3. /\ win.tokens = s.win.tokens /\ win.dropped = s.win.dropped
      /\ Fire(win).tokens = win.tokens /\ Fire(win).dropped = win.dropped
  <2> DEFINE w == s.win
             W == {"tokens", "times", "dropped", "hits", "reported", "fired", "bEvents"}
  <2>1. DOMAIN w = W
    BY <1>1 DEF Windows
  <2> HIDE DEF w
  <2>2. win.tokens = w.tokens /\ win.dropped = w.dropped /\ DOMAIN win = W
    BY <2>1 DEF Record, w
  <2> HIDE DEF win
  <2>3. Fire(win).tokens = win.tokens /\ Fire(win).dropped = win.dropped
    BY <2>2 DEF Fire
  <2> QED BY <2>2, <2>3 DEF w
<1>4. e \in MatchEntries /\ b \in OtherEntries
  BY MatchEntryType
<1>5. /\ e.event = "match" /\ e.sid = s.sid /\ e.row = m.phrase.row
      /\ e.from = from /\ e.to = to /\ OfMatch(e, s.win.dropped, m)
  BY DEF MatchEntry, OfMatch
<1>6. b.event = "b_threshold"
  BY DEF Entry
<1>7. from \in Nat /\ to \in Nat /\ from < to
  BY <1>1 DEF Windows, Found
<1>8. Meet(e, from, to)
  BY <1>5, <1>7 DEF Meet
<1> HIDE DEF counters, counters2, t, e, b, win, aged, from, to
<1>9. /\ log2 \in Seq(Entries) /\ Len(log2) = L + 1 /\ log2[L + 1] = e
      /\ \A i \in 1 .. L : log2[i] = s.log[i]
  <2> DEFINE l == s.log
  <2>1. l \in Seq(Entries) /\ e \in Entries
    BY <1>1, <1>4 DEF Entries
  <2> HIDE DEF l
  <2>2. LET g == Append(l, e) IN
        /\ g \in Seq(Entries) /\ Len(g) = Len(l) + 1 /\ g[Len(l) + 1] = e
        /\ \A i \in 1 .. Len(l) : g[i] = l[i]
    BY <2>1
  <2> QED BY <2>2 DEF l
<1>10. /\ log3 \in Seq(Entries) /\ Len(log3) = L + 2 /\ log3[L + 1] = e /\ log3[L + 2] = b
       /\ \A i \in 1 .. L : log3[i] = s.log[i]
  <2>1. b \in Entries
    BY <1>4 DEF Entries
  <2> HIDE DEF log2, L
  <2> QED BY <1>1, <1>9, <2>1
<1>11. ASSUME NEW l, l \in Seq(Entries), Len(l) >= L + 1, l[L + 1] = e
       PROVE  Reported(l, s.sid, m.phrase.row, from, to)
  <2>1. L + 1 \in DOMAIN l
    BY <1>1, <1>11
  <2> QED BY <1>5, <1>8, <1>11, <2>1 DEF Reported
<1>12. CASE ~IsNew(s.win, m)
  <2>1. t = s
    BY <1>2, <1>12
  <2>2. PICK r \in s.win.reported : r.row = m.phrase.row /\ Overlap(r, Absolute(s.win, m))
    BY <1>12 DEF IsNew
  <2>3. PICK i \in DOMAIN s.log :
            /\ s.log[i].event = "match" /\ s.log[i].sid = s.sid
            /\ s.log[i].row = r.row /\ s.log[i].from = r.from /\ s.log[i].to = r.to
    BY <2>2 DEF Noted
  <2>4. Meet(s.log[i], from, to)
    BY <2>2, <2>3 DEF Overlap, Absolute, Meet, from, to
  <2>5. Reported(s.log, s.sid, m.phrase.row, from, to)
    BY <2>2, <2>3, <2>4 DEF Reported
  <2>6. Len(s.log) + 1 .. Len(s.log) = {}
    BY <1>1
  <2> QED BY <2>1, <2>5, <2>6, Zenon DEF Handles, t, from, to
<1>13. CASE IsNew(s.win, m) /\ (m.tier = "A" \/ ~Crosses(win))
  <2>1. t = noted
    BY <1>2, <1>13
  <2>2. noted.win = win /\ noted.log = log2
    <3> HIDE DEF log2
    <3> QED BY <1>1
  <2>3. Reported(log2, s.sid, m.phrase.row, from, to)
    <3> HIDE DEF log2, L
    <3> QED BY <1>1, <1>9, <1>11
  <2> HIDE DEF noted, log2, L
  <2>4. \A i \in L + 1 .. Len(log2) : log2[i] = e
    BY <1>1, <1>9
  <2> QED BY <1>3, <1>5, <2>1, <2>2, <2>3, <2>4, Zenon DEF Handles, t, L, from, to
<1>14. CASE IsNew(s.win, m) /\ ~(m.tier = "A" \/ ~Crosses(win))
  <2>1. t = fired
    BY <1>2, <1>14
  <2> DEFINE f == Fire(win)
  <2>2. Reported(log3, s.sid, m.phrase.row, from, to)
    <3> HIDE DEF log3, L
    <3> QED BY <1>1, <1>10, <1>11
  <2>3. f.tokens = s.win.tokens /\ f.dropped = s.win.dropped
    BY <1>3
  <2> HIDE DEF log2, log3, L, f
  <2>4. fired.win = f /\ fired.log = log3
    <3>1. fired = [noted EXCEPT !.win = f, !.counters = counters2, !.log = log3]
      BY Zenon DEF f
    <3> HIDE DEF fired
    <3> QED BY <1>1, <3>1
  <2> HIDE DEF fired
  <2>5. \A i \in L + 1 .. Len(log3) : log3[i] = e \/ log3[i] = b
    BY <1>1, <1>10
  <2>6. \A i \in L + 1 .. Len(log3) : log3[i].event = "match" => log3[i] = e
    BY <1>6, <2>5
  <2> QED BY <1>5, <2>1, <2>2, <2>3, <2>4, <2>6, Zenon DEF Handles, t, L, from, to
<1> QED BY <1>12, <1>13, <1>14 DEF t

\* What was reported stays reported while the log grows.
LEMMA ReportedStays ==
    ASSUME NEW old \in Seq(Entries), NEW new \in Seq(Entries), NEW sid, Grows(old, new, sid),
           NEW id, NEW row, NEW from, NEW to, Reported(old, id, row, from, to)
    PROVE  Reported(new, id, row, from, to)
<1>1. PICK i \in DOMAIN old :
        /\ old[i].event = "match" /\ old[i].sid = id /\ old[i].row = row
        /\ Meet(old[i], from, to)
  BY DEF Reported
<1>2. i \in DOMAIN new /\ new[i] = old[i]
  BY DEF Grows
<1> QED BY <1>1, <1>2 DEF Reported

\* What a window holds after an utterance is of one vocabulary.
LEMMA AddHeeded ==
    ASSUME NEW w \in Windows, NEW new \in Seq(left.vocabulary), clock \in Nat,
           left.vocabulary \subseteq Words,
           \E V \in Vocabularies : left.vocabulary \subseteq V
    PROVE  LET a == Add(w, new, clock) IN
           a.win \in Windows /\ a.since \in Nat /\ Heeded(a.win.tokens)
<1> DEFINE a == Add(w, new, clock)
           t == a.win.tokens
           V == left.vocabulary
<1>1. a.win \in Windows /\ a.since \in Nat
  BY AddKeeps
<1>2. t \in Seq(V)
  BY <1>1 DEF Windows
<1> HIDE DEF a, t, V
<1>3. V \subseteq Words /\ \E U \in Vocabularies : V \subseteq U
  BY DEF V
<1>4. \A U : V \subseteq U => t \in Seq(U)
  BY <1>2
<1> QED BY <1>1, <1>3, <1>4 DEF Heeded, t, a

\* After an utterance every match found in it is reported, and what was logged
\* of matches is of those.
LEMMA UtteranceReports ==
    ASSUME NEW p \in Procs, Hears(p), clock \in Nat, NEW s \in Hearings,
           left.vocabulary \subseteq Words,
           \E V \in Vocabularies : left.vocabulary \subseteq V,
           NEW words \in Seq(left.vocabulary), Noted(s.log, s.win, s.sid)
    PROVE  LET a == Add(s.win, words, clock)
               t == Utterance(p, s, words)
               found == Match(proc[p].list, a.win.tokens, a.since)
               base == a.win.dropped
           IN /\ t.win.tokens = a.win.tokens /\ t.win.dropped = base
              /\ \A i \in DOMAIN found :
                   Reported(t.log, s.sid, found[i].phrase.row, base + found[i].from,
                            base + found[i].to)
              /\ \A j \in Len(s.log) + 1 .. Len(t.log) : t.log[j].event = "match"
                   => \E i \in DOMAIN found : OfMatch(t.log[j], base, found[i])
<1>1. PICK k \in Nat : \E found : \E h :
              Turns(p, s, words, k, found, h) /\ Utterance(p, s, words) = h[k]
  BY UtteranceTurns
<1>2. PICK found, h : Turns(p, s, words, k, found, h) /\ Utterance(p, s, words) = h[k]
  BY <1>1
<1> DEFINE a == Add(s.win, words, clock)
           heard == Listened(s, words)
           base == a.win.dropped
           L == Len(s.log)
<1>3. heard.win = a.win /\ heard.sid = s.sid /\ heard.log = s.log
  <2> DEFINE v == a.win
             g == s.aged \/ Suppressing(s.win) # Suppressing(v)
  <2>1. heard = [s EXCEPT !.win = v, !.pend = <<>>, !.aged = g]
    BY DEF Listened
  <2> HIDE DEF v, g, heard
  <2>2. DOMAIN s = {"win", "pend", "sid", "counted", "aged", "counters", "log"}
    BY DEF Hearings
  <2>3. heard.win = v /\ heard.sid = s.sid /\ heard.log = s.log
    BY <2>1, <2>2
  <2> QED BY <2>3 DEF v
<1>4. s.win \in Windows /\ s.log \in Seq(Entries) /\ L \in Nat
  BY DEF Hearings
<1>5. a.win.reported \subseteq s.win.reported /\ a.win \in Windows /\ a.since \in Nat
      /\ Heeded(a.win.tokens)
  BY <1>4, AddKeeps, AddHeeded
<1>6. found = Match(proc[p].list, a.win.tokens, a.since) /\ DOMAIN found = 1 .. k
  BY <1>2 DEF Turns
<1>7. \A i \in 1 .. k : found[i] \in Found /\ found[i].from < found[i].to
  <2> DEFINE n == proc[p].list
  <2>1. n \in LoadedFiles
    BY DEF Hears
  <2>2. PICK k2 \in Nat :
            Match(n, a.win.tokens, a.since) \in [1 .. k2 -> Matches(n, a.win.tokens)]
    BY <1>5, <2>1, MatchType
  <2>3. \A i \in DOMAIN found : found[i] \in Matches(n, a.win.tokens)
    BY <1>6, <2>2
  <2>4. \A i \in 1 .. k : found[i] \in Found
    BY <1>2 DEF Turns
  <2> QED BY <1>6, <2>3, <2>4 DEF Matches
<1>8. h[0] = heard /\ \A i \in 1 .. k : h[i] = HandleMatch(p, h[i - 1], found[i])
  BY <1>2 DEF Turns, HandledTo
<1>9. \A i \in 0 .. k : h[i] \in Hearings /\ h[i].sid = s.sid /\ Grows(s.log, h[i].log, s.sid)
  BY <1>2 DEF Turns
<1> HIDE DEF a, heard
<1> DEFINE Done(i) ==
             /\ h[i].win.tokens = a.win.tokens /\ h[i].win.dropped = base
             /\ Noted(h[i].log, h[i].win, s.sid)
             /\ \A q \in 1 .. i :
                  Reported(h[i].log, s.sid, found[q].phrase.row, base + found[q].from,
                           base + found[q].to)
             /\ \A j \in L + 1 .. Len(h[i].log) : h[i].log[j].event = "match"
                  => \E q \in 1 .. k : OfMatch(h[i].log[j], base, found[q])
           T == {i \in 0 .. k : Done(i)}
<1>10. 0 \in T
  <2>1. Noted(s.log, a.win, s.sid)
    BY <1>5 DEF Noted
  <2>2. L + 1 .. Len(s.log) = {} /\ 1 .. 0 = {}
    BY <1>4
  <2>3. Done(0)
    BY <1>3, <1>8, <2>1, <2>2
  <2> HIDE DEF Done
  <2> QED BY <2>3
<1>11. ASSUME NEW i \in 1 .. k, i - 1 \in T PROVE i \in T
  <2> DEFINE g == h[i - 1]
             t == h[i]
             m == found[i]
  <2>1. i - 1 \in 0 .. k /\ i \in 0 .. k OBVIOUS
  <2>2. g \in Hearings /\ g.sid = s.sid /\ Grows(s.log, g.log, s.sid) /\ t \in Hearings
        /\ Grows(s.log, t.log, s.sid) /\ t.sid = s.sid
    BY <1>9, <2>1
  <2>3. t = HandleMatch(p, g, m) /\ m \in Found /\ m.from < m.to
    BY <1>7, <1>8
  <2>4. Done(i - 1)
    BY <1>11
  <2>5. g.win.tokens = a.win.tokens /\ g.win.dropped = base /\ Noted(g.log, g.win, g.sid)
    BY <2>2, <2>4
  <2>6. \A q \in 1 .. i - 1 :
                  Reported(g.log, s.sid, found[q].phrase.row, base + found[q].from,
                           base + found[q].to)
    BY <2>4
  <2>7. \A j \in L + 1 .. Len(g.log) : g.log[j].event = "match"
                  => \E q \in 1 .. k : OfMatch(g.log[j], base, found[q])
    BY <2>4
  <2> HIDE DEF g, t, m, base, L, Done
  <2>8. /\ Handles(g, m, t) /\ Carries(p, g, t) /\ Grows(g.log, t.log, s.sid)
    BY <2>2, <2>3, <2>5, HandleMatchReports, HandleMatchCarries, HandleMatchKeeps
  <2>9. t.win.tokens = a.win.tokens /\ t.win.dropped = base
    BY <2>5, <2>8 DEF Handles
  <2>10. Noted(t.log, t.win, s.sid)
    BY <2>2, <2>5, <2>8 DEF Carries
  <2>11. g.log \in Seq(Entries) /\ t.log \in Seq(Entries)
    BY <2>2 DEF Hearings
  <2>12. ASSUME NEW q \in 1 .. i
         PROVE  Reported(t.log, s.sid, found[q].phrase.row, base + found[q].from,
                         base + found[q].to)
    <3>1. CASE q = i
      BY <2>2, <2>5, <2>8, <3>1 DEF Handles, m
    <3>2. CASE q # i
      <4>1. q \in 1 .. i - 1
        BY <3>2
      <4> QED BY <2>6, <2>8, <2>11, <4>1, ReportedStays
    <3> QED BY <3>1, <3>2
  <2>13. ASSUME NEW j \in L + 1 .. Len(t.log), t.log[j].event = "match"
         PROVE  \E q \in 1 .. k : OfMatch(t.log[j], base, found[q])
    <3>1. CASE j <= Len(g.log)
      <4>1. j \in L + 1 .. Len(g.log) /\ j \in 1 .. Len(g.log)
        BY <1>4, <2>11, <3>1
      <4>2. t.log[j] = g.log[j]
        BY <2>8, <4>1 DEF Grows
      <4> QED BY <2>7, <2>13, <4>1, <4>2
    <3>2. CASE ~(j <= Len(g.log))
      <4>1. j \in Len(g.log) + 1 .. Len(t.log)
        BY <1>4, <2>11, <3>2
      <4>2. OfMatch(t.log[j], base, m)
        BY <2>5, <2>8, <2>13, <4>1 DEF Handles
      <4> QED BY <4>2 DEF m
    <3> QED BY <3>1, <3>2
  <2>14. Done(i)
    BY <2>9, <2>10, <2>12, <2>13, Zenon DEF Done, t
  <2> QED BY <2>1, <2>14
<1>12. 0 .. k \subseteq T
  <2> HIDE DEF T
  <2> QED BY <1>10, <1>11, Induct
<1>13. Done(k)
  BY <1>12
<1> HIDE DEF base
<1> QED BY <1>2, <1>6, <1>13 DEF a, base, L

\* Words that are exactly phrase x stand at place k, the last of them new, and
\* nothing the matcher reads keeps it from matching x there.
PlainlySaid(n, tokens, since, x, k) ==
    /\ k + Len(x.tokens) <= Len(tokens) /\ k + Len(x.tokens) > since
    /\ SubSeq(tokens, k + 1, k + Len(x.tokens)) = x.tokens
    /\ \A r \in Readings(x, tokens, since) :
          r.score = Exact => r.from = k /\ r.to = k + Len(x.tokens)
    /\ \A y \in PhrasesOf[n] : y.tier = "X" => \A r \in Readings(y, tokens, since) :
          r.score >= KillFor(y) => ~Meet(r, k, k + Len(x.tokens))
    /\ \A y \in PhrasesOf[n] \ {x} : y.category = x.category =>
          \A r \in Readings(y, tokens, since) :
              r.score = Exact /\ r.to - r.from >= Len(x.tokens)
                  => ~Meet(r, k, k + Len(x.tokens))

\* Such words are one of the matches that are found, the only one of the phrase.
LEMMA SaidIsFound ==
    ASSUME NEW n \in LoadedFiles, NEW tokens, Heeded(tokens), NEW since \in Nat,
           NEW x \in PhrasesOf[n], x.tier = "A", Fireable(x), NEW k \in Nat,
           PlainlySaid(n, tokens, since, x, k)
    PROVE  LET found == Match(n, tokens, since)
               m == [phrase |-> x, tier |-> "A", score |-> Exact,
                     from |-> k, to |-> k + Len(x.tokens)]
           IN /\ \E i \in DOMAIN found : found[i] = m
              /\ \A i \in DOMAIN found : found[i].phrase.row = x.row => found[i] = m
<1> DEFINE raw == Raw(n, tokens, since)
           S == Chosen(Kept(raw))
           found == Match(n, tokens, since)
           m == [phrase |-> x, tier |-> "A", score |-> Exact,
                 from |-> k, to |-> k + Len(x.tokens)]
<1>1. m \in S /\ \A o \in raw : o.phrase = x => o = m
  <2> HIDE DEF m, S, raw
  <2> QED BY SaidIsChosen DEF PlainlySaid, m, S, raw
<1>2. raw \in SUBSET Matches(n, tokens)
  BY RawType
<1>3. Kept(raw) \in SUBSET Matches(n, tokens) /\ Kept(raw) \subseteq raw
  BY <1>2 DEF Kept
<1>4. S \subseteq Kept(raw)
  BY <1>3, ChosenType
<1>5. S \in SUBSET Matches(n, tokens)
  BY <1>3, <1>4
<1>6. found = InOrder(S, Before)
  BY Zenon DEF Match
<1> HIDE DEF S, raw, m
<1>7. /\ InOrder(S, Before) \in [1 .. Cardinality(S) -> S]
      /\ \A o \in S : \E i \in 1 .. Cardinality(S) : InOrder(S, Before)[i] = o
  BY <1>5, ReportedOrderType, ReportedHasAll
<1> HIDE DEF found
<1>8. \E i \in DOMAIN found : found[i] = m
  BY <1>1, <1>6, <1>7
<1>9. ASSUME NEW i \in DOMAIN found, found[i].phrase.row = x.row PROVE found[i] = m
  <2>1. found[i] \in S
    BY <1>6, <1>7
  <2>2. found[i] \in raw /\ found[i] \in Matches(n, tokens)
    BY <1>2, <1>3, <1>4, <2>1
  <2>3. found[i].phrase \in PhrasesOf[n]
    BY <2>2 DEF Matches
  <2>4. found[i].phrase = x
    BY <1>9, <2>3, PhrasesType
  <2> QED BY <1>1, <2>2, <2>4
<1> QED BY <1>8, <1>9 DEF found, m

\* After an utterance a match is logged on such words: that of the phrase, or
\* one logged before on its row.
LEMMA SaidIsReported ==
    ASSUME NEW p \in Procs, Hears(p), clock \in Nat, NEW s \in Hearings,
           left.vocabulary \subseteq Words,
           \E V \in Vocabularies : left.vocabulary \subseteq V,
           NEW words \in Seq(left.vocabulary), Noted(s.log, s.win, s.sid),
           NEW x \in PhrasesOf[proc[p].list], x.tier = "A", Fireable(x), NEW k \in Nat,
           PlainlySaid(proc[p].list, Add(s.win, words, clock).win.tokens,
                       Add(s.win, words, clock).since, x, k)
    PROVE  LET t == Utterance(p, s, words)
               from == Add(s.win, words, clock).win.dropped + k
           IN \E i \in DOMAIN t.log :
              /\ t.log[i].event = "match" /\ t.log[i].sid = s.sid
              /\ Meet(t.log[i], from, from + Len(x.tokens))
              /\ \/ t.log[i].tier = "A" /\ t.log[i].words = x.tokens
                 \/ t.log[i].row = x.row /\ i \in DOMAIN s.log /\ t.log[i] = s.log[i]
<1> DEFINE a == Add(s.win, words, clock)
           t == Utterance(p, s, words)
           n == proc[p].list
           base == a.win.dropped
           from == base + k
           L == Len(x.tokens)
           found == Match(n, a.win.tokens, a.since)
           m == [phrase |-> x, tier |-> "A", score |-> Exact, from |-> k, to |-> k + L]
<1>1. n \in LoadedFiles /\ s.win \in Windows /\ s.log \in Seq(Entries)
  BY DEF Hears, Hearings
<1>2. a.win \in Windows /\ a.since \in Nat /\ Heeded(a.win.tokens)
  BY <1>1, AddHeeded
<1>3. /\ \E i \in DOMAIN found : found[i] = m
      /\ \A i \in DOMAIN found : found[i].phrase.row = x.row => found[i] = m
  <2> HIDE DEF n
  <2> QED BY <1>1, <1>2, SaidIsFound DEF n
<1>4. /\ \A i \in DOMAIN found :
           Reported(t.log, s.sid, found[i].phrase.row, base + found[i].from,
                    base + found[i].to)
      /\ \A j \in Len(s.log) + 1 .. Len(t.log) : t.log[j].event = "match"
           => \E i \in DOMAIN found : OfMatch(t.log[j], base, found[i])
  <2> HIDE DEF base
  <2> QED BY <1>1, UtteranceReports DEF base
<1>5. t.log \in Seq(Entries) /\ Grows(s.log, t.log, s.sid)
  BY UtteranceKeeps DEF Hearings
<1>6. m.phrase = x /\ m.tier = "A" /\ m.from = k /\ m.to = k + L OBVIOUS
<1>7. base \in Nat /\ L \in Nat /\ base + (k + L) = from + L
  <2>1. base \in Nat /\ from = base + k
    <3> HIDE DEF a
    <3> QED BY <1>2 DEF Windows
  <2>2. L \in Nat
    BY <1>1, PhrasesType DEF Phrases
  <2> HIDE DEF base, L
  <2> QED BY <2>1, <2>2
<1> HIDE DEF found, m, base, L, a, t
<1>8. Reported(t.log, s.sid, x.row, from, from + L)
  <2>1. Reported(t.log, s.sid, x.row, base + k, base + (k + L))
    BY <1>3, <1>4, <1>6
  <2> QED BY <1>7, <2>1 DEF base
<1>9. PICK i \in DOMAIN t.log :
        /\ t.log[i].event = "match" /\ t.log[i].sid = s.sid /\ t.log[i].row = x.row
        /\ Meet(t.log[i], from, from + L)
  BY <1>8 DEF Reported
<1>10. CASE i \in 1 .. Len(s.log)
  <2>1. i \in DOMAIN s.log /\ t.log[i] = s.log[i]
    BY <1>1, <1>5, <1>10 DEF Grows
  <2> QED BY <1>9, <2>1 DEF t, a, base, L
<1>11. CASE i \notin 1 .. Len(s.log)
  <2>1. i \in Len(s.log) + 1 .. Len(t.log)
    BY <1>1, <1>5, <1>11
  <2>2. PICK q \in DOMAIN found : OfMatch(t.log[i], base, found[q])
    BY <1>4, <1>9, <2>1
  <2>3. found[q] = m
    BY <1>3, <1>9, <2>2 DEF OfMatch
  <2>4. t.log[i].tier = "A" /\ t.log[i].words = x.tokens
    BY <1>6, <2>2, <2>3 DEF OfMatch
  <2> QED BY <1>9, <2>4 DEF t, a, base, L
<1> QED BY <1>10, <1>11

\* The readings of a list's phrases, at places in all the words of the stream.
Placed(r, base) == [r EXCEPT !.from = @ + base, !.to = @ + base]
AllReadings(n, tokens, since, base) ==
    [y \in PhrasesOf[n] |-> {Placed(r, base) : r \in Readings(y, tokens, since)}]

\* Places move back as they moved on.
LEMMA Unshift ==
    ASSUME NEW a \in Int, NEW b \in Int, NEW base \in Int, NEW k \in Int, NEW size \in Int,
           a + base = base + k, b + base = base + k + size
    PROVE  a = k /\ b = k + size
  OBVIOUS

\* What none of the known divergences excuses was plainly said.
LEMMA PlainOtherwise ==
    ASSUME NEW n \in LoadedFiles, NEW tokens, Heeded(tokens), NEW since \in Nat,
           NEW base \in Nat, NEW x \in PhrasesOf[n], NEW k \in Nat,
           k + Len(x.tokens) <= Len(tokens), k + Len(x.tokens) > since,
           SubSeq(tokens, k + 1, k + Len(x.tokens)) = x.tokens,
           NEW readings, readings = AllReadings(n, tokens, since, base),
           ~ReadElsewhere(x, base + k, readings), ~Excluded(x, base + k, readings),
           ~SaidByAnother(x, base + k, readings)
    PROVE  PlainlySaid(n, tokens, since, x, k)
<1> DEFINE Ph == PhrasesOf[n]
           L == Len(x.tokens)
           At(r) == Placed(r, base)
<1>1. L \in Nat
  <2>1. x \in Phrases
    BY PhrasesType
  <2> QED BY <2>1 DEF Phrases
<1>2. DOMAIN readings = Ph /\ x \in Ph
      /\ \A y \in Ph : readings[y] = {At(q) : q \in Readings(y, tokens, since)}
  BY DEF AllReadings
<1>3. ASSUME NEW y \in Ph, NEW r \in Readings(y, tokens, since)
      PROVE  /\ At(r) \in readings[y] /\ At(r).score = r.score
             /\ At(r).from = r.from + base /\ At(r).to = r.to + base
             /\ r.from \in Int /\ r.to \in Int /\ r.score \in Int
             /\ Meet(r, k, k + L) => Meet(At(r), base + k, base + k + L)
  <2>1. r = [from |-> r.from, to |-> r.to, score |-> r.score]
    BY ReadingBound
  <2>2. r.from \in Int /\ r.to \in Int /\ r.score \in Int
    <3>1. r.from \in Nat /\ r.to \in Nat /\ r.score \in Int
      BY ReadingsType
    <3> QED BY <3>1
  <2>3. /\ At(r).score = r.score /\ At(r).from = r.from + base /\ At(r).to = r.to + base
    BY <2>1 DEF Placed
  <2>4. At(r) \in readings[y]
    BY <1>2
  <2> DEFINE a == r.from
             b == r.to
             v == At(r)
  <2>5. Meet(r, k, k + L) => Meet(At(r), base + k, base + k + L)
    <3>1. v.from = a + base /\ v.to = b + base /\ a \in Int /\ b \in Int
      BY <2>2, <2>3
    <3>2. Meet(r, k, k + L) <=> a < k + L /\ k < b
      BY DEF Meet
    <3>3. Meet(v, base + k, base + k + L) <=> v.from < base + k + L /\ base + k < v.to
      BY DEF Meet
    <3> HIDE DEF a, b, v, L
    <3>4. Meet(r, k, k + L) => Meet(v, base + k, base + k + L)
      BY <1>1, <3>1, <3>2, <3>3
    <3> QED BY <3>4 DEF v
  <2> QED BY <2>2, <2>3, <2>4, <2>5
<1> HIDE DEF At
<1>4. ASSUME NEW r \in Readings(x, tokens, since), r.score = Exact
      PROVE  r.from = k /\ r.to = k + L
  <2>1. At(r) \in readings[x] /\ At(r).score = Exact
    BY <1>3, <1>4
  <2>2. At(r).from = base + k /\ At(r).to = base + k + L
    <3> HIDE DEF At
    <3> QED BY <2>1 DEF ReadElsewhere
  <2> DEFINE a == r.from
             b == r.to
  <2>3. a + base = base + k /\ b + base = base + k + L /\ a \in Int /\ b \in Int
    <3> HIDE DEF L
    <3> QED BY <1>3, <2>2
  <2> HIDE DEF L, a, b
  <2>4. a = k /\ b = k + L
    <3>1. L \in Int /\ base \in Int /\ k \in Int
      BY <1>1
    <3> QED BY SMTT(30), <2>3, <3>1, Unshift
  <2> QED BY <2>4 DEF a, b
<1>5. ASSUME NEW y \in Ph, y.tier = "X", NEW r \in Readings(y, tokens, since),
             r.score >= KillFor(y)
      PROVE  ~Meet(r, k, k + L)
  <2>1. At(r) \in readings[y] /\ At(r).score >= KillFor(y)
    BY <1>3, <1>5
  <2> HIDE DEF At
  <2>2. ~Meet(At(r), base + k, base + k + L)
    BY <1>2, <1>5, <2>1 DEF Excluded
  <2> QED BY <1>3, <2>2
<1>6. ASSUME NEW y \in Ph \ {x}, y.category = x.category,
             NEW r \in Readings(y, tokens, since), r.score = Exact, r.to - r.from >= L
      PROVE  ~Meet(r, k, k + L)
  <2>1. At(r) \in readings[y] /\ At(r).score = Exact
        /\ At(r).to = r.to + base /\ At(r).from = r.from + base
        /\ r.from \in Int /\ r.to \in Int
    BY <1>3, <1>6
  <2> HIDE DEF At
  <2>3. At(r).to - At(r).from >= L
    <3> DEFINE a == r.from
               b == r.to
               c == At(r).from
               d == At(r).to
    <3>1. a \in Int /\ b \in Int /\ b - a >= L /\ c = a + base /\ d = b + base
      BY <1>6, <2>1
    <3> HIDE DEF L, a, b, c, d
    <3>2. d - c >= L
      BY <1>1, <3>1
    <3> QED BY <3>2 DEF c, d
  <2>2. ~Meet(At(r), base + k, base + k + L)
    BY <1>2, <1>6, <2>1, <2>3 DEF SaidByAnother
  <2> QED BY <1>3, <2>2
<1> QED BY <1>4, <1>5, <1>6 DEF PlainlySaid

\* Where the new words of a window begin.
LEMMA AddSince ==
    ASSUME NEW w \in Windows, NEW new \in Seq(left.vocabulary), NEW now \in Nat
    PROVE  LET a == Add(w, new, now)
           IN a.since = Max2(0, w.dropped + Len(w.tokens) - a.win.dropped)
<1> DEFINE a == Add(w, new, now)
           size == Len(w.tokens)
           d == a.win.dropped
<1>1. w.dropped \in Nat /\ size \in Nat /\ d \in Nat
  <2>1. a.win \in Windows
    BY AddKeeps
  <2> HIDE DEF a
  <2> QED BY <2>1 DEF Windows
<1>2. CASE new = <<>>
  <2>1. a.since = size /\ d = w.dropped
    BY <1>2 DEF Add
  <2> HIDE DEF a, size, d
  <2>2. a.since = Max2(0, w.dropped + size - d)
    BY <1>1, <2>1 DEF Max2
  <2> QED BY <2>2 DEF a, size, d
<1>3. CASE new # <<>>
  <2>1. a.since = Max2(0, size - (d - w.dropped))
    BY <1>3 DEF Add
  <2> HIDE DEF a, size, d
  <2>2. a.since = Max2(0, w.dropped + size - d)
    BY <1>1, <2>1 DEF Max2
  <2> QED BY <2>2 DEF a, size, d
<1> QED BY <1>2, <1>3

\* A stream without a session has heard nothing.
SilentUntilOpen(q) == ~proc[q].sess.open => proc[q].sess.win = NewWindow

\* What p hears, with the words and matches it makes of it: hearing s and window
\* a at the end of an utterance, when there is one.
LEMMA AudioSaid ==
    ASSUME WorldInv, HearInv, ListInv, NEW p \in Procs, NEW w \in left.vocabulary,
           NEW final \in BOOLEAN, OnAudio(p, w, final), SessionNoted(log, proc[p]),
           SilentUntilOpen(p), proc'[p].sess.win # proc[p].sess.win
    PROVE  /\ Hears(p) /\ clock \in Nat /\ left.vocabulary \subseteq Words
           /\ \E V \in Vocabularies : left.vocabulary \subseteq V
           /\ \E s \in Hearings, words \in Seq(left.vocabulary) :
                LET t == Utterance(p, s, words) IN
                /\ s.win = proc[p].sess.win /\ s.sid = proc'[p].sess.sid /\ s.log = log
                /\ Noted(log, s.win, s.sid)
                /\ proc'[p].sess.win = t.win /\ log' = t.log
<1> DEFINE o == Opened(p)
           pend == Heard(o, w)
           s == [win |-> o.sess.win, pend |-> pend, sid |-> o.sess.sid,
                 counted |-> o.sess.counted, aged |-> o.sess.aged,
                 counters |-> o.counters, log |-> log]
           said == Utterance(p, s, pend)
           heard == [o.sess EXCEPT !.win = said.win, !.pend = <<>>, !.aged = said.aged]
           waits == [o.sess EXCEPT !.pend = pend]
           r == [o EXCEPT !.counters = said.counters, !.sess = heard]
           q == [o EXCEPT !.sess = waits]
<1>1. /\ o \in Processes /\ o.sess.open
      /\ Over(o.sess.win) => o.sess.aged
      /\ Booked(log, o.sess.win, o.sess.sid)
  BY OpenedKeeps
<1>2. Noted(log, o.sess.win, o.sess.sid)
  BY <1>1, OpenedCarries DEF SessionNoted
<1>0. o.sess.win = proc[p].sess.win
  <2>1. CASE proc[p].sess.open
    BY <2>1 DEF Opened
  <2>2. CASE ~proc[p].sess.open
    <3> DEFINE c == proc[p].known /\ proc[p].calls = Never
               z == [NoSession EXCEPT !.open = TRUE, !.sid = sids + 1,
                                      !.counted = IF c THEN clock ELSE proc[p].calls]
               cs == IF c THEN clock ELSE proc[p].calls
               cn == IF c THEN Count(proc[p].counters, TRUE, "calls", clock)
                     ELSE proc[p].counters
    <3>1. o = [proc[p] EXCEPT !.sess = z, !.calls = cs, !.counters = cn]
      BY <2>2, Zenon DEF Opened
    <3>2. z.win = NewWindow
      BY DEF NoSession
    <3>3. DOMAIN proc[p] = ProcFields
      BY DEF HearInv, Processes, ProcFields
    <3> HIDE DEF o, z, cs, cn
    <3>4. o.sess = z
      BY <3>1, <3>3 DEF ProcFields
    <3> QED BY <2>2, <3>2, <3>4 DEF SilentUntilOpen
  <2> QED BY <2>1, <2>2
<1>3. /\ \/ final /\ Goes(p, r) /\ log' = said.log
         \/ ~final /\ Goes(p, q) /\ log' = log
      /\ proc[p].st = "running"
  <2>1. CASE final
    BY <2>1, Zenon DEF OnAudio
  <2>2. CASE ~final
    BY <2>2, Zenon DEF OnAudio
  <2> QED BY <2>1, <2>2
<1> HIDE DEF o
<1>4. /\ o.sess \in Sessions /\ o.counters \in CounterRecords /\ o.sess.win \in Windows
      /\ o.sess.pend \in Seq(left.vocabulary) /\ o.sess.sid \in Nat /\ o.sess.counted \in Int
      /\ o.sess.aged \in BOOLEAN
  <2>1. o.sess \in Sessions /\ o.counters \in CounterRecords
    BY <1>1 DEF Processes
  <2> QED BY <2>1 DEF Sessions
<1>5. pend \in Seq(left.vocabulary)
  <2> DEFINE V == left.vocabulary
             x == o.sess.pend
  <2>1. x \in Seq(V) /\ w \in V
    BY <1>4
  <2> HIDE DEF V, x
  <2>2. Append(x, w) \in Seq(V)
    BY <2>1
  <2>3. Append(o.sess.pend, w) \in Seq(left.vocabulary)
    BY <2>2 DEF V, x
  <2> QED BY <1>4, <2>3 DEF Heard
<1> HIDE DEF pend
<1>6. log \in Seq(Entries) /\ Apart(log)
  BY DEF HearInv, LogInv
<1>7. s \in Hearings /\ s.sid = o.sess.sid /\ s.log = log /\ s.win = o.sess.win
  BY <1>1, <1>4, <1>5, <1>6 DEF Hearings
<1>8. Hears(p) /\ clock \in Nat /\ left.vocabulary \subseteq Words
      /\ \E V \in Vocabularies : left.vocabulary \subseteq V
  <2>1. proc[p] \in Processes
    BY DEF HearInv
  <2>2. Loads(Files[proc[p].list]) /\ proc[p].st \in {"opening", "running"}
    BY <1>3 DEF ListInv, ListKept, Started
  <2> QED BY <1>3, <2>1, <2>2 DEF Hears, Processes, LoadedFiles, WorldInv, Started
<1> HIDE DEF s, said
<1>10. /\ DOMAIN o = ProcFields
       /\ DOMAIN o.sess = {"open", "gone", "pend", "win", "sid", "counted", "aged"}
       /\ p \in DOMAIN proc
  BY <1>1, <1>4 DEF Processes, ProcFields, Sessions, HearInv
<1>11. CASE ~final
  <2>1. waits.win = o.sess.win
    BY <1>10
  <2> HIDE DEF waits
  <2>2. q.sess = waits
    BY <1>10 DEF ProcFields
  <2> HIDE DEF q
  <2>3. proc'[p] = q
    BY <1>3, <1>10, <1>11 DEF Goes
  <2> QED BY <1>0, <2>1, <2>2, <2>3
<1>12. CASE final
  <2> DEFINE v == said.win
             g == said.aged
             c == said.counters
  <2>1. heard.win = said.win /\ heard.sid = o.sess.sid
    <3>1. heard = [o.sess EXCEPT !.win = v, !.pend = <<>>, !.aged = g] OBVIOUS
    <3> HIDE DEF v, g, heard
    <3>2. heard.win = v /\ heard.sid = o.sess.sid
      BY <1>10, <3>1
    <3> QED BY <3>2 DEF v
  <2> HIDE DEF heard
  <2>2. r.sess = heard
    <3>1. r = [o EXCEPT !.counters = c, !.sess = heard] OBVIOUS
    <3> HIDE DEF c, r
    <3> QED BY <1>10, <3>1 DEF ProcFields
  <2> HIDE DEF r
  <2>3. proc'[p] = r /\ log' = said.log
    BY <1>3, <1>10, <1>12 DEF Goes
  <2>4. /\ s.win = proc[p].sess.win /\ s.sid = proc'[p].sess.sid /\ s.log = log
        /\ Noted(log, s.win, s.sid)
        /\ proc'[p].sess.win = said.win /\ log' = said.log
    BY <1>0, <1>2, <1>7, <2>1, <2>2, <2>3
  <2> QED BY <1>5, <1>7, <1>8, <2>4 DEF said
<1> QED BY <1>11, <1>12

\* What p hears is reported as it should be.
LEMMA AudioReports ==
    ASSUME WorldInv, HearInv, ListInv, NEW p \in Procs, NEW w \in left.vocabulary,
           NEW final \in BOOLEAN, OnAudio(p, w, final), SessionNoted(log, proc[p]),
           SilentUntilOpen(p), proc'[p].sess.win # proc[p].sess.win
    PROVE  HeardIsReported(p)
<1> DEFINE before == proc[p].sess
           win == proc'[p].sess.win
           base == win.dropped
           news == before.win.dropped + Len(before.win.tokens)
           tokens == win.tokens
           n == proc[p].list
           list == PhrasesOf[n]
           since == Max2(0, news - base)
           sid == proc'[p].sess.sid
           readings == [y \in list |-> {[r EXCEPT !.from = @ + base, !.to = @ + base] :
                                         r \in Readings(y, tokens, since)}]
           entries == LogMatches(log', sid)
<1>1. /\ Hears(p) /\ clock \in Nat /\ left.vocabulary \subseteq Words
      /\ \E V \in Vocabularies : left.vocabulary \subseteq V
  BY AudioSaid
<1>2. PICK s \in Hearings, words \in Seq(left.vocabulary) :
                LET t == Utterance(p, s, words) IN
                /\ s.win = proc[p].sess.win /\ s.sid = proc'[p].sess.sid /\ s.log = log
                /\ Noted(log, s.win, s.sid)
                /\ proc'[p].sess.win = t.win /\ log' = t.log
  BY AudioSaid
<1> DEFINE a == Add(s.win, words, clock)
           t == Utterance(p, s, words)
<1>3. s.win = before.win /\ s.sid = sid /\ s.log = log /\ Noted(s.log, s.win, s.sid)
      /\ win = t.win /\ log' = t.log
  BY <1>2
<1>4. s.win \in Windows /\ n \in LoadedFiles
  BY <1>1 DEF Hearings, Hears
<1>5. a.win \in Windows /\ a.since \in Nat /\ Heeded(a.win.tokens)
  BY <1>1, <1>4, AddHeeded
<1>6. t.win.tokens = a.win.tokens /\ t.win.dropped = a.win.dropped
  BY <1>1, <1>3, UtteranceReports
<1>7. a.since = Max2(0, s.win.dropped + Len(s.win.tokens) - a.win.dropped)
  BY <1>1, <1>4, AddSince
<1>13. a = Add(s.win, words, clock) /\ t = Utterance(p, s, words) OBVIOUS
<1> HIDE DEF a, t, win, before
<1>8. tokens = a.win.tokens /\ base = a.win.dropped /\ since = a.since
  <2>1. tokens = a.win.tokens /\ base = a.win.dropped
    BY <1>3, <1>6
  <2>2. news = s.win.dropped + Len(s.win.tokens)
    BY <1>3
  <2> HIDE DEF base, news, tokens
  <2>3. since = a.since
    <3> DEFINE d == s.win.dropped
               z == Len(s.win.tokens)
               b == a.win.dropped
    <3>1. d \in Nat /\ z \in Nat /\ b \in Nat
      BY <1>4, <1>5 DEF Windows
    <3>2. a.since = Max2(0, d + z - b) /\ news = d + z /\ base = b
      BY <1>7, <2>1, <2>2
    <3> HIDE DEF d, z, b
    <3>3. d + z - b = news - base
      BY <3>1, <3>2
    <3> QED BY <3>2, <3>3
  <2> QED BY <2>1, <2>3
<1>9. base \in Nat /\ a.win.tokens \in Seq(Words) /\ Len(a.win.tokens) \in Nat
  BY <1>5, <1>8 DEF Windows, Heeded
<1>10. readings = AllReadings(n, tokens, since, base)
  BY Zenon DEF AllReadings, Placed
<1> HIDE DEF tokens, base, since, readings, sid, n, before, entries
<1>11. ASSUME NEW x \in list, x.tier = "A", Fireable(x),
              NEW k \in 0 .. Len(tokens) - Len(x.tokens), k + Len(x.tokens) > since,
              SubSeq(tokens, k + 1, k + Len(x.tokens)) = x.tokens,
              ~MaskedByNearMiss(x, base + k, sid), ~ReadElsewhere(x, base + k, readings),
              ~Excluded(x, base + k, readings), ~SaidByAnother(x, base + k, readings)
       PROVE  \E e \in entries : e.tier = "A" /\ e.words = x.tokens
                                   /\ Meet(e, base + k, base + k + Len(x.tokens))
  <2> DEFINE L == Len(x.tokens)
             from == base + k
  <2>1. L \in Nat /\ k \in Nat /\ k + L <= Len(tokens)
    <3>1. x \in Phrases
      BY <1>4, PhrasesType
    <3>2. L \in Nat
      BY <3>1 DEF Phrases
    <3> DEFINE z == Len(tokens)
    <3>3. z \in Nat
      BY <1>8, <1>9
    <3>4. k \in 0 .. z - L
      BY <1>11
    <3> HIDE DEF L, z
    <3>5. L \in Nat /\ k \in Nat /\ k + L <= z
      BY <3>2, <3>3, <3>4
    <3> QED BY <3>5 DEF z
  <2>2. PlainlySaid(n, tokens, since, x, k)
    BY <1>4, <1>5, <1>8, <1>9, <1>10, <1>11, <2>1, PlainOtherwise
  <2>3. x \in PhrasesOf[proc[p].list] /\ PlainlySaid(proc[p].list, a.win.tokens, a.since, x, k)
    BY <1>8, <2>2 DEF n
  <2>4. PICK i \in DOMAIN t.log :
              /\ t.log[i].event = "match" /\ t.log[i].sid = s.sid
              /\ Meet(t.log[i], from, from + L)
              /\ \/ t.log[i].tier = "A" /\ t.log[i].words = x.tokens
                 \/ t.log[i].row = x.row /\ i \in DOMAIN s.log /\ t.log[i] = s.log[i]
    <3>1. from = a.win.dropped + k
      BY <1>8
    <3>2. Noted(s.log, s.win, s.sid) /\ k \in Nat
      BY <1>3, <2>1
    <3> HIDE DEF from, list
    <3>3. \E i \in DOMAIN t.log :
            /\ t.log[i].event = "match" /\ t.log[i].sid = s.sid
            /\ Meet(t.log[i], a.win.dropped + k, a.win.dropped + k + Len(x.tokens))
            /\ \/ t.log[i].tier = "A" /\ t.log[i].words = x.tokens
               \/ t.log[i].row = x.row /\ i \in DOMAIN s.log /\ t.log[i] = s.log[i]
      BY <1>1, <1>11, <2>3, <3>2, SaidIsReported DEF a, t
    <3> QED BY <3>1, <3>3
  <2>5. t.log[i] \in entries
    BY <1>3, <2>4 DEF LogMatches, entries
  <2>6. CASE t.log[i].tier = "A" /\ t.log[i].words = x.tokens
    BY <2>4, <2>5, <2>6
  <2>7. CASE t.log[i].row = x.row /\ i \in DOMAIN s.log /\ t.log[i] = s.log[i]
    <3>1. t.log[i] \in LogMatches(log, sid)
      BY <1>3, <2>4, <2>7 DEF LogMatches
    <3>2. t.log[i].tier = "A" /\ t.log[i].words = x.tokens
      BY <1>11, <2>4, <2>7, <3>1 DEF MaskedByNearMiss
    <3> QED BY <2>4, <2>5, <3>2
  <2> QED BY <2>4, <2>6, <2>7
<1>12. \A x \in {y \in list : y.tier = "A" /\ Fireable(y)} :
         \A k \in 0 .. Len(tokens) - Len(x.tokens) :
           (/\ k + Len(x.tokens) > since
            /\ SubSeq(tokens, k + 1, k + Len(x.tokens)) = x.tokens)
           => \/ \E e \in entries :
                     e.tier = "A" /\ e.words = x.tokens
                       /\ Meet(e, base + k, base + k + Len(x.tokens))
              \/ MaskedByNearMiss(x, base + k, sid)
              \/ ReadElsewhere(x, base + k, readings)
              \/ Excluded(x, base + k, readings)
              \/ SaidByAnother(x, base + k, readings)
  <2> HIDE DEF list
  <2> QED BY <1>11, Zenon
<1> QED
  BY <1>12, Zenon DEF HeardIsReported, tokens, base, since, readings, sid, n, before, win, entries

-----------------------------------------------------------------------------
(* Who hears what.                                                         *)

\* A stream loses its session, or keeps its window.
Keeps(old, new) == new = NoSession \/ (new.open = old.open /\ new.win = old.win)

\* If the one process that goes on does.
LEMMA KeepsOne ==
    ASSUME DOMAIN proc = Procs, NEW p \in Procs, NEW r, Goes(p, r),
           Keeps(proc[p].sess, r.sess), NEW q \in Procs
    PROVE  Keeps(proc[q].sess, proc'[q].sess)
<1>1. proc'[q] = IF q = p THEN r ELSE proc[q]
  BY DEF Goes
<1> QED BY <1>1 DEF Keeps

\* Only audio gives a stream other words.
LEMMA WindowStep ==
    ASSUME WorldInv, HearInv, [Next]_vars, NEW q \in Procs
    PROVE  \/ Keeps(proc[q].sess, proc'[q].sess)
           \/ \E w \in left.vocabulary, final \in BOOLEAN : OnAudio(q, w, final)
<1> DEFINE Quiet == \A o \in Procs : Keeps(proc[o].sess, proc'[o].sess)
           Aloud(p) == \E w \in left.vocabulary, final \in BOOLEAN : OnAudio(p, w, final)
<1>1. DOMAIN proc = Procs /\ \A p \in Procs : proc[p] \in Processes
  BY DEF HearInv
<1>2. ASSUME proc' = proc PROVE Quiet
  BY <1>2 DEF Keeps
<1>3. ASSUME NEW p \in Procs, NEW r, Goes(p, r), Keeps(proc[p].sess, r.sess) PROVE Quiet
  BY <1>1, <1>3, KeepsOne
<1>4. ASSUME NEW p \in Procs, Goes(p, NoProc) PROVE Quiet
  BY <1>3, <1>4, NoProcType DEF Keeps
<1>5. ASSUME NEW p \in Procs, Housekeep(p) PROVE Quiet
  <2> DEFINE o == Reloaded(proc[p])
             c == CheckAlerts(o.counters, clock)
             s == IF o.sess.gone THEN NoSession ELSE o.sess
             d == IF "state" \in disk THEN c ELSE o.base
             r == [o EXCEPT !.counters = c, !.base = d, !.sess = s]
  <2>1. o \in Processes /\ o.sess = proc[p].sess
    BY <1>1, ReloadedType DEF WorldInv
  <2>2. Goes(p, r)
    BY <1>5, HousekeepGoes, Zenon
  <2>3. Keeps(proc[p].sess, s)
    BY <2>1 DEF Keeps
  <2> HIDE DEF o, c, s, d
  <2>4. r.sess = s
    BY <2>1 DEF Processes
  <2> HIDE DEF r
  <2> QED BY <1>3, <2>2, <2>3, <2>4
<1>6. ASSUME NEW p \in Procs, Build(p) \/ TakeLock(p) \/ Opens(p) \/ ReloadReads(p)
      PROVE  Quiet
  <2> DEFINE o == proc[p]
             g == Grammar(file)
             Read(base) == [o EXCEPT !.st = "built", !.list = file, !.seen = mtime,
                              !.grammar = g, !.base = base,
                              !.counters = LoadCounters(base, clock)]
             row == [file |-> file, at |-> mtime]
             d == [o EXCEPT !.hup = FALSE, !.reading = row]
             At(st) == [o EXCEPT !.st = st]
  <2>1. \/ Goes(p, NoProc) \/ Goes(p, d)
        \/ \E base : Goes(p, Read(base))
        \/ \E st : Goes(p, At(st))
    <3>1. CASE Build(p)
      BY <3>1, Zenon DEF Build, Gone
    <3>2. CASE TakeLock(p)
      BY <3>2, Zenon DEF TakeLock, Gone
    <3>3. CASE Opens(p)
      BY <3>3, Zenon DEF Opens
    <3>4. CASE ReloadReads(p)
      BY <3>4, Zenon DEF ReloadReads
    <3> QED BY <1>6, <3>1, <3>2, <3>3, <3>4, Zenon
  <2>2. o \in Processes
    BY <1>1
  <2> HIDE DEF o, g, row
  <2>3. /\ d.sess = o.sess /\ \A st : At(st).sess = o.sess
        /\ \A base : Read(base).sess = o.sess
    BY <2>2 DEF Processes
  <2>4. /\ Keeps(proc[p].sess, d.sess) /\ \A st : Keeps(proc[p].sess, At(st).sess)
        /\ \A base : Keeps(proc[p].sess, Read(base).sess)
    <3> HIDE DEF Read, d, At
    <3> QED BY <2>3 DEF Keeps, o
  <2> HIDE DEF Read, d, At
  <2> QED BY <1>3, <1>4, <2>1, <2>4
<1>7. ASSUME NEW p \in Procs, Hup(p) \/ Attributed(p) \/ StreamEnds(p) PROVE Quiet
  <2> DEFINE o == proc[p]
             u == [o EXCEPT !.hup = TRUE]
             k == [o EXCEPT !.known = TRUE]
             ends == [o.sess EXCEPT !.gone = TRUE]
             g == [o EXCEPT !.sess = ends]
  <2>1. Goes(p, u) \/ Goes(p, k) \/ Goes(p, g)
    <3>1. CASE Hup(p)
      BY <3>1, Zenon DEF Hup
    <3>2. CASE Attributed(p)
      BY <3>2, Zenon DEF Attributed
    <3>3. CASE StreamEnds(p)
      <4>1. Goes(p, g)
        BY <3>3 DEF StreamEnds
      <4> QED BY <4>1
    <3> HIDE DEF u, k, g
    <3> QED BY <1>7, <3>1, <3>2, <3>3
  <2>2. o \in Processes /\ o.sess \in Sessions
    BY <1>1 DEF Processes
  <2> HIDE DEF o
  <2>3. ends.open = o.sess.open /\ ends.win = o.sess.win
    BY <2>2 DEF Sessions
  <2> HIDE DEF ends
  <2>4. u.sess = o.sess /\ k.sess = o.sess /\ g.sess = ends
    BY <2>2 DEF Processes
  <2>5. Keeps(proc[p].sess, u.sess) /\ Keeps(proc[p].sess, k.sess) /\ Keeps(proc[p].sess, g.sess)
    <3> HIDE DEF u, k, g
    <3> QED BY <2>3, <2>4 DEF Keeps, o
  <2> HIDE DEF u, k, g
  <2> QED BY <1>3, <2>1, <2>5
<1>8. ASSUME NEW p \in Procs, CaptureEnds(p) \/ CaptureFails(p) \/ Stop(p) \/ Crash(p) PROVE Quiet
  BY <1>4, <1>8 DEF CaptureEnds, CaptureFails, Stop, Crash, Gone
<1>9. ASSUME UnitStarts \/ HandStarts PROVE Quiet
  <2>1. PICK p \in Procs, live \in BOOLEAN :
          Goes(p, [NoProc EXCEPT !.st = "exec", !.live = live])
            \/ Goes(p, [NoProc EXCEPT !.st = "exec"])
    <3>1. CASE UnitStarts
      BY <3>1, Zenon DEF UnitStarts, Procs
    <3>2. CASE HandStarts
      BY <3>2, Zenon DEF HandStarts, Procs
    <3> QED BY <1>9, <3>1, <3>2, Zenon
  <2> DEFINE o == NoProc
             a == [o EXCEPT !.st = "exec", !.live = live]
             b == [o EXCEPT !.st = "exec"]
  <2>2. o \in Processes /\ o.sess = NoSession
    BY NoProcType
  <2>3. Goes(p, a) \/ Goes(p, b)
    BY <2>1, Zenon
  <2> HIDE DEF o
  <2>4. a.sess = o.sess /\ b.sess = o.sess
    BY <2>2 DEF Processes
  <2> HIDE DEF a, b
  <2> QED BY <1>3, <2>2, <2>3, <2>4 DEF Keeps
<1>10. ASSUME UNCHANGED vars \/ GivesUp \/ Tick \/ Edit \/ DiskChanges PROVE Quiet
  BY <1>2, <1>10 DEF vars, GivesUp, Tick, Edit, DiskChanges
<1>11. ASSUME NEW p \in Procs, Aloud(p)
       PROVE  Keeps(proc[q].sess, proc'[q].sess) \/ Aloud(q)
  <2>1. CASE q = p
    BY <1>11, <2>1
  <2>2. CASE q # p
    <3>1. PICK r : Goes(p, r)
      BY <1>11 DEF OnAudio
    <3>2. proc'[q] = proc[q]
      BY <1>1, <2>2, <3>1 DEF Goes
    <3> QED BY <3>2 DEF Keeps
  <2> QED BY <2>1, <2>2
<1>12. Quiet \/ \E p \in Procs : Aloud(p)
  <2> HIDE DEF Quiet, Aloud
  <2> DEFINE Acts(p) == Run(p) \/ CaptureFails(p) \/ Stop(p) \/ Crash(p)
                          \/ Hup(p) \/ Attributed(p) \/ StreamEnds(p)
  <2>1. ASSUME NEW p \in Procs, Acts(p) PROVE Quiet \/ Aloud(p)
    <3>1. \/ Housekeep(p) \/ Build(p) \/ TakeLock(p) \/ Opens(p) \/ ReloadReads(p)
          \/ Hup(p) \/ Attributed(p) \/ StreamEnds(p)
          \/ CaptureEnds(p) \/ CaptureFails(p) \/ Stop(p) \/ Crash(p) \/ Aloud(p)
      BY <2>1, Zenon DEF Run, Aloud
    <3> QED BY <1>5, <1>6, <1>7, <1>8, <3>1
  <2>2. (\E p \in Procs : Acts(p)) \/ UnitStarts \/ HandStarts
        \/ UNCHANGED vars \/ GivesUp \/ Tick \/ Edit \/ DiskChanges
    BY Zenon DEF Next
  <2> HIDE DEF Acts
  <2> QED BY <1>9, <1>10, <2>1, <2>2
<1> QED BY <1>11, <1>12

\* After audio the stream has a session.
LEMMA AudioOpens ==
    ASSUME WorldInv, HearInv, NEW p \in Procs, NEW w \in left.vocabulary,
           NEW final \in BOOLEAN, OnAudio(p, w, final)
    PROVE  proc'[p].sess.open
<1> DEFINE o == Opened(p)
           pend == Heard(o, w)
           s == [win |-> o.sess.win, pend |-> pend, sid |-> o.sess.sid,
                 counted |-> o.sess.counted, aged |-> o.sess.aged,
                 counters |-> o.counters, log |-> log]
           said == Utterance(p, s, pend)
           v == said.win
           g == said.aged
           c == said.counters
           heard == [o.sess EXCEPT !.win = v, !.pend = <<>>, !.aged = g]
           waits == [o.sess EXCEPT !.pend = pend]
           r == [o EXCEPT !.counters = c, !.sess = heard]
           q == [o EXCEPT !.sess = waits]
<1>1. o \in Processes /\ o.sess.open
  BY OpenedKeeps
<1>2. Goes(p, r) \/ Goes(p, q)
  <2>1. CASE final
    BY <2>1, Zenon DEF OnAudio
  <2>2. CASE ~final
    BY <2>2, Zenon DEF OnAudio
  <2> QED BY <2>1, <2>2
<1> HIDE DEF o, pend, said, v, g, c
<1>3. DOMAIN o = ProcFields /\ p \in DOMAIN proc
      /\ DOMAIN o.sess = {"open", "gone", "pend", "win", "sid", "counted", "aged"}
  <2>1. o.sess \in Sessions
    BY <1>1 DEF Processes
  <2> QED BY <1>1, <2>1 DEF Processes, ProcFields, Sessions, HearInv
<1>4. heard.open /\ waits.open
  BY <1>1, <1>3
<1> HIDE DEF heard, waits
<1>5. r.sess = heard /\ q.sess = waits
  BY <1>3 DEF ProcFields
<1> HIDE DEF r, q
<1> QED BY <1>2, <1>3, <1>4, <1>5 DEF Goes

\* No stream has words without a session: none are lost when one opens.
SilentInv == \A q \in Procs : SilentUntilOpen(q)

\* At the start nobody has heard anything ...
LEMMA SilentInit == Init => SilentInv
<1> SUFFICES ASSUME Init, NEW q \in Procs PROVE SilentUntilOpen(q)
  BY DEF SilentInv
<1> DEFINE o == NoProc
           e == [o EXCEPT !.st = "exec"]
<1>1. o \in Processes /\ o.sess = NoSession
  BY NoProcType
<1>2. proc[q] = e \/ proc[q] = o
  BY DEF Init
<1> HIDE DEF o
<1>3. e.sess = o.sess
  BY <1>1 DEF Processes
<1> HIDE DEF e
<1>4. proc[q].sess = NoSession
  BY <1>1, <1>2, <1>3
<1> QED BY <1>4 DEF SilentUntilOpen, NoSession

\* ... and words come with a session, and go with it.
LEMMA SilentNext ==
    ASSUME WorldInv, HearInv, SilentInv, [Next]_vars
    PROVE  SilentInv'
<1> SUFFICES ASSUME NEW q \in Procs PROVE SilentUntilOpen(q)'
  BY DEF SilentInv
<1>1. SilentUntilOpen(q)
  BY DEF SilentInv
<1>2. CASE Keeps(proc[q].sess, proc'[q].sess)
  <2>1. NoSession.win = NewWindow
    BY DEF NoSession
  <2> QED BY <1>1, <1>2, <2>1 DEF Keeps, SilentUntilOpen
<1>3. CASE \E w \in left.vocabulary, final \in BOOLEAN : OnAudio(q, w, final)
  BY <1>3, AudioOpens DEF SilentUntilOpen
<1> QED BY <1>2, <1>3, WindowStep

\* The Tier A phrases are reported when their words are heard, however the
\* recogniser cuts speech into utterances and whatever the list, the window and
\* the matches so far: a phrase heard word for word has its trigger among the
\* words that wake it, is read there with the best score there is, and nothing
\* but the divergences the property names keeps that match from being chosen
\* and reported.
THEOREM ConfidentHolds == Spec => ConfidentPhraseFires
<1> DEFINE Inv == RecordInv /\ SilentInv
<1>1. ASSUME Inv, [Next]_vars, NEW p \in Procs,
             proc'[p].sess.open, proc'[p].sess.win # proc[p].sess.win
      PROVE  HeardIsReported(p)
  <2>1. WorldInv /\ HearInv /\ ListInv /\ SessionNoted(log, proc[p]) /\ SilentUntilOpen(p)
    BY <1>1 DEF RecordInv, DaemonInv, CallsInv, RunKept, SilentInv
  <2>2. ~NoSession.open
    BY DEF NoSession
  <2>3. ~Keeps(proc[p].sess, proc'[p].sess)
    BY <1>1, <2>2 DEF Keeps
  <2>4. PICK w \in left.vocabulary, final \in BOOLEAN : OnAudio(p, w, final)
    BY <1>1, <2>1, <2>3, WindowStep
  <2> QED BY <1>1, <2>1, <2>4, AudioReports
<1>2. Inv /\ [Next]_vars =>
        [\A p \in Procs :
           proc'[p].sess.open /\ proc'[p].sess.win # proc[p].sess.win
               => HeardIsReported(p)]_vars
  BY <1>1, Zenon
<1>3. Init => Inv
  BY DaemonInvInit, EvidenceInit, CallsInit, SilentInit DEF RecordInv
<1>4. Inv /\ [Next]_vars => Inv'
  <2> SUFFICES ASSUME Inv, [Next]_vars PROVE Inv' OBVIOUS
  <2>1. RecordInv'
    BY RecordInvNext
  <2>2. SilentInv'
    BY SilentNext DEF RecordInv, DaemonInv
  <2> QED BY <2>1, <2>2
<1> HIDE DEF Inv
<1> QED BY <1>2, <1>3, <1>4, PTL DEF Spec, ConfidentPhraseFires
=============================================================================
