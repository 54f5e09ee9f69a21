------------------------------ MODULE DidPool ------------------------------
(***************************************************************************)
(* DID selection under a daily cap: the subroutine [sbc-did] of            *)
(* asterisk/extensions.conf.tpl, the part of [sbc-customer] that calls it, *)
(* and the didctl.sh commands that write the same counters.                *)
(*                                                                         *)
(* Every call is a channel thread of its own.  Asterisk runs one dialplan  *)
(* priority at a time per channel and interleaves channels freely, so each *)
(* read or write of something shared (a rotor global, a DID lock, a row of *)
(* the AstDB) is one action here; computations on channel variables are    *)
(* folded into the neighbouring action.                                    *)
(***************************************************************************)
EXTENDS Integers, Sequences, FiniteSets

CONSTANTS
    Calls,          \* the channels; each makes one call
    DIDs,           \* our own numbers
    Keys,           \* pool keys: the NPAs customers dial, and Overflow
    Overflow,       \* the key of the overflow pool
    Pool,           \* Keys -> sequence of DIDs (SBC_DID_P_<key>_<idx>)
    Cap,            \* SBC_DID_CAP, the daily cap of one DID
    MaxTries,       \* TRYLOCK retries before the pick goes on unlocked (3)
    KeepDays,       \* days of counters `didctl.sh prune` keeps
    MaxDay,         \* bound of this model: the last day it reaches
    OperatorValues, \* values an operator gives `didctl.sh set`
    OperatorDays,   \* bound of this model: the days an operator is at work
    NoCall,         \* a lock nobody holds
    NoDid,          \* an empty SBC_DID
    NoValue         \* no operator value

ASSUME CallsFinite == IsFiniteSet(Calls)
ASSUME OverflowKey == Overflow \in Keys
ASSUME PoolType == Pool \in [Keys -> Seq(DIDs)]
ASSUME CapPositive == Cap \in Nat /\ Cap > 0
ASSUME TriesNat == MaxTries \in Nat
ASSUME DaysNat == MaxDay \in Nat /\ MaxDay > 0 /\ KeepDays \in Nat /\ KeepDays > 0
ASSUME OperatorNat == OperatorValues \subseteq Nat
ASSUME Distinct == NoCall \notin Calls /\ NoDid \notin DIDs /\ NoValue \notin Nat

Days == 1 .. MaxDay
Npas == Keys \ {Overflow}

VARIABLES
    pc,        \* where each call's thread is
    day,       \* SBC_DAY, captured once per call
    key,       \* SBC_P_KEY, the pool being walked
    npa,       \* SBC_NPA, the dialled area code
    rot,       \* SBC_P_ROT
    i,         \* SBC_P_I, candidates stepped over
    cand,      \* SBC_P_CAND, the candidate DID
    tries,     \* SBC_P_TRIES
    used,      \* SBC_P_USED, the count this call read
    did,       \* SBC_DID, the number to assert
    rotor,     \* GLOBAL(SBC_ROT_<key>), in memory
    lock,      \* the did_<DID> locks, each its holder or NoCall
    db,        \* sbc/didcnt/<day>/<DID>; an absent row reads as 0
    today,     \* the local date
    charged,   \* history: calls that wrote their increment
    blind,     \* history: those that wrote it without the lock
    operator   \* history: the last value an operator wrote to a counter

walk   == <<day, key, npa, rot, i, cand, tries, used, did>>
world  == <<rotor, lock, db, today>>
ghosts == <<charged, blind, operator>>
vars   == <<walk, world, ghosts, pc>>

Walking == {"trylock", "read_count", "write_count", "unlock", "capped"}
Settled == {"new", "picked", "rejected", "gone"}
PcStates == Settled \cup Walking \cup {"read_rotor", "set_rotor", "return", "hungup"}

Live(c) == pc[c] \notin Settled
Goto(c, from, to) == pc[c] = from /\ pc' = [pc EXCEPT ![c] = to]

Init ==
    /\ pc = [c \in Calls |-> "new"]
    /\ day = [c \in Calls |-> 1]
    /\ key = [c \in Calls |-> Overflow]
    /\ npa = [c \in Calls |-> Overflow]
    /\ rot = [c \in Calls |-> 0]
    /\ i = [c \in Calls |-> 0]
    /\ cand = [c \in Calls |-> NoDid]
    /\ tries = [c \in Calls |-> 0]
    /\ used = [c \in Calls |-> 0]
    /\ did = [c \in Calls |-> NoDid]
    /\ rotor = [k \in Keys |-> 0]
    /\ lock = [x \in DIDs |-> NoCall]
    /\ db = [d \in Days |-> [x \in DIDs |-> 0]]
    /\ today = 1
    /\ charged = {} /\ blind = {}
    /\ operator = [d \in Days |-> [x \in DIDs |-> NoValue]]

-----------------------------------------------------------------------------
(* The call, [sbc-customer] and [sbc-did].                                 *)

\* The call is admitted: its day is captured and the NPA's pool is asked
\* first.
Start(c) ==
    /\ Goto(c, "new", "read_rotor")
    /\ day' = [day EXCEPT ![c] = today]
    /\ \E k \in Npas : npa' = [npa EXCEPT ![c] = k] /\ key' = [key EXCEPT ![c] = k]
    /\ UNCHANGED <<rot, i, cand, tries, used, did, world, ghosts>>

\* Mutant: the rotor steps backwards.
ReadRotorBackwards(c) ==
    /\ IF Pool[key[c]] = <<>>
       THEN Goto(c, "read_rotor", "return") /\ rot' = rot
       ELSE Goto(c, "read_rotor", "set_rotor")
            /\ rot' = [rot EXCEPT ![c] = rotor[key[c]] - 1]
    /\ i' = [i EXCEPT ![c] = 0]
    /\ UNCHANGED <<day, key, npa, cand, tries, used, did, world, ghosts>>

\* An NPA without a pool returns at once and its rotor is not touched;
\* otherwise the rotor global is read ...
ReadRotor(c) ==
    /\ IF Pool[key[c]] = <<>>
       THEN Goto(c, "read_rotor", "return") /\ rot' = rot
       ELSE Goto(c, "read_rotor", "set_rotor")
            /\ rot' = [rot EXCEPT ![c] = rotor[key[c]] + 1]
    /\ i' = [i EXCEPT ![c] = 0]
    /\ UNCHANGED <<day, key, npa, cand, tries, used, did, world, ghosts>>

\* The member of the ring that walk position n looks at.
Candidate(c, n) ==
    LET ring == Pool[key[c]] IN ring[((rot[c] + n) % Len(ring)) + 1]

\* ... and written back by the next priority; the walk starts there.
SetRotor(c) ==
    /\ Goto(c, "set_rotor", "trylock")
    /\ rotor' = [rotor EXCEPT ![key[c]] = rot[c]]
    /\ cand' = [cand EXCEPT ![c] = Candidate(c, 0)]
    /\ tries' = [tries EXCEPT ![c] = 0]
    /\ UNCHANGED <<day, key, npa, rot, i, used, did, lock, db, today, ghosts>>

\* TRYLOCK never blocks: it takes a free lock, or it is tried again 50 ms
\* later, and after MaxTries retries the pick goes on without the lock.
TryLock(c) ==
    /\ pc[c] = "trylock"
    /\ \/ /\ lock[cand[c]] = NoCall
          /\ lock' = [lock EXCEPT ![cand[c]] = c]
          /\ Goto(c, "trylock", "read_count")
          /\ UNCHANGED tries
       \/ /\ lock[cand[c]] # NoCall
          /\ tries' = [tries EXCEPT ![c] = @ + 1]
          /\ Goto(c, "trylock", IF tries[c] < MaxTries THEN "trylock" ELSE "read_count")
          /\ UNCHANGED lock
    /\ UNCHANGED <<day, key, npa, rot, i, cand, used, did, rotor, db, today, ghosts>>

\* Mutant: the cap test is off by one.
ReadCountOverCap(c) ==
    /\ pc[c] = "read_count"
    /\ used' = [used EXCEPT ![c] = db[day[c]][cand[c]]]
    /\ Goto(c, "read_count", IF used'[c] > Cap THEN "capped" ELSE "write_count")
    /\ UNCHANGED <<day, key, npa, cand, rot, i, tries, did, world, ghosts>>

ReadCount(c) ==
    /\ pc[c] = "read_count"
    /\ used' = [used EXCEPT ![c] = db[day[c]][cand[c]]]
    /\ Goto(c, "read_count", IF used'[c] >= Cap THEN "capped" ELSE "write_count")
    /\ UNCHANGED <<day, key, npa, rot, i, cand, tries, did, world, ghosts>>

WriteCount(c) ==
    /\ Goto(c, "write_count", "unlock")
    /\ db' = [db EXCEPT ![day[c]] = [@ EXCEPT ![cand[c]] = used[c] + 1]]
    /\ charged' = charged \cup {c}
    /\ blind' = IF lock[cand[c]] = c THEN blind ELSE blind \cup {c}
    /\ UNCHANGED <<walk, rotor, lock, today, operator>>

\* UNLOCK runs only if this call's TRYLOCK succeeded.
Unlock(c) == lock' = [lock EXCEPT ![cand[c]] = IF @ = c THEN NoCall ELSE @]

Release(c) ==
    /\ Goto(c, "unlock", "return")
    /\ Unlock(c)
    /\ did' = [did EXCEPT ![c] = cand[c]]
    /\ UNCHANGED <<day, key, npa, rot, i, cand, tries, used, rotor, db, today, ghosts>>

\* Mutant: the next candidate is tried with this one's lock still held.
CappedKeepsLock(c) ==
    LET last == i[c] + 1 >= Len(Pool[key[c]]) IN
    /\ Goto(c, "capped", IF last THEN "return" ELSE "trylock")
    /\ i' = [i EXCEPT ![c] = @ + 1]
    /\ cand' = IF last THEN cand ELSE [cand EXCEPT ![c] = Candidate(c, i[c] + 1)]
    /\ tries' = [tries EXCEPT ![c] = 0]
    /\ UNCHANGED <<day, key, npa, rot, used, did, rotor, lock, db, today, ghosts>>

\* Mutant: the walk gives up one candidate early.
CappedStopsEarly(c) ==
    LET last == i[c] + 2 >= Len(Pool[key[c]]) IN
    /\ Goto(c, "capped", IF last THEN "return" ELSE "trylock")
    /\ Unlock(c)
    /\ i' = [i EXCEPT ![c] = @ + 1]
    /\ cand' = IF last THEN cand ELSE [cand EXCEPT ![c] = Candidate(c, i[c] + 1)]
    /\ tries' = [tries EXCEPT ![c] = 0]
    /\ UNCHANGED <<day, key, npa, rot, used, did, rotor, db, today, ghosts>>

\* Mutant: the walk counter is not advanced.
CappedStandsStill(c) ==
    LET last == i[c] + 1 > Len(Pool[key[c]]) IN
    /\ Goto(c, "capped", IF last THEN "return" ELSE "trylock")
    /\ Unlock(c)
    /\ tries' = [tries EXCEPT ![c] = 0]
    /\ UNCHANGED <<day, key, npa, rot, i, cand, used, did, rotor, db, today, ghosts>>

\* The candidate is done for the day: release it, then look at the next one
\* of the ring, or return with nothing after the last.
Capped(c) ==
    LET last == i[c] + 1 >= Len(Pool[key[c]]) IN
    /\ Goto(c, "capped", IF last THEN "return" ELSE "trylock")
    /\ Unlock(c)
    /\ i' = [i EXCEPT ![c] = @ + 1]
    /\ cand' = IF last THEN cand ELSE [cand EXCEPT ![c] = Candidate(c, i[c] + 1)]
    /\ tries' = [tries EXCEPT ![c] = 0]
    /\ UNCHANGED <<day, key, npa, rot, used, did, rotor, db, today, ghosts>>

\* Back in [sbc-customer]: with a number the call goes on to be dialled; the
\* NPA's pool falls through to overflow, and overflow to rej_nodid.
Return(c) ==
    /\ Goto(c, "return",
            IF did[c] # NoDid THEN "picked"
            ELSE IF key[c] = Overflow THEN "rejected" ELSE "read_rotor")
    /\ key' = [key EXCEPT ![c] = IF did[c] # NoDid THEN @ ELSE Overflow]
    /\ UNCHANGED <<day, npa, rot, i, cand, tries, used, did, world, ghosts>>

\* The customer cancels: the thread leaves the dialplan between two
\* priorities.  A lock it holds stays held until the channel is destroyed.
Hangup(c) ==
    /\ Live(c) /\ pc[c] # "hungup"
    /\ pc' = [pc EXCEPT ![c] = "hungup"]
    /\ UNCHANGED <<walk, world, ghosts>>

Teardown(c) ==
    /\ Goto(c, "hungup", "gone")
    /\ lock' = [x \in DIDs |-> IF lock[x] = c THEN NoCall ELSE lock[x]]
    /\ UNCHANGED <<walk, rotor, db, today, ghosts>>

-----------------------------------------------------------------------------
(* The world around the calls.                                             *)

\* Mutant: the counters are globals, so a restart forgets them too.
RestartForgetsCounters ==
    /\ pc' = [c \in Calls |-> IF Live(c) THEN "gone" ELSE pc[c]]
    /\ lock' = [x \in DIDs |-> NoCall]
    /\ rotor' = [k \in Keys |-> 0]
    /\ db' = [d \in Days |-> [x \in DIDs |-> 0]]
    /\ UNCHANGED <<walk, today, ghosts>>

\* Asterisk restarts: calls, locks and rotors go, the AstDB stays.
Restart ==
    /\ pc' = [c \in Calls |-> IF Live(c) THEN "gone" ELSE pc[c]]
    /\ lock' = [x \in DIDs |-> NoCall]
    /\ rotor' = [k \in Keys |-> 0]
    /\ UNCHANGED <<walk, db, today, ghosts>>

\* A pick lasts well under a day, so it sees at most one midnight.
Midnight ==
    /\ today < MaxDay
    /\ \A c \in Calls : Live(c) => day[c] = today
    /\ today' = today + 1
    /\ UNCHANGED <<walk, rotor, lock, db, ghosts, pc>>

\* didctl.sh set <did> <n>; didctl.sh reset <did> is n = 0.  Neither takes
\* the DID's lock.
OperatorSet(x, n) ==
    /\ db' = [db EXCEPT ![today] = [@ EXCEPT ![x] = n]]
    /\ operator' = [operator EXCEPT ![today] = [@ EXCEPT ![x] = n]]
    /\ UNCHANGED <<walk, rotor, lock, today, charged, blind, pc>>

\* didctl.sh reset --all: deltree of today's family.
OperatorResetAll ==
    /\ OperatorValues # {}
    /\ db' = [db EXCEPT ![today] = [x \in DIDs |-> 0]]
    /\ operator' = [operator EXCEPT ![today] = [x \in DIDs |-> 0]]
    /\ UNCHANGED <<walk, rotor, lock, today, charged, blind, pc>>

\* The oldest day whose counters prune keeps.
Cutoff == today - KeepDays

\* didctl.sh prune: day families before the cutoff are dropped.
Prune ==
    /\ \E d \in Days : d < Cutoff
    /\ db' = [d \in Days |-> IF d < Cutoff THEN [x \in DIDs |-> 0] ELSE db[d]]
    /\ UNCHANGED <<walk, rotor, lock, today, ghosts, pc>>

\* What the call's own thread does once the call exists.
Run(c) ==
    \/ ReadRotor(c) \/ SetRotor(c) \/ TryLock(c) \/ ReadCount(c) \/ WriteCount(c)
    \/ Release(c) \/ Capped(c) \/ Return(c) \/ Teardown(c)

Operator ==
    /\ today \in OperatorDays
    /\ \/ \E x \in DIDs, n \in OperatorValues : OperatorSet(x, n)
       \/ OperatorResetAll

Next ==
    \/ \E c \in Calls : Start(c) \/ Run(c) \/ Hangup(c)
    \/ Restart \/ Midnight \/ Operator \/ Prune

Spec == Init /\ [][Next]_vars

\* A channel that can run does: Asterisk's threads are scheduled by the
\* kernel, and no priority of the pick blocks.
FairSpec == Spec /\ \A c \in Calls : WF_vars(Run(c))
-----------------------------------------------------------------------------
(* Properties.                                                             *)

TypeOK ==
    /\ pc \in [Calls -> PcStates]
    /\ day \in [Calls -> Days]
    /\ key \in [Calls -> Keys] /\ npa \in [Calls -> Keys]
    /\ rot \in [Calls -> Nat] /\ i \in [Calls -> Nat]
    /\ cand \in [Calls -> DIDs \cup {NoDid}]
    /\ tries \in [Calls -> Nat] /\ used \in [Calls -> Nat]
    /\ did \in [Calls -> DIDs \cup {NoDid}]
    /\ rotor \in [Keys -> Nat]
    /\ lock \in [DIDs -> Calls \cup {NoCall}]
    /\ db \in [Days -> [DIDs -> Nat]]
    /\ today \in Days
    /\ charged \in SUBSET Calls /\ blind \in SUBSET charged
    /\ operator \in [Days -> [DIDs -> Nat \cup {NoValue}]]

\* The calls that took number x on day d, and those that did so unlocked.
Taken(d, x) == {c \in charged : day[c] = d /\ cand[c] = x}
Blind(d, x) == Taken(d, x) \cap blind

\* No operator has written the counter of x on day d.
Untouched(d, x) == operator[d][x] = NoValue
\* Prune leaves day d alone.
Kept(d) == d >= Cutoff

\* The daily cap (extensions.conf.tpl:792-805): a number whose counter no
\* operator wrote carries at most Cap calls a day, and each pick that went
\* on without the lock can cost at most one more cap's worth of calls.
CapOvershoot ==
    \A d \in Days, x \in DIDs : Untouched(d, x) =>
        Cardinality(Taken(d, x)) <= Cap * (1 + Cardinality(Blind(d, x)))

\* While every pick of the number held its lock the stored counter is
\* exactly the number of calls it carried: cancelled calls, restarts,
\* midnight and prune lose and invent none (extensions.conf.tpl:850-855).
CountersExact ==
    \A d \in Days, x \in DIDs :
        Untouched(d, x) /\ Kept(d) /\ Blind(d, x) = {}
            => db[d][x] = Cardinality(Taken(d, x))

\* A channel never holds the lock of a number other than the one it is
\* looking at, so it never takes a lock while holding another
\* (extensions.conf.tpl:860-861); outside the pick it holds none.
OneLockAtATime ==
    \A x \in DIDs, c \in Calls : lock[x] = c =>
        /\ cand[c] = x
        /\ pc[c] \in {"read_count", "write_count", "unlock", "capped", "hungup"}

PoolMembers(k) == {Pool[k][n] : n \in 1 .. Len(Pool[k])}

\* A call is refused with NO_DID_AVAILABLE only when each member of its
\* NPA's pool and of overflow has carried a full cap of calls that day
\* (extensions.conf.tpl:654-660, 866-867).
RejectedOnlyWhenExhausted ==
    \A c \in Calls : pc[c] = "rejected" =>
        \A x \in PoolMembers(npa[c]) \cup PoolMembers(Overflow) :
            Untouched(day[c], x) /\ Blind(day[c], x) = {}
                => Cardinality(Taken(day[c], x)) = Cap

\* Every pick ends, in a number, a refusal or the end of the call: the ring
\* walk is finite and a lock is waited for a bounded number of times.
PickEnds == \A c \in Calls : Live(c) ~> ~Live(c)

-----------------------------------------------------------------------------
(* The promise.                                                            *)

AskedFor == [k \in Keys |-> PoolMembers(k) \cup PoolMembers(Overflow)]
Entered == [d \in Days |-> [x \in DIDs |-> Taken(d, x)]]
Written == {r \in Days \X DIDs : ~Untouched(r[1], r[2])}
Refused == {c \in Calls : pc[c] = "rejected"}

Book == INSTANCE DidBudget
        WITH Asked <- AskedFor, taken <- Entered, written <- Written, refused <- Refused

\* The walk keeps the book of DidBudget: each step enters one call, refuses
\* one, lets the operator write, or leaves the book alone
\* (extensions.conf.tpl:792-805, 850-867).
KeepsTheBook == Book!Spec
=============================================================================
