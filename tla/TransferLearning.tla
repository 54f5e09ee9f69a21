-------------------------- MODULE TransferLearning --------------------------
(***************************************************************************)
(* Learned transfer destinations: one AstDB row per endpoint and           *)
(* destination, read on the call path (extensions.conf.tpl, rule 2),       *)
(* counted up by the hangup handler of every answered call, and written by *)
(* didctl.sh transfers and didctl.sh prune without any lock.               *)
(*                                                                         *)
(* Rule 1 (toll-free) reads and writes no state and is left out.           *)
(***************************************************************************)
EXTENDS Integers, FiniteSets, FiniteSetsExt

CONSTANTS
    Calls,       \* the channels; each makes one call
    Keys,        \* <endpoint>/<destination> pairs
    MinCalls,    \* SBC_XFER_MIN_CALLS
    MinAcd,      \* SBC_XFER_MIN_ACD
    Durations,   \* billsec values a call can have
    ExpireDays,  \* TRANSFER_EXPIRE_DAYS
    MaxDay,      \* bound of this model: the last day it reaches
    NoRow,       \* the key is absent
    NoCall       \* a lock nobody holds

ASSUME CallsFinite == IsFiniteSet(Calls)
ASSUME ThresholdsNat == MinCalls \in Nat \ {0} /\ MinAcd \in Nat
ASSUME DurationsNat == Durations \subseteq Nat
ASSUME DaysNat == ExpireDays \in Nat /\ MaxDay \in Nat

Rows == [flag : {"L", "P", "S"}, n : Nat, b : Nat, seen : Nat]
ASSUME NoRowFresh == NoRow \notin Rows
Row(f, n, b, d) == [flag |-> f, n |-> n, b |-> b, seen |-> d]

VARIABLES
    db,        \* sbc/xfer/<endpoint>/<destination>
    lock,      \* the xfer_<endpoint>_<destination> locks
    today,     \* the local date
    pc,        \* where each call is
    key,       \* the row of its endpoint and destination
    rule,      \* SBC_XFER: how the call path classified it
    bs,        \* SBC_H_BS, the billed seconds
    cur,       \* SBC_H_CUR, the row the hangup handler read
    doomed,    \* rows prune has listed and not yet deleted
    counted,   \* history: the calls that wrote their count
    decision,  \* history: the operator's last word on a row
    raced      \* history: rows a stale reader held when the operator spoke

callVars == <<pc, key, rule, bs, cur>>
ghosts == <<counted, decision, raced>>
vars == <<db, lock, today, callVars, doomed, ghosts>>

Goto(c, from, to) == pc[c] = from /\ pc' = [pc EXCEPT ![c] = to]

Init ==
    /\ db = [k \in Keys |-> NoRow]
    /\ lock = [k \in Keys |-> NoCall]
    /\ today = 1
    /\ pc = [c \in Calls |-> "idle"]
    /\ key \in [Calls -> Keys]
    /\ rule = [c \in Calls |-> "none"]
    /\ bs = [c \in Calls |-> 0]
    /\ cur = [c \in Calls |-> NoRow]
    /\ doomed = {}
    /\ counted = {}
    /\ decision = [k \in Keys |-> "none"]
    /\ raced = {}

-----------------------------------------------------------------------------
(* The call.                                                               *)

\* Mutant: duration alone qualifies a row.
ClassifyByAcdOnly(r) ==
    IF r = NoRow \/ r.flag = "S" THEN "pool"
    ELSE IF r.flag = "P" THEN "pinned"
    ELSE IF r.b > MinAcd * r.n THEN "learned" ELSE "pool"

\* Rule 2: pinned, or learned with both thresholds met.
Classify(r) ==
    IF r = NoRow \/ r.flag = "S" THEN "pool"
    ELSE IF r.flag = "P" THEN "pinned"
    ELSE IF r.n >= MinCalls /\ r.b > MinAcd * r.n THEN "learned" ELSE "pool"

\* The call path reads the row once and never writes it.
Dial(c) ==
    /\ Goto(c, "idle", "up")
    /\ rule' = [rule EXCEPT ![c] = Classify(db[key[c]])]
    /\ UNCHANGED <<db, lock, today, key, bs, cur, doomed, ghosts>>

\* The call ends: unanswered calls and answers under a second teach nothing.
EndUnanswered(c) ==
    /\ Goto(c, "up", "done")
    /\ UNCHANGED <<db, lock, today, key, rule, bs, cur, doomed, ghosts>>

EndAnswered(c, t) ==
    /\ Goto(c, "up", IF t < 1 THEN "done" ELSE "ended")
    /\ bs' = [bs EXCEPT ![c] = t]
    /\ UNCHANGED <<db, lock, today, key, rule, cur, doomed, ghosts>>

\* What the handler goes on with: the row, or a fresh one when none is stored.
Started(r) == IF r = NoRow THEN Row("L", 0, 0, 0) ELSE r

\* The h extension reads the row.  A row is started only by a call longer
\* than the ACD threshold, a suppressed one is left alone.
ReadRow(c) ==
    LET r == db[key[c]]
        skip == IF r = NoRow THEN bs[c] <= MinAcd ELSE r.flag = "S" IN
    /\ Goto(c, "ended", IF skip THEN "done" ELSE "counting")
    /\ cur' = [cur EXCEPT ![c] = IF skip THEN NoRow ELSE Started(r)]
    /\ UNCHANGED <<db, lock, today, key, rule, bs, doomed, ghosts>>

\* One attempt at the lock, after the read; the write does not depend on it.
TryLock(c) ==
    /\ Goto(c, "counting", "writing")
    /\ lock' = [lock EXCEPT ![key[c]] = IF @ = NoCall THEN c ELSE @]
    /\ UNCHANGED <<db, today, key, rule, bs, cur, doomed, ghosts>>

\* Mutant: the seconds are read again when they are written, the count is not.
WriteRowTwoReads(c) ==
    LET b == IF db[key[c]] = NoRow THEN 0 ELSE db[key[c]].b IN
    /\ Goto(c, "writing", "written")
    /\ db' = [db EXCEPT ![key[c]] = Row(cur[c].flag, cur[c].n + 1, b + bs[c], today)]
    /\ counted' = counted \cup {c}
    /\ UNCHANGED <<lock, today, key, rule, bs, cur, doomed, decision, raced>>

WriteRow(c) ==
    /\ Goto(c, "writing", "written")
    /\ db' = [db EXCEPT ![key[c]] =
                Row(cur[c].flag, cur[c].n + 1, cur[c].b + bs[c], today)]
    /\ counted' = counted \cup {c}
    /\ UNCHANGED <<lock, today, key, rule, bs, cur, doomed, decision, raced>>

\* UNLOCK, if the lock was had; the channel and its variables are gone.
Unlock(c) ==
    /\ Goto(c, "written", "done")
    /\ lock' = [lock EXCEPT ![key[c]] = IF @ = c THEN NoCall ELSE @]
    /\ cur' = [cur EXCEPT ![c] = NoRow]
    /\ UNCHANGED <<db, today, key, rule, bs, doomed, ghosts>>

-----------------------------------------------------------------------------
(* didctl.sh, the calendar, restarts.                                      *)

\* Someone has read row k and is still to write or delete it.
StaleReader(k) ==
    \/ \E c \in Calls : pc[c] \in {"counting", "writing"} /\ key[c] = k
    \/ k \in doomed

\* transfers add and transfers remove put a fresh row, whatever is there.
OperatorPut(k, flag) ==
    /\ db' = [db EXCEPT ![k] = Row(flag, 0, 0, today)]
    /\ decision' = [decision EXCEPT ![k] = flag]
    /\ raced' = IF StaleReader(k) THEN raced \cup {k} ELSE raced \ {k}
    /\ UNCHANGED <<lock, today, callVars, doomed, counted>>

TransfersAdd(k) == OperatorPut(k, "P")

\* Mutant: removal marks the row with a flag of its own.
TransfersRemoveUnknownFlag(k) == OperatorPut(k, "U")

TransfersRemove(k) == OperatorPut(k, "S")

TransfersReset ==
    /\ db' = [k \in Keys |-> NoRow]
    /\ decision' = [k \in Keys |-> "none"]
    /\ UNCHANGED <<lock, today, callVars, doomed, counted, raced>>

\* Mutant: every idle row expires, pinned and suppressed ones too.
ExpiredAnyFlag(r) == r # NoRow /\ r.seen < today - ExpireDays

Expired(r) == r # NoRow /\ r.flag = "L" /\ r.seen < today - ExpireDays

\* prune lists the rows first and deletes them one by one afterwards.
PruneList ==
    /\ doomed = {}
    /\ doomed' = {k \in Keys : Expired(db[k])}
    /\ doomed' # {}
    /\ UNCHANGED <<db, lock, today, callVars, ghosts>>

PruneDelete(k) ==
    /\ k \in doomed
    /\ doomed' = doomed \ {k}
    /\ db' = [db EXCEPT ![k] = NoRow]
    /\ UNCHANGED <<lock, today, callVars, ghosts>>

Midnight ==
    /\ today < MaxDay
    /\ today' = today + 1
    /\ UNCHANGED <<db, lock, callVars, doomed, ghosts>>

\* Asterisk restarts: live calls end without their hangup handler, locks go.
Restart ==
    /\ pc' = [c \in Calls |-> IF pc[c] = "idle" THEN "idle" ELSE "done"]
    /\ lock' = [k \in Keys |-> NoCall]
    /\ cur' = [c \in Calls |-> NoRow]
    /\ UNCHANGED <<db, today, key, rule, bs, doomed, ghosts>>

Call(c) ==
    \/ Dial(c) \/ EndUnanswered(c) \/ \E t \in Durations : EndAnswered(c, t)
    \/ ReadRow(c) \/ TryLock(c) \/ WriteRow(c) \/ Unlock(c)

Next ==
    \/ \E c \in Calls : Call(c)
    \/ \E k \in Keys : TransfersAdd(k) \/ TransfersRemove(k) \/ PruneDelete(k)
    \/ TransfersReset \/ PruneList \/ Midnight \/ Restart

Spec == Init /\ [][Next]_vars

-----------------------------------------------------------------------------
(* Properties.                                                             *)

TypeOK ==
    /\ db \in [Keys -> Rows \cup {NoRow}]
    /\ lock \in [Keys -> Calls \cup {NoCall}]
    /\ today \in Nat
    /\ pc \in [Calls -> {"idle", "up", "ended", "counting", "writing", "written", "done"}]
    /\ key \in [Calls -> Keys]
    /\ rule \in [Calls -> {"none", "pool", "pinned", "learned"}]
    /\ bs \in [Calls -> Nat]
    /\ cur \in [Calls -> Rows \cup {NoRow}]
    /\ doomed \in SUBSET Keys
    /\ counted \in SUBSET Calls
    /\ decision \in [Keys -> {"none", "P", "S"}]
    /\ raced \in SUBSET Keys

CountedOn(k) == {c \in counted : key[c] = k}
Seconds(S) == MapThenSumSet(LAMBDA c : bs[c], S)

\* Lost updates lose whole calls: a stored row's count and seconds are those
\* of some set of answered calls to that destination, so its ACD is never a
\* mixture of one call's count with another's seconds
\* (extensions.conf.tpl:720-746).
RowIsASetOfCalls ==
    \A k \in Keys : db[k] # NoRow =>
        \E S \in SUBSET CountedOn(k) :
            Cardinality(S) = db[k].n /\ Seconds(S) = db[k].b

\* A call passes the customer's caller ID through as a learned transfer only
\* if at least MinCalls answered calls to that destination were counted
\* (extensions.conf.tpl:375-380).
LearnedHasEvidence ==
    \A c \in Calls : rule[c] = "learned" => Cardinality(CountedOn(key[c])) >= MinCalls

\* What an operator decided about a row stands, unless someone who had
\* already read the row when the operator wrote it goes on to write or delete
\* it: later calls and later prunes never undo it (extensions.conf.tpl:732-734,
\* didctl.sh:376-391).
DecisionStands ==
    \A k \in Keys : decision[k] # "none" /\ k \notin raced =>
        db[k] # NoRow /\ db[k].flag = decision[k]

-----------------------------------------------------------------------------
(* What the comments say, and the code does not do.                        *)

\* extensions.conf.tpl:732 "A destination an operator explicitly unpinned is
\* never re-learned."
SuppressedIsNeverRelearned ==
    \A k \in Keys : decision[k] = "S" => db[k] # NoRow /\ db[k].flag = "S"
=============================================================================
