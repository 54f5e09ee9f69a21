------------------------------ MODULE Actuator ------------------------------
(***************************************************************************)
(* phraseguard/actuator.py: from a Call-ID to a channel name, and the      *)
(* hangup.  Everything it knows of Asterisk comes through `asterisk -rx`,  *)
(* one fork per command; between two commands Asterisk moves on, and any   *)
(* of them may fail, which AsteriskCLI.rx reports as empty output.         *)
(*                                                                         *)
(* The calls have one endpoint, dialled number and age, as an agent pool's *)
(* calls may: the worst case of the heuristic.  Carrier legs are left out; *)
(* the endpoint filter of probe_all keeps them from being probed.          *)
(***************************************************************************)
EXTENDS Integers, FiniteSets

CONSTANTS
    Calls,           \* SIP calls of the customer, by Call-ID
    MaxProbeMisses,  \* MAX_PROBE_MISSES
    MaxReboots,      \* bound of this model: restarts of Asterisk
    None

ASSUME CallsFinite == IsFiniteSet(Calls) /\ None \notin Calls
ASSUME MissesNat == MaxProbeMisses \in Nat \ {0} /\ MaxReboots \in Nat

\* Asterisk numbers its channels in order of creation, from 1 at every start.
\* It creates as many as there are calls here.
Names == 1..Cardinality(Calls)
NoName == 0

Configs == [enforce : BOOLEAN, heuristic : BOOLEAN]
Entries == [cid : Calls \cup {None}, misses : 0..MaxProbeMisses]
NewEntry == [cid |-> None, misses |-> 0]

ASSUME NoneIsNoEntry == None \notin Entries

VARIABLES
    used,      \* the Call-IDs that calls have had
    chan,      \* Asterisk: the call on each channel name
    lastName,  \* Asterisk: how many channels it has created since it started
    readable,  \* Asterisk: the calls on which the dialplan has set SBC_CALLID
    reboots,   \* Asterisk: its restarts
    reused,    \* history: names given out before a restart
    config,    \* [enforce, heuristic] of config.env
    table,     \* ChannelTable.channels
    byCallId,  \* ChannelTable.by_call_id
    at,        \* where the resolution under way is
    call,      \* the call it is for
    todo       \* the channels it has still to probe, or to choose from

asteriskVars == <<used, chan, lastName, readable, reboots, reused>>
cacheVars == <<table, byCallId>>
jobVars == <<at, call, todo>>
vars == <<asteriskVars, config, cacheVars, jobVars>>

OnChannels(S) == {c \in Calls : \E n \in S : chan[n] = c}
Live == OnChannels(Names)
LiveNames == {n \in Names : chan[n] # None}

\* Mutant: enforcement starts with the heuristic allowed.
RefusedNothing(c) == FALSE

\* preflight: what the daemon refuses to start with.
Refused(c) == c.enforce /\ c.heuristic

Init ==
    /\ used = {} /\ chan = [n \in Names |-> None] /\ lastName = 0 /\ readable = {}
    /\ reboots = 0 /\ reused = {}
    /\ config \in {c \in Configs : ~Refused(c)}
    /\ table = [n \in Names |-> None] /\ byCallId = [c \in Calls |-> NoName]
    /\ at = "idle" /\ call = None /\ todo = {}

-----------------------------------------------------------------------------
(* Asterisk.                                                               *)

Asterisk == UNCHANGED <<config, cacheVars, jobVars>>

\* A new call has a Call-ID of its own.  Its channel is created before the
\* dialplan runs on it.
CreateChannel(c) ==
    /\ c \notin used
    /\ used' = used \cup {c}
    /\ lastName' = lastName + 1
    /\ chan' = [chan EXCEPT ![lastName + 1] = c]
    /\ Asterisk /\ UNCHANGED <<readable, reboots, reused>>

SetCallId(c) ==
    /\ c \in Live \ readable
    /\ readable' = readable \cup {c}
    /\ Asterisk /\ UNCHANGED <<used, chan, lastName, reboots, reused>>

Destroyed(c) ==
    /\ chan' = [n \in Names |-> IF chan[n] = c THEN None ELSE chan[n]]
    /\ readable' = readable \ {c}
    /\ UNCHANGED <<used, lastName, reboots, reused>>

DestroyChannel(c) == c \in Live /\ Destroyed(c) /\ Asterisk

\* All channels are gone and the numbering starts again.
Reboot ==
    /\ reboots < MaxReboots
    /\ reboots' = reboots + 1
    /\ reused' = reused \cup 1..lastName
    /\ chan' = [n \in Names |-> None] /\ lastName' = 0 /\ readable' = {}
    /\ Asterisk /\ UNCHANGED used

-----------------------------------------------------------------------------
(* ChannelTable.                                                           *)

Listed(seen) == [n \in Names |-> IF n \notin seen THEN None
                                 ELSE IF table[n] = None THEN NewEntry ELSE table[n]]

\* Mutant: a channel leaves the table and its Call-ID stays in the index.
TakeListingOnly(seen) == table' = Listed(seen) /\ UNCHANGED byCallId

\* The names a listing shows: new ones enter unprobed, missing ones leave with
\* their Call-ID.
TakeListing(seen) ==
    /\ table' = Listed(seen)
    /\ byCallId' = [c \in Calls |->
           LET n == byCallId[c] IN
           IF n # NoName /\ n \notin seen /\ table[n] # None /\ table[n].cid = c
           THEN NoName ELSE n]

\* A refresh within list_ttl of the last does nothing; a failed command shows
\* no channel at all.
Refresh == UNCHANGED cacheVars \/ \E seen \in {LiveNames, {}} : TakeListing(seen)

\* Mutant: one miss too many.
ProbedLate(e) == e.cid # None \/ e.misses > MaxProbeMisses

\* A channel is probed until its Call-ID is known or it is written off.
Probed(e) == e.cid # None \/ e.misses >= MaxProbeMisses

Unprobed(t) == {n \in Names : t[n] # None /\ ~Probed(t[n])}

\* `core show channel` says nothing when it fails.  A channel that is gone, or
\* on which SBC_CALLID is not set yet, answers without one: a miss.
Probe(n) ==
    \/ UNCHANGED cacheVars
    \/ /\ chan[n] \in readable
       /\ table' = [table EXCEPT ![n].cid = chan[n]]
       /\ byCallId' = [byCallId EXCEPT ![chan[n]] = n]
    \/ /\ chan[n] \notin readable
       /\ table' = [table EXCEPT ![n].misses = @ + 1]
       /\ UNCHANGED byCallId

-----------------------------------------------------------------------------
(* ChannelResolver.resolve and Hangup.execute, one command per step.       *)

\* handle_match: a Tier A phrase was said on a call.
Match(c) ==
    /\ at = "idle"
    /\ at' = "refresh" /\ call' = c /\ todo' = {}
    /\ UNCHANGED <<asteriskVars, config, cacheVars>>

Continue(where, names) == at' = where /\ todo' = names /\ UNCHANGED call
Done == at' = "idle" /\ call' = None /\ todo' = {}

Found == byCallId'[call] # NoName

\* A Call-ID the index does not have after the probes: with the heuristic, the
\* one channel of the table that fits, and without it or with several nobody.
Fallback ==
    LET cands == {n \in Names : table'[n] # None} IN
    IF config.heuristic /\ Cardinality(cands) = 1 THEN Continue("guessed", cands) ELSE Done

Resolved == IF Found THEN Continue("found", {}) ELSE Fallback

\* The first refresh and the first look at the index.
FirstLook ==
    /\ at = "refresh"
    /\ Refresh
    /\ IF Found THEN Continue("found", {}) ELSE Continue("list", {})
    /\ UNCHANGED <<asteriskVars, config>>

\* probe_all: another refresh, then the unprobed channels of that table.
ProbeList ==
    /\ at = "list"
    /\ Refresh
    /\ IF Unprobed(table') = {} THEN Resolved ELSE Continue("probe", Unprobed(table'))
    /\ UNCHANGED <<asteriskVars, config>>

ProbeNext(n) ==
    /\ at = "probe" /\ n \in todo
    /\ Probe(n)
    /\ IF todo = {n} THEN Resolved ELSE Continue("probe", todo \ {n})
    /\ UNCHANGED <<asteriskVars, config>>

\* The channel execute is to hang up.
Target(n) == IF at = "guessed" THEN n \in todo ELSE at = "found" /\ n = byCallId[call]

\* The command reaches a live channel.
HangUp(n) ==
    /\ Target(n) /\ config.enforce /\ chan[n] # None
    /\ Destroyed(chan[n])
    /\ Done
    /\ UNCHANGED <<config, cacheVars>>

\* Shadow mode, a failed command, or a channel that is gone.
HangUpNobody ==
    /\ at \in {"found", "guessed"}
    /\ Done
    /\ UNCHANGED <<asteriskVars, config, cacheVars>>

Next ==
    \/ \E c \in Calls : CreateChannel(c) \/ SetCallId(c) \/ DestroyChannel(c) \/ Match(c)
    \/ \E n \in Names : ProbeNext(n) \/ HangUp(n)
    \/ Reboot \/ FirstLook \/ ProbeList \/ HangUpNobody

Spec == Init /\ [][Next]_vars

-----------------------------------------------------------------------------
(* Properties.                                                             *)

TypeOK ==
    /\ used \subseteq Calls
    /\ chan \in [Names -> Calls \cup {None}]
    /\ lastName \in 0..Cardinality(Calls)
    /\ readable \subseteq Calls
    /\ reboots \in 0..MaxReboots
    /\ reused \subseteq Names
    /\ config \in Configs
    /\ table \in [Names -> Entries \cup {None}]
    /\ byCallId \in [Calls -> {NoName} \cup Names]
    /\ at \in {"idle", "refresh", "list", "probe", "found", "guessed"}
    /\ call \in Calls \cup {None}
    /\ todo \subseteq Names

\* The index never names a channel the table does not hold under that
\* Call-ID: what a hangup rests on is a probe of that very channel, and a
\* channel that left the table is not found by an old Call-ID
\* (actuator.py:305-308, 345-347).
CacheCoherent ==
    \A c \in Calls : byCallId[c] # NoName =>
        table[byCallId[c]] # None /\ table[byCallId[c]].cid = c

\* A request hangs up the call it names or nobody; the exception is a call on
\* a channel name given out again (actuator.py:75-78 "Killing the wrong call is
\* worse than missing a scam call", 403).
Promise == INSTANCE Hangups WITH live <- Live, twice <- OnChannels(reused), asked <- call

KillsTheCallOrNobody == Promise!Spec
=============================================================================
