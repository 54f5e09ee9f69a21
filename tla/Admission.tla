----------------------------- MODULE Admission -----------------------------
(***************************************************************************)
(* The throttles of [sbc-customer] in asterisk/extensions.conf.tpl: calls  *)
(* per second over the whole box, then concurrent calls per customer       *)
(* endpoint.  Both are counted with Asterisk channel groups.  A channel is *)
(* in at most one group of a category, leaves all of them when it is       *)
(* destroyed, and nothing orders its SET before another channel's COUNT.   *)
(***************************************************************************)
EXTENDS Integers, FiniteSets

CONSTANTS
    Calls,          \* the channels; each makes one call
    Endpoints,      \* the customer endpoints
    MaxCps,         \* SBC_MAX_CPS
    MaxConcurrent,  \* SBC_MAX_CONCURRENT
    MaxClock,       \* bound of this model: the last second it reaches
    NoGroup         \* a channel in no group of the category

ASSUME CallsFinite == IsFiniteSet(Calls)
ASSUME LimitsNat == MaxCps \in Nat /\ MaxConcurrent \in Nat
ASSUME ClockNat == MaxClock \in Nat
ASSUME NoGroupFresh == NoGroup \notin Nat \cup Endpoints

VARIABLES
    clock,      \* EPOCH
    step,       \* how far each call is
    ep,         \* SBC_EP, its endpoint
    sec,        \* SBC_SEC, the second it read
    cpsGroup,   \* GROUP(cps)
    custGroup   \* GROUP(cust)

admissionVars == <<clock, step, ep, sec, cpsGroup, custGroup>>

Steps == {"idle", "arrived", "timed", "in_cps", "cps_ok", "in_cust",
          "admitted", "refused", "gone"}

Advance(c, from, to) == step[c] = from /\ step' = [step EXCEPT ![c] = to]

InCps(s) == {c \in Calls : cpsGroup[c] = s}
InCust(e) == {c \in Calls : custGroup[c] = e}

AdmissionInit ==
    /\ clock = 0
    /\ step = [c \in Calls |-> "idle"]
    /\ ep \in [Calls -> Endpoints]
    /\ sec = [c \in Calls |-> 0]
    /\ cpsGroup = [c \in Calls |-> NoGroup]
    /\ custGroup = [c \in Calls |-> NoGroup]

-----------------------------------------------------------------------------
\* The INVITE's channel exists and its earlier checks have passed.
Arrive(c) ==
    /\ Advance(c, "idle", "arrived")
    /\ UNCHANGED <<clock, ep, sec, cpsGroup, custGroup>>

\* EPOCH is read once, into SBC_SEC.
ReadClock(c) ==
    /\ Advance(c, "arrived", "timed")
    /\ sec' = [sec EXCEPT ![c] = clock]
    /\ UNCHANGED <<clock, ep, cpsGroup, custGroup>>

SetCps(c) ==
    /\ Advance(c, "timed", "in_cps")
    /\ cpsGroup' = [cpsGroup EXCEPT ![c] = sec[c]]
    /\ UNCHANGED <<clock, ep, sec, custGroup>>

\* GROUP_COUNT includes the channel itself.
CountCps(c) ==
    /\ Advance(c, "in_cps",
               IF Cardinality(InCps(sec[c])) > MaxCps THEN "refused" ELSE "cps_ok")
    /\ UNCHANGED <<clock, ep, sec, cpsGroup, custGroup>>

SetCust(c) ==
    /\ Advance(c, "cps_ok", "in_cust")
    /\ custGroup' = [custGroup EXCEPT ![c] = ep[c]]
    /\ UNCHANGED <<clock, ep, sec, cpsGroup>>

\* Mutant: only calls that were already admitted are counted.
CountCustAdmitted(c) ==
    /\ Advance(c, "in_cust",
               IF Cardinality({b \in InCust(ep[c]) : step[b] = "admitted"}) > MaxConcurrent
               THEN "refused" ELSE "admitted")
    /\ UNCHANGED <<clock, ep, sec, cpsGroup, custGroup>>

CountCust(c) ==
    /\ Advance(c, "in_cust",
               IF Cardinality(InCust(ep[c])) > MaxConcurrent THEN "refused" ELSE "admitted")
    /\ UNCHANGED <<clock, ep, sec, cpsGroup, custGroup>>

\* The channel is destroyed, after a refusal, a cancel or the end of the
\* call, and with it its variables and its memberships.
End(c) ==
    /\ step[c] \notin {"idle", "gone"}
    /\ step' = [step EXCEPT ![c] = "gone"]
    /\ cpsGroup' = [cpsGroup EXCEPT ![c] = NoGroup]
    /\ custGroup' = [custGroup EXCEPT ![c] = NoGroup]
    /\ sec' = [sec EXCEPT ![c] = 0]
    /\ UNCHANGED <<clock, ep>>

Tick ==
    /\ clock < MaxClock
    /\ clock' = clock + 1
    /\ UNCHANGED <<step, ep, sec, cpsGroup, custGroup>>

\* What the call's own thread does on the way to admission.
Admit(c) ==
    \/ Arrive(c) \/ ReadClock(c) \/ SetCps(c) \/ CountCps(c)
    \/ SetCust(c) \/ CountCust(c)

AdmissionNext == (\E c \in Calls : Admit(c) \/ End(c)) \/ Tick

AdmissionSpec == AdmissionInit /\ [][AdmissionNext]_admissionVars

-----------------------------------------------------------------------------
(* Properties.                                                             *)

AdmissionTypeOK ==
    /\ clock \in Nat
    /\ step \in [Calls -> Steps]
    /\ ep \in [Calls -> Endpoints]
    /\ sec \in [Calls -> Nat]
    /\ cpsGroup \in [Calls -> Nat \cup {NoGroup}]
    /\ custGroup \in [Calls -> Endpoints \cup {NoGroup}]

PassedCps(s) == {c \in InCps(s) : step[c] \in {"cps_ok", "in_cust", "admitted"}}
Admitted(e) == {c \in InCust(e) : step[c] = "admitted"}

\* Of the calls that began in one second and are still up, at most MaxCps
\* passed the rate check, whatever the order of the channels' SETs and
\* COUNTs and of the clock (extensions.conf.tpl:314-325).
CpsCap == \A s \in 0 .. clock : Cardinality(PassedCps(s)) <= MaxCps

\* An endpoint never has more than MaxConcurrent admitted calls up
\* (extensions.conf.tpl:327-332).
ConcurrencyCap == \A e \in Endpoints : Cardinality(Admitted(e)) <= MaxConcurrent
=============================================================================
