----------------------------- MODULE Counters -----------------------------
(***************************************************************************)
(* phraseguard/record.py's CustomerCounters for one customer: the rows of  *)
(* the last DayS, and when the customer was last alerted about.            *)
(***************************************************************************)
EXTENDS Recency, FiniteSets

CONSTANTS
    DayS,          \* window_s, 24 hours
    AlertMinCalls, AlertKillRate, AlertBRate, \* calls; events per 1000 calls
    AlertEveryS    \* alert_interval_s

ASSUME CountersNat ==
    /\ {DayS, AlertMinCalls, AlertKillRate, AlertBRate, AlertEveryS} \subseteq Nat
    /\ AlertEveryS # 0

Never == 0 - AlertEveryS
NoCounters == [events |-> <<>>, last |-> Never]

Recent(rows, now) == Since(rows, now - DayS)

\* load: rows of the last day; a file that is absent reads as nothing.
LoadCounters(stored, now) == [stored EXCEPT !.events = Recent(@, now)]

\* _trim: only when the oldest row is too old.
Trimmed(rows, now) ==
    IF rows = <<>> \/ rows[1].at >= now - DayS THEN rows ELSE Recent(rows, now)

\* add: a row without a customer is not counted.
Count(c, known, kind, now) ==
    IF ~known THEN c
    ELSE [c EXCEPT !.events = Trimmed(Append(@, [at |-> now, kind |-> kind]), now)]

Total(rows, kind) == Cardinality({i \in DOMAIN rows : rows[i].kind = kind})
Rate(rows, kind) ==
    IF Total(rows, "calls") = 0 THEN 0
    ELSE (1000 * Total(rows, kind)) \div Total(rows, "calls")

\* check_alerts: enough calls, a rate over its limit, and no alert lately.
OverRate(rows) ==
    /\ Total(rows, "calls") >= AlertMinCalls
    /\ Rate(rows, "kill") >= AlertKillRate \/ Rate(rows, "b_event") >= AlertBRate

\* Mutant: a customer is alerted about once.
AlertsOnce(c, now) ==
    OverRate(Trimmed(c.events, now)) /\ c.last = Never

Alerts(c, now) ==
    OverRate(Trimmed(c.events, now)) /\ now - c.last >= AlertEveryS

CheckAlerts(c, now) ==
    [events |-> Trimmed(c.events, now),
     last |-> IF Alerts(c, now) THEN now ELSE c.last]
=============================================================================
