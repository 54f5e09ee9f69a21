\* Two calls, two pools that share a number, three days: walks, overflow and
\* refusals, midnight, prune, the operator's writes, restarts, and that every
\* pick ends.
SPECIFICATION FairSpec
CONSTANTS
    Calls = {c1, c2}
    d1 = d1
    d2 = d2
    DIDs = {d1, d2}
    Keys <- MCKeys
    Overflow = "over"
    Pool <- MCPool
    Cap = 1
    MaxTries = 1
    KeepDays = 1
    MaxDay = 3
    OperatorValues = {0}
    OperatorDays = {2}
    NoCall = NoCall
    NoDid = NoDid
    NoValue = NoValue
INVARIANTS
    TypeOK
    CapOvershoot
    CountersExact
    OneLockAtATime
    RejectedOnlyWhenExhausted
PROPERTIES
    PickEnds
