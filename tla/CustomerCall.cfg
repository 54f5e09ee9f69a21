\* Two calls of two endpoints, two gateways that grant one call a second.
SPECIFICATION FairSpec
CONSTANTS
    Calls = {c1, c2}
    Endpoints = {e1, e2}
    MaxCps = 2
    MaxConcurrent = 1
    MaxClock = 1
    NoGroup = NoGroup
    GwCount = 2
    MaxCpsGw = 1
    MaxAttempts = 2
    FastReject = TRUE
INVARIANTS
    TypeOK
    ConcurrencyCap
    GatewayGrant
    InvitesCounted
    DeclineIsThisAttempts
PROPERTIES
    RedialledOnTrunkFailure
    DialEnds
\* Each call is made once and the clock is bounded: the model stops when all
\* of them are over.
CHECK_DEADLOCK FALSE
