\* Two calls of two endpoints, two gateways that grant one call a second.
SPECIFICATION Spec
CONSTANTS
    Calls = {c1, c2}
    Endpoints = {e1, e2}
    MaxCps = 2
    MaxConcurrent = 1
    MaxClock = 1
    NoGroup = NoGroup
    GwCount = 2
    MaxCpsGw = 1
    MaxAttempts = 2
    FastReject = TRUE
SYMMETRY MCSymmetry
INVARIANT ThrottledCallKeepsAllowance
CHECK_DEADLOCK FALSE
