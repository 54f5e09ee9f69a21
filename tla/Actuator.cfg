\* Three calls, two probe misses before a channel is written off, one restart
\* of Asterisk; shadow mode with and without the heuristic, and enforcement.
SPECIFICATION Spec
CONSTANTS
    Calls = {a, b, c}
    MaxProbeMisses = 2
    MaxReboots = 1
    None = None
SYMMETRY MCSymmetry
INVARIANTS
    TypeOK
    CacheCoherent
PROPERTY KillsTheCallOrNobody
\* Each call is made once, and the system may come to rest.
CHECK_DEADLOCK FALSE
