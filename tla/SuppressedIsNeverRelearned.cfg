\* Three calls to one destination over two days, of 1 s or 3 s each against an
\* ACD threshold of 1 s; a learned row expires on the first day without a call.
SPECIFICATION Spec
CONSTANTS
    Calls = {c1, c2, c3}
    Keys = {k1}
    MinCalls = 2
    MinAcd = 1
    Durations = {1, 3}
    ExpireDays = 0
    MaxDay = 2
    NoRow = NoRow
    NoCall = NoCall
SYMMETRY MCSymmetry
INVARIANT SuppressedIsNeverRelearned
