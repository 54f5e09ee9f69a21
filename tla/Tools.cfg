\* The tools come to an end when they have been run MaxRuns times, or the
\* calls of the last day are made.
SPECIFICATION Spec
CONSTANTS
  a1 = a1
  a2 = a2
  b1 = b1
  b2 = b2
  b3 = b3
  Numbers = {a1, a2, b1, b2, b3}
  Area <- MCArea
  Matched <- MCMatched
  Substitutes <- MCSubstitutes
  PerNpa = 1
  OverflowTarget = 2
  BatchMax = 2
  Existing = {b3}
  MaxRuns = 2
  MaxFaults = 1
  MaxEdits = 1
  Npas <- MCNpas
  Fleets <- MCFleets
  Cap = 1
  Headroom = 0
  OverflowMin = 1
  Priority <- MCPriority
  Listed <- MCListed
  MaxDay = 2
  MaxCalls = 2
SYMMETRY MCSymmetry
CHECK_DEADLOCK FALSE
INVARIANTS
  BooksMatchTheAccount
  PoolsKeepTheirSize
  PlanHolds
