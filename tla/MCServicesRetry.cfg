SPECIFICATION MCSpec
CONSTANTS
  Rows <- MCRows FirstRows <- MCFirst Kinds <- MCKinds
  Sorts <- MCSorts Filters <- MCFilters
  Asked = {0, 2, 9}
  Second = 10 DefaultLimit = 1 MaxLimit = 2 MaxChanges = 2
  Requests = {q1, q2} Keys = {k1} Payloads = {p1, p2} NoRow = NoRow
  TTL = 1 MaxClock = 2 MaxRuns = 3
  Entities = {e1, e2} Writers = {w1, w2} Readings <- MCReadings MaxEvents = 3
INVARIANT FailuresNotSaved
CHECK_DEADLOCK FALSE
