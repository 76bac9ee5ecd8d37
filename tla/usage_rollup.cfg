SPECIFICATION Spec
CONSTANTS
  e1 = e1
  e2 = e2
  l1 = l1
  NoRow = NoRow
  Events = {e1, e2, l1}
  Legacy = {l1}
  Writers = {w1, w2}
  Days = 1
  Tokens = {1}
SYMMETRY Symmetry
INVARIANTS
  RowsMakeSense
  RollupNeverAhead
  AnalyticsExact
CHECK_DEADLOCK FALSE
