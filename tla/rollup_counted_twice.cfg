SPECIFICATION Spec
CONSTANTS
  e1 = e1
  e2 = e2
  l1 = l1
  NoRow = NoRow
  Events = {e1}
  Legacy = {}
  Writers = {w1, w2}
  Days = 1
  Tokens = {1}
INVARIANT RollupIsSum
CHECK_DEADLOCK FALSE
