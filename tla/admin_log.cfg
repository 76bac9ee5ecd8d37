SPECIFICATION MCSpec
CONSTANTS
  Rows <- MCRows
  Stream <- MCStream
  Time <- MCTime
  Recording <- MCRecording
  AiCalls <- MCAiCalls
  Persists <- MCPersists
  Legacy = {4}
  Keep <- MCKeep
  Scopes <- MCScopes
  BackfillBatch = 1
  RepairBatch = 2
  PruneLimit = 1
  PageSize = 1
  MaxNow = 1
  MaxRuns = 2
  Fields = {f1, f2}
  Servers = {s1, s2}
  Calls = {c1, c2}
  Lifetime = 2
  MaxBusy = 1
  MaxTime = 3
  MaxChanges = 2
  MaxFailures = 1
SYMMETRY Symmetry
INVARIANT BackfillLeavesNoGap CostShownWhenCalm RepairedRowsAgree WalkSeesStableRows PolicyFollowsChanges
PROPERTY RowsLeaveForAReason
CHECK_DEADLOCK FALSE
