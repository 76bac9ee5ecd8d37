SPECIFICATION Spec
CONSTANTS
  Requests = {q1}
  Streams = {}
  Uploads = {q1}
  Policies <- MCPolicies
  Costs <- MCCosts
  StartBalance = 6
  UnitsPerMinor = 2
  MaxChanges = 0
  MaxFailures = 0
  NoCap = NoCap
INVARIANT HistoryShowsCharge
CHECK_DEADLOCK FALSE
