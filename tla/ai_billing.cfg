SPECIFICATION FairSpec
CONSTANTS
  Requests = {q1, q2}
  Streams = {q1}
  Uploads = {q2}
  Policies <- MCPolicies
  Costs <- MCCosts
  StartBalance = 6
  UnitsPerMinor = 2
  MaxChanges = 1
  MaxFailures = 2
  NoCap = NoCap
INVARIANT AnswerIsPaid ChargesWithinPolicy HistoryShowsChargeWhenCalm
PROPERTY ServedIsInHistoryWhenCalm
CHECK_DEADLOCK FALSE
