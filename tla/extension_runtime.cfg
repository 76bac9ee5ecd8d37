SPECIFICATION MCSpec
CONSTANTS
  Tabs = {tab1, tab2}
  MaxRequests = 3
  MaxSessions = 3
  MaxDisturbances = 1
  Procs = {p1, p2}
  MaxItems = 2
  MaxCalls = 3
  MaxAgings = 1
  MaxFaults = 1
SYMMETRY Symmetry
INVARIANT BufferHolds  SessionSurvives CookiesFitSessions
CHECK_DEADLOCK FALSE
