SPECIFICATION MCSpec
CONSTANTS
  Instances = {i1, i2}
  Handlers = {h1, h2}
  Codes = {c1, c2}
  Contexts = {x1, x2}
  TTL = 2
  Cooldown = 1
  MaxActive = 1
  MaxTime = 3
  MaxFailures = 1
  Events = {1, 2, 3}
  KeyOf <- MCKeyOf
  Workers = {w1, w2}
  Attempts = 2
  KeepDone = 1
  KeepFailed = 1
  MaxSends = 3
  MaxFaults = 2
SYMMETRY Symmetry
INVARIANT RedeemedOnce  EventsAccountedFor
CHECK_DEADLOCK FALSE
