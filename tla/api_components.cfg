SPECIFICATION MCSpec
CONSTANTS
  u1 = u1
  u2 = u2
  k1 = k1
  d1 = d1
  d2 = d2
  b1 = b1
  b2 = b2
  NoReq = NoReq
  Users = {u1, u2}
  TopUps = {k1}
  Debits = {d1, d2}
  BatchKeys = {b1, b2}
  Adjustments <- MCBatches
  Txs = {t1, t2, t3}
  OwnerOf <- MCOwnerOf
  AmountOf <- MCAmountOf
  DebitOf <- MCDebitOf
  MaxInt4 = 3
  UpsertLocks = TRUE
  Versions = {v1, v2, v3}
  Admins = {a1, a2}
  Credentials = {c1, c2}
  Secrets = {s1, s2, s3}
  Malformed = {s1}
  Editors = {e1, e2}
  Keys = {ka, kb}
  Processes = {p1}
  Handlers = {h1, h2}
  Limit = 1
  Window = 2
  PruneEvery = 1
  MaxBuckets = 1
  MaxClock = 4
  MaxAsks = 4
  MaxRedisFailures = 3
SYMMETRY Symmetry
INVARIANT LedgerExplainsBalance KeysPostOnce BalanceNonNegative SettledIffCredited BatchAllOrNothing  ActiveVersionServed  LimitKept
PROPERTY ImplementsLedger
CHECK_DEADLOCK FALSE
