SPECIFICATION Spec
CONSTANTS
  u1 = u1
  u2 = u2
  k1 = k1
  d1 = d1
  d2 = d2
  b1 = b1
  b2 = b2
  NoReq = NoReq
  Users = {u1, u2}
  TopUps = {k1}
  Debits = {}
  BatchKeys = {b1, b2}
  Adjustments <- MCNone
  Txs = {t1, t2}
  OwnerOf <- MCOwnerOf
  AmountOf <- MCAmountOf
  DebitOf <- MCDebitOf
  MaxInt4 = 9
  UpsertLocks = TRUE
INVARIANT CreditedAtMostOnce
CHECK_DEADLOCK FALSE
