SPECIFICATION FairSpec
CONSTANTS
  NoPayment = NoPayment
  MaxAttempts = 2
  Payments = {p1, p2}
  Handlers = {h1, h2}
  Admins = {a1}
  FailedBefore = {p2}
  MaxRetries = 1
  MaxFailures = 3
INVARIANTS
  CreditedAtMostOnce
  CreditedIsPaid
  PaidHasTopUp
PROPERTIES
  EventuallyAcked
  PaidIsCreditedWhenCalm
  ReceivedIsProcessedWhenCalm
CHECK_DEADLOCK FALSE
