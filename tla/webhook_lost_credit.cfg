SPECIFICATION FairSpec
CONSTANTS
  NoPayment = NoPayment
  MaxAttempts = 2
  Payments = {p1}
  Handlers = {h1, h2}
  Admins = {a1}
  FailedBefore = {}
  MaxRetries = 1
  MaxFailures = 1
PROPERTY PaidIsCredited
CHECK_DEADLOCK FALSE
