SPECIFICATION Spec
CONSTANTS
  None = None
  Payouts = {retailer}
  Bank = {retailer}
  Workers = {w1}
  Scheduler = scheduler
  Callbacks = {c1}
  MaxRetries = 2
  BatchSize = 1
  Lossy = FALSE
  Faulty = FALSE
PROPERTY SentOnce
CHECK_DEADLOCK FALSE
