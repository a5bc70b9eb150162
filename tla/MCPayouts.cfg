\* Two M-Pesa payouts, a request and the scheduler, lost answers; two
\* deliveries at once, or failing writes and batches of one (see the module).
SPECIFICATION MCSpec
CONSTANTS
  supplier = supplier  retailer = retailer  c1 = c1  c2 = c2
  None = None
  Payouts = {supplier, retailer}
  Bank = {}
  Workers = {w1}
  Scheduler = scheduler
  Callbacks = {c1, c2}
  MaxRetries = 3
  BatchSize = 1
  Lossy = TRUE
  Faulty = TRUE
INVARIANTS TypeOK DebitedIsPaid ConfirmedIsDebited RetriesBounded
PROPERTY RetryServed
CHECK_DEADLOCK FALSE
