\* An event, two deposits with two deliveries and a process stop, and in the
\* float every kind of transfer, one handler, no lost answer.
SPECIFICATION ProgressSpec
CONSTANTS
  Notifications = {n1}
  Endpoints = {e1, e2}
  NoEndpoint = NoEndpoint
  MaxTries = 3
  MaxVersion = 2
  FloatDeposits = {d1, d2}
  DepCallbacks = {c1, c2}
  DepLossy = TRUE
  MaxDepCrashes = 1
  NoDeposit = NoDeposit
  cash = cash  stk = stk  solo = solo  mixed = mixed   dep = dep
  None = None
  Transfers = {cash, stk, solo, mixed}
  Collected = {stk}
  Standalone = {solo}
  Legacy = {mixed}
  Mixed = {mixed}
  Deposits = {dep}
  Amount <- MCAmount
  Total <- MCTotal
  Handlers = {h1}
  Lossy = FALSE
  Faulty = FALSE
INVARIANTS DepTypeOK CreditedIsCollected MovedIsLedgered NotStranded
PROPERTIES FinalOnceAnswered NotifyReturns ReportDecides
  TransferResolved AdmissionDecided
CHECK_DEADLOCK FALSE
