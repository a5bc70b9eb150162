SPECIFICATION Spec
CONSTANTS
  cash = cash  stk = stk  solo = solo  mixed = mixed  dep = dep
  None = None
  Transfers = {solo}
  Collected = {}
  Standalone = {solo}
  Legacy = {}
  Mixed = {}
  Deposits = {dep}
  Amount <- MCAmount
  Total <- MCTotal
  Handlers = {h1}
  Lossy = TRUE
  Faulty = FALSE
INVARIANT MovedIsLedgered
CHECK_DEADLOCK FALSE
