SPECIFICATION Spec
CONSTANTS
  cash = cash  stk = stk  solo = solo  mixed = mixed  dep = dep
  None = None
  Transfers = {cash, stk}
  Collected = {stk}
  Standalone = {}
  Legacy = {}
  Mixed = {}
  Deposits = {dep}
  Amount <- MCAmount
  Total <- MCTotal
  Handlers = {h1}
  Lossy = FALSE
  Faulty = FALSE
INVARIANT NoOverdraft
CHECK_DEADLOCK FALSE
