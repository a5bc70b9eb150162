\* The float: two handlers at once, crashes, lost answers.  The services: two
\* calls at a time in each; the bounds on counters are the least that let each
\* event happen twice.
SPECIFICATION PlatformSpec
CONSTANTS
  Reconciliations = {i1}
  ReconHandlers = {d1, d2}
  ReconAmount = 2
  ReconFee = 1
  MaxLedger = 4
  MaxKept = 1
  Notifications = {n1, n2}
  Endpoints = {e1, e2}
  NoEndpoint = NoEndpoint
  MaxTries = 3
  MaxVersion = 2
  Calls = {c1, c2}
  Otps = {o1}
  NoOtp = NoOtp
  MaxChanges = 2
  OnbCalls = {p1, p2}
  Fields = {f1}
  Destinations = {x1, x2}
  NoDest = NoDest
  BankCalls = {b1, b2}
  BankAmounts = {1}
  MaxBalance = 2
  AmtSuppliers = {s1, s2}
  Cents = {0, 1, 150, 9950}
  MaxItems = 2
  LegacyCents = {0, 1, 3}
  LegacyRetailers = {1}
  LegacyFees = {1}
  MaxLegacyItems = 2
  cash = cash  stk = stk  solo = solo  mixed = mixed   dep = dep
  None = None
  Transfers = {cash, stk, mixed}
  Collected = {stk}
  Standalone = {}
  Legacy = {mixed}
  Mixed = {mixed}
  Deposits = {dep}
  Amount <- MCAmount
  Total <- MCTotal
  Handlers = {h1, h2}
  Lossy = TRUE
  Faulty = TRUE
SYMMETRY HandlerSymmetry
CONSTRAINT FewWriters
INVARIANTS TypeOK AdmissionInv LedgerBacked CollectedBeforeTransfer
  ServicesTypeOK MismatchIsReal OneMessagePerEvent PayloadIsCurrent
  OldLoginsAreVoid OtpSingleUse VerifiedByItsSecret CollectionWasCovered
  AcceptedAddsUp FeeIsRetained
PROPERTIES CashFinal LedgerRefined VerdictStands VoidStaysVoid
CHECK_DEADLOCK FALSE
