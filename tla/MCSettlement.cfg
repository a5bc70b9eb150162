\* One initiation that may push twice; two handlers, or one and two calls from
\* outside (see the module).
SPECIFICATION MCSpec
CONSTANTS
  None = None
  Child = Child
  Reference = Reference
  Requests = {r1}
  Handlers = {h1, h2}
  MaxAttempts = 2
  MaxCalls = 2
  Kinds = {"MPESA", "CASH", "MIXED"}
INVARIANTS TypeOK SplitIsPaid GateOpensOnPayment RepeatRecognised
PROPERTIES PaidIsSplit DeclineIsRecorded AdmittedIsAllocated
CHECK_DEADLOCK FALSE
