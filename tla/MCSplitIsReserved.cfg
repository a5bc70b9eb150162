SPECIFICATION Spec
CONSTANTS
  None = None
  Child = Child
  Reference = Reference
  Requests = {r1}
  Handlers = {h1}
  MaxAttempts = 1
  MaxCalls = 0
  Kinds = {"MIXED"}
INVARIANT SplitIsReserved
CHECK_DEADLOCK FALSE
