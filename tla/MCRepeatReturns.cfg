\* A request, and its repetition.
SPECIFICATION MCSpec
CONSTANTS
  None = None
  Child = Child
  Reference = Reference
  Requests = {r1, r2}
  Handlers = {h1}
  MaxAttempts = 1
  MaxCalls = 0
  Kinds = {"MIXED"}
PROPERTIES RepeatReturnsExisting
CHECK_DEADLOCK FALSE
