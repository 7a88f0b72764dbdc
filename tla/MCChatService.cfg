\* Two concurrent requests over a chain whose second member connects lazily.
SPECIFICATION Spec
CONSTANTS
  Request = {r1, r2}
  NoOne = NoOne
  Order <- MCOrder
  Lazy <- MCLazy
  Pinned <- MCPinned
  SdkRetries = 1
  RequestLimit = 2
  Timeout = 1
  Kb = {k1}
  Invented = {k2}
INVARIANTS CitesOnlyFound NothingLeftBehind SpendBounded
PROPERTIES Answered
CHECK_DEADLOCK FALSE
