\* Three callers race for one session over several approval rounds.
SPECIFICATION Spec
CONSTANTS
  Clients = {c1, c2, c3}
  Sessions = {s1}
  Calls = {k1, k2, k3}
  RequestLimit = 4
  NoSession = NoSession
INVARIANTS
  OneResumePerSession
  DecidedOnce
  ExecutedOnlyAsApproved
PROPERTIES
  PendingLeavesOnlyByClaim
  UsageAccumulates
  ImplementsGate
  Answered
