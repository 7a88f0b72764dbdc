\* store.py documents in_flight as "a resume is running against it".
SPECIFICATION Spec
CONSTANTS
  Clients = {c1}
  Sessions = {s1}
  Calls = {k1, k2}
  RequestLimit = 2
  NoSession = NoSession
INVARIANTS
  InFlightMeansRunning
