\* A plan of up to three subquestions, two researchers of two turns each, who can find
\* more anchors than the notes of a finding hold.
SPECIFICATION Spec
CONSTANTS
  MaxPlan = 3
  MaxResearchers = 2
  MaxIterations = 2
  TopK = 2
  Hits <- MCHits
  Invented = 0
  MaxNotes = 2
  MaxCited = 2
CHECK_DEADLOCK FALSE
INVARIANTS
  TypeOK
  EventsInOrder
  FindingsGrounded
  ReportComplete
PROPERTIES
  Ends
