\* Three iterations of two calls, one of three names listed and harmless, one
\* dangerous, one unknown; a budget that two turns can meet exactly.
SPECIFICATION Spec
CONSTANTS
  Names = {safe, risky, unlisted}
  Registry = {safe, risky}
  Dangerous = {risky}
  MaxIterations = 3
  Budget = 2
  MaxCalls = 2
  MaxTokens = 2
CHECK_DEADLOCK FALSE
INVARIANTS
  GuardsHold
  StepsTellTheTruth
  OverspendBounded
