\* Up to three branches on two workers, a cap of two, two possible answers.
SPECIFICATION FairSpec
CONSTANTS
  MaxBranches = 3
  MaxWorkers = 2
  Pool = 2
  Outputs = {yes, no}
  NoOutput = NoOutput
CHECK_DEADLOCK FALSE
INVARIANTS
  ResultInOrder
PROPERTIES
  Ends
