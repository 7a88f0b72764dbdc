\* Up to three requests, so two answers that are mapped again, with up to two
\* calls between them; instructions that appear, change and disappear.
CONSTANTS
    FunctionTools <- MCFunctionTools
    OutputTools   <- MCOutputTools
    Instruction = {1, 2}
    MaxCalls = 2
    RequestLimit = 3
SPECIFICATION Spec
INVARIANTS NothingDropped InstructionsLead ResultsFollowCalls FallsBackOnFaultsOnly
CHECK_DEADLOCK FALSE
