SPECIFICATION LoopSpec
CONSTANTS
  Graphs <- TrainableChain
  MaxCalls = 1
INVARIANT
  TapeIntact
CHECK_DEADLOCK FALSE
