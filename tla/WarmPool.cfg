SPECIFICATION LoopSpec
CONSTANTS
  Graphs <- LinearAttention
  MaxCalls = 4
PROPERTY
  WarmAfterTwoCalls
CHECK_DEADLOCK FALSE
